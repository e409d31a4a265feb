--------------------------- MODULE HttpExchangeProofs ---------------------------
(***************************************************************************)
(* Proofs about HttpReplay that follow a response through the replay: what *)
(* has been read of the answer, what has been passed on of the response    *)
(* that was recorded, when the two are compared, and what is said of them. *)
(* They hold for the traffic that the code is written for.                 *)
(***************************************************************************)
EXTENDS HttpReplayProofs

-----------------------------------------------------------------------------
(* Reading one response.                                                   *)

Fresh(t) == t.status_code = NoStatus /\ t.header_str = <<>> /\ t.data = NoProcessor

\* Either kind of payload processor has taken all of the response but what is
\* left of it.
Collecting(d, r, left) ==
  IF Headers[r.head].chunked
  THEN Parsed(d, left, Payload(r))
  ELSE /\ d.type = "length" /\ d.payload_size = Len(Payload(r))
       /\ d \in PayloadProcessor /\ d.fate = "ok"
       /\ d.payload \o left = Payload(r)

\* t has been given r but for what is left of it.
Reads(t, r, left) ==
  \/ Fresh(t) /\ left = Encode(r)
  \/ /\ t.status_code = Headers[r.head].status
     /\ Collecting(t.data, r, left)

\* headers_ says nothing of a length, once responses are in chunks.
Understands(t, chunked) == chunked => t.headers.length = NoLength

\* Passing data on.
LEMMA Collects ==
  ASSUME NEW r \in Response, Framed(r), NEW data \in Bytes, LinesWhole(data), NEW w \in Bytes,
         NEW d, Collecting(d, r, data \o w),
         NEW e, e = Process(d, data)
  PROVE  (e.fate = "throw" /\ ~Overruns(e)) \/ Collecting(e, r, w)
<1>1. CASE Headers[r.head].chunked
  <2>1. Parsed(d, data \o w, Payload(r))
    BY <1>1 DEF Collecting
  <2>2. d \in ChunkedProcessor /\ d.type = "chunked"
    BY <2>1 DEF Parsed, ChunkedProcessor
  <2>3. e = ChunkedProcess[<<d, data>>]
    BY <2>2 DEF Process
  <2>4. e \in ChunkedProcessor /\ (e.fate = "throw" \/ Parsed(e, w, Payload(r)))
    BY <2>1, <2>2, <2>3, ChunksProceed
  <2> QED
    BY <1>1, <2>4 DEF Collecting, ChunkedProcessor, Overruns
<1>2. CASE ~Headers[r.head].chunked
  <2>a. PICK P, old, new : P = Payload(r) /\ old = d.payload /\ new = old \o data
    OBVIOUS
  <2>1. /\ d.type = "length" /\ d.payload_size = Len(P) /\ d \in PayloadProcessor
        /\ d.fate = "ok" /\ old \o (data \o w) = P
    BY <1>2, <2>a DEF Collecting
  <2>2. e = [d EXCEPT !.payload = new]
    BY <2>1, <2>a DEF Process, ContentLenProcess
  <2>3. old \in Bytes /\ new \in Bytes
    <3>1. old \in Bytes
      BY <2>1, <2>a DEF PayloadProcessor, Bytes
    <3> QED
      BY <3>1, <2>a, Concats
  <2>4. new \o w = P
    BY <2>1, <2>3, <2>a, Concats
  <2>5. /\ e \in PayloadProcessor /\ e.type = "length" /\ e.payload_size = Len(P)
        /\ e.fate = "ok" /\ e.payload = new
    BY <2>1, <2>2, <2>3 DEF PayloadProcessor, Bytes
  <2> QED
    BY <1>2, <2>4, <2>5, <2>a DEF Collecting
<1> QED
  BY <1>1, <1>2

\* A processor just made has everything before it.
LEMMA CollectsAll ==
  ASSUME NEW r \in Response, Framed(r), NEW d,
         d = IF Headers[r.head].chunked THEN NewChunkedProcessor
                                        ELSE NewContentLenProcessor(Len(Payload(r)))
  PROVE  Collecting(d, r, Body(r))
<1>a. PICK P : P = Payload(r)
  OBVIOUS
<1>0. P \in Bytes /\ Body(r) \in Bytes
  BY <1>a, EncodeShape
<1>e. PICK z : z = <<>>
  OBVIOUS
<1>1. CASE Headers[r.head].chunked
  <2>1. r.chunks \in Chunks
    <3>1. r.chunks \in Seq(Bytes)
      BY DEF Response, Bytes
    <3>2. \A i \in DOMAIN r.chunks : r.chunks[i] # <<>>
      BY <1>1 DEF Framed
    <3>3. \A i \in 1 .. Len(r.chunks) : r.chunks[i] \in Bytes \ {<<>>}
      BY <3>1, <3>2, ElementOfSeq
    <3>4. PICK cs : cs = r.chunks
      OBVIOUS
    <3>5. cs \in Seq(Bytes) /\ \A i \in 1 .. Len(cs) : cs[i] \in Bytes \ {<<>>}
      BY <3>1, <3>3, <3>4
    <3>6. cs \in Seq(Bytes \ {<<>>})
      BY <3>5
    <3> QED
      BY <3>4, <3>6 DEF Chunks
  <2>2. d = NewChunkedProcessor /\ Body(r) = Frames(r.chunks) /\ P = FlattenSeq(r.chunks)
    BY <1>1, <1>a DEF Body, Payload
  <2>3. d \in ChunkedProcessor
    BY <2>2, NewPayloadProcessors
  <2>4. /\ d.chunk_size = -1 /\ d.chunk_read = 0 /\ d.tmp_buf = z /\ d.end_chars = 0
        /\ d.complete = FALSE /\ d.fate = "ok" /\ d.payload = z
    BY <2>2, <1>e DEF NewChunkedProcessor, NoProcessor
  <2>5. AtSize(d, Body(r), P)
    BY <2>1, <2>2, <2>4, <1>e DEF AtSize
  <2>6. z \o P = P
    BY <1>0, <1>e, Concats
  <2>7. Parsed(d, Body(r), P)
    BY <2>3, <2>4, <2>5, <2>6, <1>0 DEF Parsed, Parsing
  <2> QED
    BY <1>1, <1>a, <2>7 DEF Collecting
<1>2. CASE ~Headers[r.head].chunked
  <2>0. Len(P) \in Nat
    BY <1>0, Concats
  <2>1. d = NewContentLenProcessor(Len(P)) /\ Body(r) = P
    BY <1>2, <1>a DEF Body
  <2>2. d \in PayloadProcessor /\ d.type = "length"
    BY <2>0, <2>1, NewPayloadProcessors
  <2>3. d.payload_size = Len(P) /\ d.fate = "ok" /\ d.payload = z
    BY <2>1, <1>e DEF NewContentLenProcessor, NoProcessor
  <2>4. z \o P = P
    BY <1>0, <1>e, Concats
  <2> QED
    BY <1>2, <1>a, <2>1, <2>2, <2>3, <2>4 DEF Collecting
<1> QED
  BY <1>1, <1>2


\* The header, once what has been read starts with it.
LEMMA HeaderSeen ==
  ASSUME NEW r \in Response, NEW data \in Bytes, NEW w \in Bytes,
         data # <<>>, LinesWhole(data), data \o w = Encode(r)
  PROVE  /\ Len(data) >= 5 /\ data[1] = Head1(r.head)
         /\ Drop(data, 5) \o w = Body(r)
         /\ BlankLineFrom(data, 0) = 1
<1>a. PICK x, body, h : x = HeadSymbols(r) /\ body = Body(r) /\ h = Head1(r.head)
  OBVIOUS
<1>0. x \in Bytes /\ body \in Bytes /\ data \o w = x \o body
  BY <1>a, EncodeShape
<1>1. /\ Len(x) = 5 /\ x[1] = h /\ x[2] = CR /\ x[3] = LF /\ x[4] = CR /\ x[5] = LF
      /\ h.kind = "head" /\ CR.kind = "cr"
  BY <1>a DEF HeadSymbols, Head1, CR
<1>2. Len(data) \in Nat /\ Len(data) > 0
  <2>1. Len(data) \in Nat
    BY Concats
  <2> QED
    BY <2>1, EmptySeq DEF Bytes
<1>3. CutAlike(data, w, x, body)
  BY <1>0, SameCut, Zenon
<1>4. data[1] = h
  <2>1. 1 \in 1 .. Len(data) /\ 1 <= Len(x)
    BY <1>1, <1>2
  <2> QED
    BY <1>1, <1>3, <2>1 DEF CutAlike
<1>5. Len(data) >= 5
  <2>1. 1 \in 1 .. Len(data)
    BY <1>2
  <2>2. data[1].kind = "head" => 1 + 4 <= Len(data)
    BY <2>1 DEF LinesWhole
  <2> QED
    BY <1>1, <1>2, <1>4, <2>2
<1>6. data[2] = CR /\ data[3] = LF /\ data[4] = CR /\ data[5] = LF
  <2>1. \A i \in 1 .. Len(data) : i <= Len(x) => data[i] = x[i]
    BY <1>3 DEF CutAlike
  <2>2. \A i \in 1 .. 5 : data[i] = x[i]
    BY <1>1, <1>2, <1>5, <2>1
  <2> QED
    BY <1>1, <2>2
<1>7. Drop(data, 5) \o w = body
  <2>1. Len(x) <= Len(data) => Drop(data, Len(x)) \o w = body
    BY <1>3 DEF CutAlike
  <2> QED
    BY <1>1, <1>5, <2>1
<1>b. PICK t : t = <<CR, LF, CR, LF>>
  OBVIOUS
<1>8. t \in Bytes /\ Len(t) = 4 /\ t[1] = CR /\ t[2] = LF /\ t[3] = CR /\ t[4] = LF
  BY <1>b, Symbols DEF Bytes
<1>9. Occurs(data, t, 1)
  <2>a. PICK y : y = SubSeq(data, 2, 5)
    OBVIOUS
  <2>1. \A i \in 2 .. 5 : data[i] \in Symbol
    <3>1. \A i \in 2 .. 5 : i \in 1 .. Len(data)
      BY <1>2, <1>5
    <3> QED
      BY <3>1, ElementOfSeq DEF Bytes
  <2>2. /\ y \in Seq(Symbol) /\ Len(y) = 5 - 2 + 1
        /\ \A i \in 1 .. 5 - 2 + 1 : y[i] = data[2 + i - 1]
    BY <1>2, <1>5, <2>1, <2>a, SubSeqProperties DEF Bytes
  <2>3. /\ Len(y) = 4 /\ y[1] = data[2] /\ y[2] = data[3] /\ y[3] = data[4] /\ y[4] = data[5]
    BY <2>2
  <2>4. \A i \in 1 .. 4 : y[i] = t[i]
    BY <1>6, <1>8, <2>3
  <2>5. y = t
    <3>1. y \in Seq(Symbol) /\ t \in Seq(Symbol) /\ Len(y) = Len(t)
          /\ \A i \in 1 .. Len(y) : y[i] = t[i]
      BY <1>8, <2>2, <2>3, <2>4 DEF Bytes
    <3> QED
      BY <3>1, SeqEqual
  <2>6. SubSeq(data, 1 + 1, 1 + Len(t)) = y
    <3>1. 1 + 1 = 2 /\ 1 + Len(t) = 5
      BY <1>8
    <3> QED
      BY <2>a, <3>1
  <2> QED
    BY <2>5, <2>6 DEF Occurs
<1>10. ~Occurs(data, t, 0)
  <2>a. PICK y : y = SubSeq(data, 1, 4)
    OBVIOUS
  <2>1. 4 <= Len(data) /\ 4 \in Int
    BY <1>2, <1>5
  <2>2. \A i \in 1 .. 4 : y[i] = data[i]
    BY <2>1, <2>a, TakeFacts DEF Bytes
  <2>3. y[1] = h
    BY <1>4, <2>2
  <2>4. y # t
    BY <1>1, <1>8, <2>3
  <2>5. SubSeq(data, 0 + 1, 0 + Len(t)) = y
    <3>1. 0 + 1 = 1 /\ 0 + Len(t) = 4
      BY <1>8
    <3> QED
      BY <2>a, <3>1
  <2> QED
    BY <2>4, <2>5 DEF Occurs
<1>11. Find(data, t, 0) = 1
  <2>a. PICK pos : pos = Find(data, t, 0)
    OBVIOUS
  <2>0. Len(t) \in Nat /\ 0 \in Nat
    BY <1>8
  <2>1. \/ /\ Find(data, t, 0) \in 0 .. Len(data) - Len(t)
           /\ Occurs(data, t, Find(data, t, 0))
           /\ \A i \in 0 .. Len(data) - Len(t) : Occurs(data, t, i) => Find(data, t, 0) <= i
        \/ /\ Find(data, t, 0) = NotFound
           /\ \A i \in 0 .. Len(data) - Len(t) : ~Occurs(data, t, i)
    BY <1>2, <2>0, FindFacts, Zenon
  <2>2. 1 \in 0 .. Len(data) - Len(t)
    BY <1>2, <1>5, <1>8
  <2>3. pos \in 0 .. Len(data) - Len(t) /\ Occurs(data, t, pos) /\ pos <= 1
    BY <1>9, <2>1, <2>2, <2>a
  <2>4. pos # 0
    BY <1>10, <2>3
  <2> QED
    BY <1>2, <1>8, <2>3, <2>4, <2>a
<1>12. BlankLineFrom(data, 0) = 1
  <2>1. Len(data) > 3
    BY <1>2, <1>5
  <2> QED
    BY <1>11, <1>b, <2>1 DEF BlankLineFrom
<1> QED
  BY <1>4, <1>5, <1>7, <1>12, <1>a

\* The header selects the processor that the body is written for.
LEMMA HeaderSelects ==
  ASSUME NEW r \in Response, Framed(r), NEW t \in ResponseProcessor, t.fate = "ok",
         Understands(t, Headers[r.head].chunked),
         NEW s, s = SelectProcessor(ParseHeader(t, Head1(r.head)))
  PROVE  /\ s.fate = "ok" /\ s.status_code = Headers[r.head].status
         /\ Understands(s, Headers[r.head].chunked)
         /\ Collecting(s.data, r, Body(r))
         /\ s.data.type # "null"
<1>a. PICK h, n, p, len, chunked :
        /\ h = Headers[r.head] /\ n = Len(Payload(r)) /\ p = ParseHeader(t, Head1(r.head))
        /\ len = IF h.length # NoLength THEN h.length ELSE t.headers.length
        /\ chunked = (h.chunked \/ t.headers.chunked)
  OBVIOUS
<1>0. h \in Header /\ n \in Nat
  BY <1>a, EncodeShape, Concats
<1>1. Head1(r.head).kind = "head" /\ Head1(r.head).val = r.head
  BY DEF Head1
<1>2. p = [t EXCEPT !.status_code = h.status,
                    !.headers = [length |-> len, chunked |-> chunked]]
  BY <1>1, <1>a DEF ParseHeader
<1>3. /\ p.status_code = h.status /\ p.headers = [length |-> len, chunked |-> chunked]
      /\ p.fate = "ok" /\ p \in [status_code : {p.status_code}, header_str : {p.header_str},
                                 headers : {p.headers}, data : {p.data}, fate : {p.fate}]
  BY <1>2 DEF ResponseProcessor
<1>4. p.headers.length = len /\ p.headers.chunked = chunked
  BY <1>3
<1>5. CASE h.chunked
  <2>1. h.length = NoLength /\ t.headers.length = NoLength
    BY <1>5, <1>a DEF Framed, Understands
  <2>2. p.headers.length = NoLength /\ p.headers.chunked
    BY <1>4, <1>5, <1>a, <2>1
  <2>a. PICK d : d = NewChunkedProcessor
    OBVIOUS
  <2>3. s = [p EXCEPT !.data = d]
    BY <1>a, <2>2, <2>a DEF SelectProcessor
  <2>4. s.fate = "ok" /\ s.status_code = h.status /\ s.headers = p.headers /\ s.data = d
    BY <1>3, <2>3
  <2>5. Collecting(d, r, Body(r))
    BY <1>5, <1>a, <2>a, CollectsAll
  <2>6. d.type # "null"
    BY <2>a, NewPayloadProcessors
  <2> QED
    BY <1>a, <2>2, <2>4, <2>5, <2>6 DEF Understands
<1>6. CASE ~h.chunked
  <2>1. h.length = n /\ h.length # NoLength
    BY <1>0, <1>6, <1>a DEF Framed, NoLength
  <2>2. p.headers.length = n
    BY <1>4, <1>a, <2>1
  <2>a. PICK d : d = NewContentLenProcessor(n)
    OBVIOUS
  <2>3. s = [p EXCEPT !.data = d]
    BY <1>a, <2>1, <2>2, <2>a DEF SelectProcessor
  <2>4. s.fate = "ok" /\ s.status_code = h.status /\ s.data = d
    BY <1>3, <2>3
  <2>5. Collecting(d, r, Body(r))
    BY <1>6, <1>a, <2>a, CollectsAll
  <2>6. d.type # "null"
    BY <1>0, <2>a, NewPayloadProcessors
  <2> QED
    BY <1>6, <1>a, <2>4, <2>5, <2>6 DEF Understands
<1> QED
  BY <1>5, <1>6


\* One step of reading a response: no more of it is left unread than was, and
\* what is understood of headers stays so.
LEMMA ReadsOn ==
  ASSUME NEW r \in Response, Framed(r), NEW t, Sane(t), t.fate = "ok",
         Understands(t, Headers[r.head].chunked),
         NEW data \in Bytes, data # <<>>, LinesWhole(data), NEW w \in Bytes,
         Reads(t, r, data \o w),
         NEW s, s = ProcessData(t, data)
  PROVE  \/ s.fate = "throw" /\ ~Overruns(s.data)
         \/ Reads(s, r, w) /\ Understands(s, Headers[r.head].chunked)
<1>a. PICK h : h = Headers[r.head]
  OBVIOUS
<1>0. h \in Header /\ h.status # NoStatus /\ t \in ResponseProcessor
  BY <1>a, EncodeShape DEF Header, NoStatus, Sane
<1>1. CASE Fresh(t) /\ data \o w = Encode(r)
  <2>a. PICK sel, more, q, x, y, hs :
          /\ sel = SelectProcessor(ParseHeader(t, Head1(r.head))) /\ more = Drop(data, 5)
          /\ hs = SubSeq(data, 1, 5) /\ q = [sel EXCEPT !.header_str = hs]
    OBVIOUS
  <2>1. /\ Len(data) >= 5 /\ data[1] = Head1(r.head)
        /\ more \o w = Body(r)
        /\ BlankLineFrom(data, 0) = 1
    BY <1>1, <2>a, HeaderSeen
  <2>2. t.header_str \o data = data /\ StartOf(Len(t.header_str)) = 0
    BY <1>1, Concats DEF Fresh, StartOf
  <2>3. BlankLine(t, data) = 1
    BY <2>1, <2>2 DEF BlankLine
  <2>4. s = ProcessHeader(t, data)
    BY <1>1 DEF ProcessData, Fresh
  <2>5. s = IF q.fate = "ok" /\ Len(data) > 5 THEN PassOn(q, more) ELSE q
    <3>a. PICK pos : pos = 1
      OBVIOUS
    <3>1. /\ BlankLine(t, data) # NotFound /\ data = t.header_str \o data
          /\ pos = BlankLine(t, data) /\ pos + 4 = 5
      BY <2>2, <2>3, <3>a DEF NotFound
    <3>2. q = [SelectProcessor(ParseHeader(t, data[1])) EXCEPT !.header_str = SubSeq(data, 1, pos + 4)]
      BY <2>1, <2>a, <3>1
    <3>3. ProcessHeader(t, data)
            = IF q.fate = "ok" /\ Len(data) > pos + 4 THEN PassOn(q, Drop(data, pos + 4)) ELSE q
      BY <3>1, <3>2, HeaderFound
    <3> QED
      BY <2>4, <2>a, <3>1, <3>3
  <2>6. /\ sel.fate = "ok" /\ sel.status_code = h.status /\ Understands(sel, h.chunked)
        /\ Collecting(sel.data, r, more \o w) /\ sel.data.type # "null"
    BY <1>0, <1>a, <2>1, <2>a, HeaderSelects
  <2>7. Sane(sel)
    <3>1. ParseHeader(t, data[1]) \in ResponseProcessor /\ ParseHeader(t, data[1]).data = t.data
          /\ ParseHeader(t, data[1]).fate = "ok"
      <4>0. 1 \in 1 .. Len(data)
        <5>1. Len(data) \in Nat
          BY Concats
        <5> QED
          BY <5>1, <2>1
      <4>1. data[1] \in Symbol
        BY <4>0, ElementOfSeq DEF Bytes
      <4> QED
        BY <4>1, <1>0, ParsedHeader
    <3>2. t.data.type = "chunked" => t.data \in ChunkedProcessor
      BY DEF Sane
    <3> QED
      BY <2>1, <2>a, <3>1, <3>2, SelectedProcessor
  <2>8. Len(data) \in Nat /\ hs \in Bytes /\ more \in Bytes /\ LinesWhole(more)
    <3>1. Len(data) \in Nat /\ 5 \in Nat
      BY Concats
    <3>2. 5 <= Len(data)
      BY <2>1, <3>1
    <3>3. hs \in Bytes
      BY <2>a, <3>2, TakeFacts DEF Bytes
    <3> QED
      BY <2>a, <3>1, <3>2, <3>3, LinesStayWhole
  <2>9. /\ Sane(q) /\ q.fate = "ok" /\ q.status_code = h.status /\ q.headers = sel.headers
        /\ q.data = sel.data
    BY <2>6, <2>7, <2>8, <2>a DEF Sane, ResponseProcessor, Bytes
  <2>10. CASE Len(data) > 5
    <3>1. s = PassOn(q, more)
      BY <2>5, <2>9, <2>10
    <3>2. /\ s.data = Process(q.data, more) /\ s.fate = s.data.fate
          /\ s.status_code = q.status_code /\ s.headers = q.headers
      BY <2>6, <2>8, <2>9, <3>1, SanePassOn
    <3>3. (s.data.fate = "throw" /\ ~Overruns(s.data)) \/ Collecting(s.data, r, w)
      BY <2>6, <2>8, <2>9, <3>2, Collects
    <3> QED
      BY <1>a, <2>6, <2>9, <3>2, <3>3 DEF Reads, Understands
  <2>11. CASE ~(Len(data) > 5)
    <3>1. s = q
      BY <2>5, <2>11
    <3>2. more = <<>>
      <4>a. PICK n : n = Len(data)
        OBVIOUS
      <4>1. 5 \in Nat /\ n = 5 /\ ~(5 > n)
        BY <2>1, <2>8, <2>11, <4>a
      <4>2. Len(more) = 0
        <5>0. data \in Seq(Symbol)
          BY DEF Bytes
        <5>1. Len(Drop(data, 5)) = IF 5 > Len(data) THEN 0 ELSE Len(data) - 5
          BY <4>1, <5>0, DropFacts
        <5>2. Len(more) = IF 5 > n THEN 0 ELSE n - 5
          BY <2>a, <4>a, <5>1
        <5> QED
          BY <4>1, <5>2
      <4> QED
        BY <2>8, <4>2, EmptySeq DEF Bytes
    <3>3. more \o w = w
      BY <3>2, Concats
    <3> QED
      BY <1>a, <2>6, <2>9, <3>1, <3>3 DEF Reads, Understands
  <2> QED
    BY <2>10, <2>11
<1>2. CASE t.status_code = h.status /\ Collecting(t.data, r, data \o w)
  <2>1. s = PassOn(t, data) /\ t.data.type # "null"
    BY <1>0, <1>2 DEF ProcessData, Sane
  <2>2. /\ s.data = Process(t.data, data) /\ s.fate = s.data.fate
        /\ s.status_code = t.status_code /\ s.headers = t.headers
    BY <2>1, SanePassOn
  <2>3. (s.data.fate = "throw" /\ ~Overruns(s.data)) \/ Collecting(s.data, r, w)
    BY <1>2, <2>2, Collects
  <2> QED
    BY <1>2, <1>a, <2>2, <2>3 DEF Reads, Understands
<1> QED
  BY <1>1, <1>2, <1>a DEF Reads

\* A response is complete exactly when all of it has been read.
LEMMA CompleteIsRead ==
  ASSUME NEW r \in Response, NEW t, NEW left \in Bytes, Reads(t, r, left)
  PROVE  /\ Complete(t) <=> left = <<>>
         /\ Complete(t) => t.status_code = Headers[r.head].status /\ t.data.payload = Payload(r)
<1>a. PICK h, P, d : h = Headers[r.head] /\ P = Payload(r) /\ d = t.data
  OBVIOUS
<1>0. h \in Header /\ h.status # NoStatus /\ P \in Bytes
  BY <1>a, EncodeShape DEF Header, NoStatus
<1>1. CASE Fresh(t) /\ left = Encode(r)
  <2>1. ~Complete(t)
    BY <1>1 DEF Fresh, Complete
  <2>2. HeadSymbols(r) \in Bytes /\ Body(r) \in Bytes /\ left = HeadSymbols(r) \o Body(r)
    BY <1>1, EncodeShape
  <2>3. left # <<>>
    <3>1. HeadSymbols(r) # <<>>
      BY DEF HeadSymbols
    <3> QED
      BY <2>2, <3>1, NotEmptyConcat
  <2> QED
    BY <2>1, <2>3
<1>2. CASE t.status_code = h.status /\ Collecting(d, r, left)
  <2>1. Complete(t) <=> IsComplete(d)
    BY <1>0, <1>2, <1>a DEF Complete
  <2>2. (IsComplete(d) <=> left = <<>>) /\ (IsComplete(d) => d.payload = P)
    <3>1. CASE h.chunked
      <4>1. Parsed(d, left, P)
        BY <1>2, <1>a, <3>1 DEF Collecting
      <4>2. d.type = "chunked"
        BY <4>1 DEF Parsed, ChunkedProcessor
      <4>3. (d.complete <=> left = <<>>) /\ (d.complete => d.payload = P)
        BY <4>1, CompleteIsAll
      <4> QED
        BY <4>2, <4>3 DEF IsComplete
    <3>2. CASE ~h.chunked
      <4>a. PICK p : p = d.payload
        OBVIOUS
      <4>1. d.type = "length" /\ d.payload_size = Len(P) /\ p \o left = P /\ p \in Bytes
        BY <1>2, <1>a, <3>2, <4>a DEF Collecting, PayloadProcessor, Bytes
      <4>2. Len(P) = Len(p) + Len(left) /\ Len(p) \in Nat /\ Len(left) \in Nat
        BY <4>1, Concats
      <4>3. IsComplete(d) <=> Len(left) = 0
        BY <4>1, <4>2, <4>a DEF IsComplete
      <4>4. Len(left) = 0 <=> left = <<>>
        BY EmptySeq DEF Bytes
      <4>5. left = <<>> => p = P
        BY <4>1, Concats
      <4> QED
        BY <4>3, <4>4, <4>5, <4>a
    <3> QED
      BY <3>1, <3>2
  <2> QED
    BY <1>2, <1>a, <2>1, <2>2
<1> QED
  BY <1>1, <1>2, <1>a DEF Reads


\* What has been read of a response fits its buffer.
LEMMA ReadFits ==
  ASSUME NEW r \in Response, NEW t, NEW left \in Bytes, Reads(t, r, left)
  PROVE  ~Overruns(t.data)
<1>a. PICK P, d : P = Payload(r) /\ d = t.data
  OBVIOUS
<1>1. CASE Fresh(t)
  BY <1>1, NewPayloadProcessors DEF Fresh, Overruns
<1>2. CASE Collecting(d, r, left) /\ Headers[r.head].chunked
  BY <1>2, <1>a DEF Collecting, Parsed, ChunkedProcessor, Overruns
<1>3. CASE Collecting(d, r, left) /\ ~Headers[r.head].chunked
  <2>a. PICK p : p = d.payload
    OBVIOUS
  <2>1. d.payload_size = Len(P) /\ p \o left = P /\ p \in Bytes
    BY <1>3, <1>a, <2>a DEF Collecting, PayloadProcessor, Bytes
  <2>2. Len(P) = Len(p) + Len(left) /\ Len(p) \in Nat /\ Len(left) \in Nat
    BY <2>1, Concats
  <2>3. ~(Len(p) > d.payload_size)
    BY <2>1, <2>2
  <2> QED
    BY <1>a, <2>3, <2>a DEF Overruns
<1> QED
  BY <1>1, <1>2, <1>3, <1>a DEF Reads

-----------------------------------------------------------------------------
(* Exchanges.                                                              *)

Responses == convs[current].responses

InChunks == Headers[Responses[1].head].chunked

\* The action carried out last: asked for a response, or received one.
Asked    == Position > 0 /\ Asks(Script[Position])
Listened == Position > 0 /\ Script[Position].type = "RECV"

NoRequest(bytes) == \A i \in 1 .. Len(bytes) : bytes[i] # EndOfRequest

Idle == NoRequest(inbox) /\ wire = <<>> /\ Len(answers) = requests

\* A request has been sent, and is not answered.
Waiting ==
  /\ Fresh(test) /\ wire = <<>> /\ Responses # <<>> /\ requests = Len(answers) + 1
  /\ \A i \in 1 .. Len(inbox) - 1 : inbox[i] # EndOfRequest

\* The request is answered; wire is what has not been read of the answer.
Reading ==
  /\ NoRequest(inbox) /\ Responses # <<>> /\ answers # <<>> /\ Len(answers) = requests
  /\ Headers[Last(answers).head].chunked = InChunks
  /\ Reads(test, Last(answers), wire)

Exchanging ==
  /\ Responses # <<>> => Understands(test, InChunks)
  /\ pc = "recv" \/ Asked => Waiting \/ Reading
  /\ pc = "next" /\ ~Asked => Idle
  /\ pc = "next" /\ Listened => Reading

ExchangeInv ==
  /\ requests \in Nat
  /\ pc \in Running => answers \in Seq(Answers) /\ Exchanging

\* The place in the script, and what may be there.
LEMMA TurnFacts ==
  ASSUME OneAtATime, SocketInv, pc \in Running, queue # <<>>
  PROVE  /\ Action.type = "SEND" =>
              /\ Action.data \in Bytes /\ Action.data # <<>>
              /\ \A j \in 1 .. Len(Action.data) - 1 : Action.data[j] # EndOfRequest
         /\ Action.type = "RECV" => Asked \/ Listened
         /\ Asked => Action.type = "RECV"
         /\ Asks(Action) => Responses # <<>>
<1>1. convs \in Captures /\ current \in DOMAIN convs
  BY DEF SocketInv
<1>2. TakesTurns(convs[current])
  BY <1>1 DEF OneAtATime
<1>3. Script \in Seq([type : {"CONNECT", "SEND", "RECV", "CLOSE"}, data : Seq(Symbol)])
  BY <1>1, ScriptType DEF Script
<1>a. PICK i : i = Position + 1
  OBVIOUS
<1>4. i \in DOMAIN Script /\ i \in 1 .. Len(Script) /\ Script[i] = Action /\ Position \in Nat /\ i - 1 = Position
  <2>1. Len(queue) \in Nat /\ Len(queue) # 0 /\ Len(Script) \in Nat
    BY <1>3 DEF SocketInv
  <2>2. /\ Len(queue) <= Len(Script)
        /\ \A k \in 1 .. Len(queue) : queue[k] = Script[Position + k]
    BY DEF SocketInv, AtPosition
  <2>3. Position \in Nat /\ i \in 1 .. Len(Script) /\ i - 1 = Position
    BY <2>1, <2>2, <1>a DEF Position
  <2>4. queue[1] = Script[Position + 1]
    BY <2>1, <2>2
  <2> QED
    BY <1>3, <1>a, <2>3, <2>4 DEF Action
<1>5. /\ Script[i].type = "SEND" =>
           \A j \in 1 .. Len(Script[i].data) - 1 : Script[i].data[j] # EndOfRequest
      /\ Script[i].type = "RECV" =>
           i > 1 /\ (Script[i - 1].type = "RECV" \/ Asks(Script[i - 1]))
      /\ i > 1 /\ Asks(Script[i - 1]) => Script[i].type = "RECV"
      /\ Asks(Script[i]) => Responses # <<>>
  BY <1>2, <1>4 DEF TakesTurns, Script, Responses
<1>6. Action.type = "SEND" => Action.data # <<>>
  BY <1>1, <1>4, CapturesAssumption DEF Script
<1>7. i > 1 <=> Position > 0
  BY <1>4
<1> QED
  BY <1>4, <1>5, <1>6, <1>7, ActionData DEF Asked, Listened

LEMMA AfterPop ==
  ASSUME SocketInv, pc \in Running, queue # <<>>, ActionPop, UNCHANGED <<convs, current>>
  PROVE  /\ Asked' <=> Asks(Action)
         /\ Listened' <=> Action.type = "RECV"
         /\ Responses' = Responses /\ InChunks' = InChunks
<1>1. Position \in Nat /\ Position' = Position + 1 /\ Script' = Script /\ Script[Position + 1] = Action
  BY PopMovesOn
<1>2. Position' > 0 /\ Script'[Position'] = Action
  BY <1>1
<1> QED
  BY <1>2 DEF Asked, Listened, Responses, InChunks, Asks

LEMMA SamePlace ==
  ASSUME UNCHANGED <<convs, current, queue>>
  PROVE  /\ Asked' <=> Asked
         /\ Listened' <=> Listened
         /\ Responses' = Responses /\ InChunks' = InChunks
BY DEF Asked, Listened, Responses, InChunks, Asks, Position, Script

LEMMA ExchangeSteady ==
  ASSUME ExchangeInv, UNCHANGED <<convs, current, queue, test, inbox, wire, requests, answers>>,
         pc' = pc \/ pc' \notin Running
  PROVE  ExchangeInv'
BY SamePlace
DEF ExchangeInv, Exchanging, Idle, Waiting, Reading, NoRequest

LEMMA ExchangeNextConversation ==
  ASSUME ExchangeInv, NextConversation
  PROVE  ExchangeInv'
<1>1. CASE current < Len(convs)
  <2>a. PICK e : e = <<>>
    OBVIOUS
  <2>1. /\ pc' = "next" /\ requests' = 0 /\ answers' = e /\ wire' = e /\ inbox' = e
        /\ test' = NewProcessor /\ Script' = queue'
    BY <1>1, <2>a DEF NextConversation, NewClient, QuietNetwork, Script
  <2>2. Position' = Len(queue') - Len(queue')
    BY <2>1 DEF Position
  <2>3. ~Asked' /\ ~Listened'
    <3>1. ~(Position' > 0)
      <4>a. PICK n : n = Len(queue')
        OBVIOUS
      <4> QED
        BY <2>2, <4>a
    <3> QED
      BY <3>1 DEF Asked, Listened
  <2>4. Len(e) = 0 /\ e \in Seq(Answers)
    BY <2>a
  <2>5. Idle'
    BY <2>1, <2>4, <2>a DEF Idle, NoRequest
  <2>6. Understands(test', InChunks')
    BY <2>1 DEF Understands, NewProcessor, NoHeaders
  <2> QED
    BY <2>1, <2>3, <2>4, <2>5, <2>6 DEF ExchangeInv, Exchanging, Understands
<1>2. CASE ~(current < Len(convs))
  BY <1>2 DEF NextConversation, ExchangeInv, Running
<1> QED
  BY <1>1, <1>2

LEMMA ExchangeConnection ==
  ASSUME OneAtATime, SocketInv, ExchangeInv, Connect \/ Close
  PROVE  ExchangeInv'
<1>1. /\ pc = "next" /\ pc' = "next" /\ queue # <<>> /\ Action.type \in {"CONNECT", "CLOSE"}
      /\ ActionPop /\ UNCHANGED <<convs, current, test, requests, answers>>
      /\ inbox' = <<>> /\ wire' = <<>>
  BY DEF Connect, Close, AtAction, Action, QuietNetwork, history
<1>2. pc \in Running
  BY <1>1 DEF Running
<1>3. ~Asked /\ ~Asks(Action)
  <2>1. Asked => Action.type = "RECV"
    BY <1>1, <1>2, TurnFacts
  <2> QED
    BY <1>1, <2>1 DEF Asks
<1>4. Idle /\ requests \in Nat /\ answers \in Seq(Answers) /\ (Responses # <<>> => Understands(test, InChunks))
  BY <1>1, <1>2, <1>3 DEF ExchangeInv, Exchanging
<1>5. ~Asked' /\ ~Listened' /\ Responses' = Responses /\ InChunks' = InChunks
  BY <1>1, <1>2, <1>3, AfterPop
<1>6. Idle'
  <2>a. PICK e : e = <<>>
    OBVIOUS
  <2>1. Len(e) = 0 /\ inbox' = e
    BY <1>1, <2>a
  <2>2. NoRequest(inbox')
    BY <2>1 DEF NoRequest
  <2> QED
    BY <1>1, <1>4, <2>2 DEF Idle
<1> QED
  BY <1>1, <1>4, <1>5, <1>6 DEF ExchangeInv, Exchanging, Understands


\* The requests that a sequence of bytes ends: none, or the one at its end.
LEMMA RequestsIn ==
  ASSUME NEW b \in Bytes, \A j \in 1 .. Len(b) - 1 : b[j] # EndOfRequest
  PROVE  /\ b # <<>> /\ b[Len(b)] = EndOfRequest => CountRequests(b) = 1
         /\ b = <<>> \/ b[Len(b)] # EndOfRequest => NoRequest(b) /\ CountRequests(b) = 0
<1>a. PICK n, T : n = Len(b) /\ T = {i \in DOMAIN b : b[i] = EndOfRequest}
  OBVIOUS
<1>1. n \in Nat /\ DOMAIN b = 1 .. n /\ CountRequests(b) = Cardinality(T)
  BY <1>a DEF Bytes, CountRequests
<1>2. ASSUME b # <<>>, b[n] = EndOfRequest
      PROVE  CountRequests(b) = 1
  <2>1. n \in 1 .. n
    BY <1>1, <1>2, <1>a, EmptySeq DEF Bytes
  <2>2. \A i \in T : i = n
    <3>1. ASSUME NEW i \in 1 .. n, i # n
          PROVE  b[i] # EndOfRequest
      <4>1. i \in 1 .. n - 1
        BY <1>1, <3>1
      <4> QED
        BY <4>1, <1>a
    <3> QED
      BY <3>1, <1>1, <1>a
  <2>3. T = {n}
    BY <1>2, <2>1, <2>2, <1>1, <1>a
  <2> QED
    BY <1>1, <2>3, FS_Singleton
<1>3. ASSUME b = <<>> \/ b[n] # EndOfRequest
      PROVE  NoRequest(b) /\ CountRequests(b) = 0
  <2>1. ASSUME NEW i \in 1 .. n
        PROVE  b[i] # EndOfRequest
    <3>1. CASE i = n
      <4>1. n # 0
        BY <1>1, <3>1
      <4>2. b # <<>>
        BY <4>1, <1>a, EmptySeq DEF Bytes
      <4> QED
        BY <1>3, <3>1, <4>2
    <3>2. CASE i # n
      <4>1. i \in 1 .. n - 1
        BY <1>1, <3>2
      <4> QED
        BY <4>1, <1>a
    <3> QED
      BY <3>1, <3>2
  <2>2. T = {}
    BY <2>1, <1>1, <1>a
  <2> QED
    BY <1>1, <2>1, <2>2, <1>a, FS_EmptySet DEF NoRequest
<1> QED
  BY <1>2, <1>3, <1>a

\* The bytes of a SEND that one write() takes.
OnlyLast(bytes) == \A j \in 1 .. Len(bytes) - 1 : bytes[j] # EndOfRequest

IsPart(data, m, n, part) ==
  /\ part \in Bytes /\ part # <<>> /\ Len(part) = n
  /\ \A j \in 1 .. n - 1 : part[j] # EndOfRequest
  /\ part[n] = data[m + n]

LEMMA PartFacts ==
  \A data \in Bytes : \A m, n \in Nat : \A part :
    /\ n # 0 /\ m + n <= Len(data) /\ OnlyLast(data)
    /\ part = SubSeq(data, m + 1, m + n)
    => IsPart(data, m, n, part)
<1> SUFFICES ASSUME NEW data \in Bytes, NEW m \in Nat, NEW n \in Nat, NEW part,
                    n # 0, m + n <= Len(data), OnlyLast(data),
                    part = SubSeq(data, m + 1, m + n)
             PROVE  IsPart(data, m, n, part)
  OBVIOUS
<1>a. PICK l : l = Len(data)
  OBVIOUS
<1>0. l \in Nat /\ m + n <= l
  BY <1>a, Concats
<1>1. \A i \in m + 1 .. m + n : data[i] \in Symbol
  <2>1. \A i \in m + 1 .. m + n : i \in 1 .. l
    BY <1>0
  <2> QED
    BY <1>a, <2>1, ElementOfSeq DEF Bytes
<1>2. /\ part \in Seq(Symbol) /\ Len(part) = m + n - (m + 1) + 1
      /\ \A i \in 1 .. m + n - (m + 1) + 1 : part[i] = data[m + 1 + i - 1]
  <2>1. m + 1 <= m + n + 1
    BY <1>0
  <2> QED
    BY <1>1, <2>1, SubSeqProperties DEF Bytes
<1>3. Len(part) = n /\ \A i \in 1 .. n : part[i] = data[m + i]
  BY <1>2
<1>4. ASSUME NEW j \in 1 .. n - 1
      PROVE  part[j] # EndOfRequest
  <2>1. m + j \in 1 .. l - 1 /\ j \in 1 .. n
    BY <1>0
  <2> QED
    BY <1>3, <2>1, <1>a DEF OnlyLast
<1>5. part # <<>>
  <2>1. Len(part) # 0
    BY <1>3
  <2> QED
    BY <1>2, <2>1, EmptySeq
<1>6. part[n] = data[m + n]
  <2>1. n \in 1 .. n
    BY <1>0
  <2> QED
    BY <1>3, <2>1
<1> QED
  BY <1>2, <1>3, <1>4, <1>5, <1>6 DEF Bytes, IsPart

\* What the server is sent, when it had no request.
LEMMA SentBytes ==
  ASSUME NEW b \in Bytes, NoRequest(b), NEW part \in Bytes,
         \A j \in 1 .. Len(part) - 1 : part[j] # EndOfRequest,
         NEW c, c = b \/ c = b \o part
  PROVE  /\ \A i \in 1 .. Len(c) - 1 : c[i] # EndOfRequest
         /\ NoRequest(part) => NoRequest(c)
<1>1. CASE c = b
  <2>1. Len(b) \in Nat
    BY Concats
  <2>2. \A i \in 1 .. Len(b) - 1 : i \in 1 .. Len(b)
    BY <2>1
  <2> QED
    BY <1>1, <2>2 DEF NoRequest
<1>2. CASE c = b \o part
  <2>a. PICK n, m : n = Len(b) /\ m = Len(part)
    OBVIOUS
  <2>1. n \in Nat /\ m \in Nat
    BY <2>a, Concats
  <2>2. /\ Len(c) = n + m
        /\ \A i \in 1 .. n + m : c[i] = IF i <= n THEN b[i] ELSE part[i - n]
    <3>1. IsConcat(Symbol, b, part, c)
      BY <1>2, IsConcatFacts DEF Bytes
    <3> QED
      BY <2>a, <3>1 DEF IsConcat
  <2>3. ASSUME NEW i \in 1 .. n + m, i # n + m \/ NoRequest(part)
        PROVE  c[i] # EndOfRequest
    <3>1. CASE i <= n
      <4>1. i \in 1 .. n
        BY <2>1, <3>1
      <4> QED
        BY <2>2, <2>a, <3>1, <4>1 DEF NoRequest
    <3>2. CASE ~(i <= n)
      <4>1. i - n \in 1 .. m /\ (i # n + m => i - n \in 1 .. m - 1)
        BY <2>1, <3>2
      <4> QED
        BY <2>2, <2>3, <2>a, <3>2, <4>1 DEF NoRequest
    <3> QED
      BY <3>1, <3>2
  <2>4. \A i \in 1 .. Len(c) - 1 : i \in 1 .. n + m /\ i # n + m
    BY <2>1, <2>2
  <2> QED
    BY <2>2, <2>3, <2>4 DEF NoRequest
<1> QED
  BY <1>1, <1>2


\* What write() leaves behind.  Only the last byte of a SEND may end a request.
LEMMA WriteFacts ==
  ASSUME OneAtATime, TypeInv, requests \in Nat, NEW n \in 1 .. MaxWrite, Write(n)
  PROVE  /\ pc = "next" /\ pc' = "next" /\ queue # <<>> /\ Action.type = "SEND"
         /\ UNCHANGED <<convs, current, wire, answers, verdicts>>
         /\ ~Asked /\ (Asks(Action) => Responses # <<>>)
         /\ NoRequest(inbox) => OnlyLast(inbox')
         /\ \/ /\ UNCHANGED <<queue, expected, test, requests>>
               /\ NoRequest(inbox) => NoRequest(inbox')
            \/ /\ ActionPop /\ expected' = Reset(expected) /\ test' = Reset(test)
               /\ IF Asks(Action) THEN requests' = requests + 1
                                  ELSE /\ requests' = requests
                                       /\ NoRequest(inbox) => NoRequest(inbox')
<1>a. PICK data, part : data = Action.data /\ part = SubSeq(data, nwrite + 1, nwrite + n)
  OBVIOUS
<1>1. /\ pc = "next" /\ pc' = "next" /\ queue # <<>> /\ Action.type = "SEND"
      /\ nwrite + n <= Len(data) /\ UNCHANGED <<convs, current, wire, answers, verdicts>>
      /\ inbox' = inbox \/ inbox' = inbox \o part
      /\ requests' = requests + CountRequests(part)
      /\ MaxWrite = Len(data) - nwrite
      /\ \/ /\ nwrite + n = Len(data) /\ ActionPop
            /\ expected' = Reset(expected) /\ test' = Reset(test)
         \/ /\ nwrite + n # Len(data) /\ UNCHANGED <<queue, expected, test>>
  BY <1>a DEF Write, AtAction, Action, MaxWrite
<1>2. pc \in Running /\ SocketInv
  BY <1>1 DEF Running, TypeInv
<1>3. /\ data \in Bytes /\ data # <<>> /\ Len(data) \in Nat
      /\ \A j \in 1 .. Len(data) - 1 : data[j] # EndOfRequest
      /\ ~Asked
      /\ Asks(Action) => Responses # <<>>
  BY <1>1, <1>2, <1>a, TurnFacts, Concats
<1>5. nwrite \in Nat /\ n \in Nat \ {0} /\ inbox \in Bytes
  <2>1. nwrite \in Nat /\ inbox \in Bytes
    BY DEF TypeInv, WriteTypes, NetworkTypes
  <2> QED
    BY <1>1, <1>3, <2>1
<1>6. /\ part \in Bytes /\ part # <<>> /\ Len(part) = n
      /\ \A j \in 1 .. n - 1 : part[j] # EndOfRequest
      /\ part[n] = data[nwrite + n]
  <2>a. PICK m : m = nwrite
    OBVIOUS
  <2>1. /\ data \in Bytes /\ m \in Nat /\ n \in Nat /\ n # 0 /\ m + n <= Len(data)
        /\ OnlyLast(data)
        /\ part = SubSeq(data, m + 1, m + n)
    BY <1>1, <1>3, <1>5, <1>a, <2>a DEF OnlyLast
  <2>2. IsPart(data, m, n, part)
    BY <2>1, PartFacts, Zenon
  <2> QED
    BY <2>2, <2>a DEF IsPart
<1>7. /\ part[n] = EndOfRequest => CountRequests(part) = 1
      /\ part[n] # EndOfRequest => NoRequest(part) /\ CountRequests(part) = 0
  BY <1>6, RequestsIn
<1>8. ASSUME NoRequest(inbox)
      PROVE  OnlyLast(inbox') /\ (NoRequest(part) => NoRequest(inbox'))
  BY <1>1, <1>5, <1>6, <1>8, SentBytes DEF OnlyLast
<1>9. ASSUME part[n] # EndOfRequest
      PROVE  requests' = requests /\ (NoRequest(inbox) => NoRequest(inbox'))
  BY <1>1, <1>7, <1>8, <1>9
<1>10. CASE nwrite + n # Len(data) /\ UNCHANGED <<queue, expected, test>>
  <2>1. part[n] # EndOfRequest
    <3>1. nwrite + n \in 1 .. Len(data) - 1
      BY <1>1, <1>3, <1>5, <1>10
    <3> QED
      BY <1>3, <1>6, <3>1
  <2> QED
    BY <1>1, <1>3, <1>8, <1>9, <1>10, <2>1
<1>11. CASE /\ nwrite + n = Len(data) /\ ActionPop
            /\ expected' = Reset(expected) /\ test' = Reset(test)
  <2>1. Asks(Action) <=> part[n] = EndOfRequest
    <3>1. Last(data) = data[Len(data)]
      BY DEF Last
    <3> QED
      BY <1>1, <1>6, <1>11, <1>a, <3>1 DEF Asks
  <2>2. CASE Asks(Action)
    BY <1>1, <1>3, <1>7, <1>8, <1>11, <2>1, <2>2
  <2>3. CASE ~Asks(Action)
    BY <1>1, <1>3, <1>8, <1>9, <1>11, <2>1, <2>3
  <2> QED
    BY <2>2, <2>3
<1> QED
  BY <1>1, <1>10, <1>11

LEMMA ResetIsFresh ==
  ASSUME NEW t, Sane(t)
  PROVE  Fresh(Reset(t)) /\ Reset(t).headers = t.headers
BY DEF Sane, ResponseProcessor, Reset, Fresh

LEMMA ExchangeWrite ==
  ASSUME OneAtATime, TypeInv, ExchangeInv, NEW n \in 1 .. MaxWrite, Write(n)
  PROVE  ExchangeInv'
<1>1. /\ pc = "next" /\ pc' = "next" /\ queue # <<>> /\ Action.type = "SEND"
      /\ UNCHANGED <<convs, current, wire, answers>>
      /\ ~Asked /\ (Asks(Action) => Responses # <<>>)
      /\ NoRequest(inbox) => OnlyLast(inbox')
      /\ \/ /\ UNCHANGED <<queue, test, requests>>
            /\ NoRequest(inbox) => NoRequest(inbox')
         \/ /\ ActionPop /\ test' = Reset(test)
            /\ IF Asks(Action) THEN requests' = requests + 1
                               ELSE /\ requests' = requests
                                    /\ NoRequest(inbox) => NoRequest(inbox')
  BY WriteFacts DEF ExchangeInv
<1>2. pc \in Running /\ SocketInv
  BY <1>1 DEF Running, TypeInv
<1>3. /\ Idle /\ requests \in Nat /\ answers \in Seq(Answers)
      /\ (Responses # <<>> => Understands(test, InChunks))
      /\ Listened => Reading
  BY <1>1, <1>2 DEF ExchangeInv, Exchanging
<1>4. CASE UNCHANGED <<queue, test, requests>> /\ NoRequest(inbox')
  <2>1. ~Asked' /\ (Listened' <=> Listened) /\ Responses' = Responses /\ InChunks' = InChunks
    BY <1>1, <1>4, SamePlace
  <2>2. Idle' /\ (Listened => Reading')
    BY <1>1, <1>3, <1>4, <2>1 DEF Reading, Idle
  <2> QED
    BY <1>1, <1>3, <1>4, <2>1, <2>2 DEF ExchangeInv, Exchanging, Understands
<1>5. CASE ActionPop /\ test' = Reset(test)
  <2>1. /\ Asked' <=> Asks(Action)
        /\ ~Listened' /\ Responses' = Responses /\ InChunks' = InChunks
    BY <1>1, <1>2, <1>5, AfterPop
  <2>2. Fresh(test') /\ (Responses # <<>> => Understands(test', InChunks))
    <3>1. Sane(test)
      BY DEF TypeInv, ProcessorTypes
    <3> QED
      BY <1>3, <1>5, <3>1, ResetIsFresh DEF Understands
  <2>3. CASE Asks(Action)
    <3>1. requests' = requests + 1 /\ requests = Len(answers) /\ OnlyLast(inbox')
      BY <1>1, <1>3, <1>5, <2>3 DEF Idle, ActionPop
    <3>2. Waiting'
      BY <1>1, <1>3, <2>1, <2>2, <2>3, <3>1 DEF Waiting, Idle, OnlyLast
    <3> QED
      BY <1>1, <1>3, <2>1, <2>2, <2>3, <3>1, <3>2 DEF ExchangeInv, Exchanging, Understands
  <2>4. CASE ~Asks(Action)
    <3>1. Idle' /\ requests' = requests
      BY <1>1, <1>3, <2>4 DEF Idle
    <3> QED
      BY <1>1, <1>3, <2>1, <2>2, <2>4, <3>1 DEF ExchangeInv, Exchanging, Understands
  <2> QED
    BY <2>3, <2>4
<1> QED
  BY <1>1, <1>3, <1>4, <1>5 DEF Idle

LEMMA ExchangeExpect ==
  ASSUME OneAtATime, TypeInv, ExchangeInv, Expect
  PROVE  ExchangeInv'
<1>1. /\ pc = "next" /\ queue # <<>> /\ Action.type = "RECV" /\ pc' \in Fates(expected')
      /\ UNCHANGED <<convs, current, queue, test, inbox, wire, requests, answers>>
  BY DEF Expect, AtAction, Action, network, history
<1>2. pc \in Running /\ SocketInv
  BY <1>1 DEF Running, TypeInv
<1>3. Asked \/ Listened
  BY <1>1, <1>2, TurnFacts
<1>4. /\ Waiting \/ Reading
      /\ requests \in Nat /\ answers \in Seq(Answers)
      /\ (Responses # <<>> => Understands(test, InChunks))
  BY <1>1, <1>2, <1>3 DEF ExchangeInv, Exchanging
<1>5. Responses' = Responses /\ InChunks' = InChunks
  BY <1>1, SamePlace
<1>6. Waiting' \/ Reading'
  BY <1>1, <1>4, <1>5 DEF Waiting, Reading
<1>7. pc' \in Running => pc' = "recv"
  BY <1>1, FatesType DEF Running, Ended
<1> QED
  BY <1>1, <1>4, <1>5, <1>6, <1>7 DEF ExchangeInv, Exchanging, Understands

\* The last answer.
LEMMA LastAnswer ==
  ASSUME answers \in Seq(Answers), answers # <<>>
  PROVE  Last(answers) \in Answers /\ Last(answers) \in Response
<1>1. Len(answers) \in 1 .. Len(answers)
  BY EmptySeq
<1>2. answers[Len(answers)] \in Answers
  BY <1>1, ElementOfSeq
<1> QED
  BY <1>2, AnswersAssumption DEF Last

LEMMA ReadStep ==
  ASSUME OneAtATime, TypeInv, ExchangeInv, NEW n \in 1 .. BUFSIZ, Read(n),
         NEW r, r = Last(answers)
  PROVE  /\ pc = "recv" /\ pc' \in Fates(test') /\ Sane(test')
         /\ UNCHANGED <<convs, current, queue, inbox, requests, answers>>
         /\ requests \in Nat /\ answers \in Seq(Answers)
         /\ Reading /\ r \in Response /\ Headers[r.head].chunked = InChunks /\ wire' \in Bytes
         /\ \/ test'.fate = "throw" /\ ~Overruns(test'.data)
            \/ Reads(test', r, wire') /\ Understands(test', Headers[r.head].chunked)
<1>a. PICK data, rest : data = SubSeq(wire, 1, n) /\ rest = Drop(wire, n)
  OBVIOUS
<1>1. /\ pc = "recv" /\ n <= Len(wire) /\ CutAllowed(n) /\ wire' = rest
      /\ test' = ProcessData(test, data) /\ pc' \in Fates(test')
      /\ UNCHANGED <<convs, current, queue, inbox, requests, answers>>
  BY <1>a DEF Read, history
<1>2. pc \in Running
  BY <1>1 DEF Running
<1>3. wire \in Bytes /\ n \in Nat \ {0} /\ Len(wire) \in Nat /\ Sane(test) /\ test.fate = "ok"
  <2>1. wire \in Bytes /\ Sane(test) /\ test.fate = "ok"
    BY <1>2 DEF TypeInv, NetworkTypes, ProcessorTypes
  <2> QED
    BY <2>1, BufsizAssumption, Concats
<1>4. wire # <<>>
  <2>1. Len(wire) # 0
    BY <1>1, <1>3
  <2> QED
    BY <1>3, <2>1, EmptySeq DEF Bytes
<1>5. /\ Reading /\ requests \in Nat /\ answers \in Seq(Answers)
      /\ (Responses # <<>> => Understands(test, InChunks))
  BY <1>1, <1>2, <1>4 DEF ExchangeInv, Exchanging, Waiting
<1>6. r \in Response /\ Framed(r) /\ Reads(test, r, wire) /\ Headers[r.head].chunked = InChunks
      /\ Understands(test, Headers[r.head].chunked)
  BY <1>5, LastAnswer DEF Reading, OneAtATime
<1>7. data \in Bytes /\ data # <<>> /\ rest \in Bytes /\ data \o rest = wire /\ Len(data) = n
      /\ \A i \in 1 .. n : data[i] = wire[i]
  <2>1. /\ data \in Bytes /\ Len(data) = n /\ \A i \in 1 .. n : data[i] = wire[i]
    BY <1>1, <1>3, <1>a, TakeFacts DEF Bytes
  <2>2. rest \in Bytes
    BY <1>3, <1>a, DropFacts DEF Bytes
  <2>3. data \o rest = wire
    BY <1>1, <1>3, <1>a, TakeThenDrop DEF Bytes
  <2>4. data # <<>>
    <3>1. Len(data) # 0
      BY <1>3, <2>1
    <3> QED
      BY <2>1, <3>1, EmptySeq DEF Bytes
  <2> QED
    BY <2>1, <2>2, <2>3, <2>4
<1>8. LinesWhole(data)
  BY <1>1, <1>a DEF CutAllowed, OneAtATime
<1>9. \/ test'.fate = "throw" /\ ~Overruns(test'.data)
      \/ Reads(test', r, rest) /\ Understands(test', Headers[r.head].chunked)
  BY <1>1, <1>3, <1>6, <1>7, <1>8, ReadsOn
<1>10. Sane(test')
  BY <1>1, <1>3, <1>7, SaneData
<1> QED
  BY <1>1, <1>5, <1>6, <1>7, <1>9, <1>10

LEMMA ExchangeRead ==
  ASSUME OneAtATime, TypeInv, ExchangeInv, NEW n \in 1 .. BUFSIZ, Read(n)
  PROVE  ExchangeInv'
<1>a. PICK r : r = Last(answers)
  OBVIOUS
<1>1. /\ pc = "recv" /\ pc' \in Fates(test') /\ Sane(test')
      /\ UNCHANGED <<convs, current, queue, inbox, requests, answers>>
      /\ requests \in Nat /\ answers \in Seq(Answers)
      /\ Reading /\ Headers[r.head].chunked = InChunks
      /\ \/ test'.fate = "throw"
         \/ Reads(test', r, wire') /\ Understands(test', Headers[r.head].chunked)
  BY <1>a, ReadStep
<1>2. Responses' = Responses /\ InChunks' = InChunks /\ Last(answers)' = r
  BY <1>1, <1>a, SamePlace DEF Last
<1>3. ASSUME pc' \in Running
      PROVE  pc' = "recv" /\ Reading' /\ Understands(test', InChunks')
  <2>1. pc' = "recv" /\ test'.fate = "ok"
    BY <1>1, <1>3, FatesRunning
  <2>2. Reads(test', r, wire') /\ Understands(test', InChunks)
    BY <1>1, <2>1
  <2> QED
    BY <1>1, <1>2, <2>1, <2>2, <1>a DEF Reading
<1> QED
  BY <1>1, <1>3 DEF ExchangeInv, Exchanging


LEMMA ExchangeReceived ==
  ASSUME OneAtATime, TypeInv, ExchangeInv, Received
  PROVE  ExchangeInv'
<1>a. PICK r : r = Last(answers)
  OBVIOUS
<1>1. /\ pc = "recv" /\ Complete(test)
      /\ \/ pc' = "failed" /\ UNCHANGED queue
         \/ pc' = "next" /\ ActionPop
      /\ UNCHANGED <<convs, current, test, inbox, wire, requests, answers>>
  BY DEF Received, network
<1>2. pc \in Running /\ SocketInv /\ queue # <<>> /\ Action.type = "RECV" /\ wire \in Bytes
  BY <1>1 DEF Running, TypeInv, SocketInv, NetworkTypes
<1>3. /\ Reading /\ requests \in Nat /\ answers \in Seq(Answers)
      /\ (Responses # <<>> => Understands(test, InChunks))
  BY <1>1, <1>2 DEF ExchangeInv, Exchanging, Waiting, Fresh, Complete
<1>4. wire = <<>>
  <2>1. r \in Response /\ Reads(test, r, wire)
    BY <1>3, <1>a, LastAnswer DEF Reading
  <2> QED
    BY <1>1, <1>2, <2>1, CompleteIsRead
<1>5. CASE pc' = "failed" /\ UNCHANGED queue
  BY <1>1, <1>5 DEF ExchangeInv, Running
<1>6. CASE pc' = "next" /\ ActionPop
  <2>1. ~Asked' /\ Listened' /\ Responses' = Responses /\ InChunks' = InChunks
    BY <1>1, <1>2, <1>6, AfterPop DEF Asks
  <2>2. Reading'
    BY <1>1, <1>3, <2>1 DEF Reading
  <2>3. Idle'
    BY <1>1, <1>3, <1>4 DEF Reading, Idle
  <2> QED
    BY <1>1, <1>3, <1>6, <2>1, <2>2, <2>3 DEF ExchangeInv, Exchanging, Understands
<1> QED
  BY <1>1, <1>5, <1>6

LEMMA ExchangeAnswer ==
  ASSUME OneAtATime, TypeInv, ExchangeInv, Answering
  PROVE  ExchangeInv'
<1>1. PICK r \in Answers : Answer(r) /\ FramedAsCaptured(r)
  BY DEF Answering, OneAtATime
<1>2. /\ pc \in Running /\ \E i \in DOMAIN inbox : inbox[i] = EndOfRequest
      /\ inbox' = Drop(inbox, RequestEnd) /\ wire' = wire \o Encode(r)
      /\ answers' = Append(answers, r)
      /\ UNCHANGED <<convs, current, queue, pc, test, requests>>
  BY <1>1 DEF Answer, client
<1>3. inbox \in Bytes /\ DOMAIN inbox = 1 .. Len(inbox) /\ Len(inbox) \in Nat /\ wire \in Bytes
  BY Concats DEF TypeInv, NetworkTypes, Bytes
<1>4. ~NoRequest(inbox)
  BY <1>2, <1>3 DEF NoRequest
<1>5. requests \in Nat /\ answers \in Seq(Answers) /\ Exchanging
  BY <1>2 DEF ExchangeInv
<1>6. Waiting /\ (pc = "recv" \/ Asked)
  BY <1>2, <1>4, <1>5 DEF Exchanging, Idle, Reading, Running
<1>7. RequestEnd = Len(inbox)
  <2>1. RequestEnd \in 1 .. Len(inbox) /\ inbox[RequestEnd] = EndOfRequest
    BY <1>2, <1>3, RequestEndType
  <2>2. RequestEnd \notin 1 .. Len(inbox) - 1
    BY <1>6, <2>1 DEF Waiting
  <2>a. PICK i, l : i = RequestEnd /\ l = Len(inbox)
    OBVIOUS
  <2>3. l \in Nat /\ i \in 1 .. l /\ i \notin 1 .. l - 1
    BY <1>3, <2>1, <2>2, <2>a
  <2>4. i = l
    BY <2>3
  <2> QED
    BY <2>4, <2>a
<1>8. inbox' = <<>>
  <2>a. PICK n : n = Len(inbox)
    OBVIOUS
  <2>1. n \in Nat /\ ~(n > n) /\ n - n = 0
    BY <1>3, <2>a
  <2>2. Drop(inbox, n) \in Bytes /\ Len(Drop(inbox, n)) = 0
    BY <1>3, <2>1, <2>a, DropFacts DEF Bytes
  <2> QED
    BY <1>2, <1>7, <2>2, <2>a, EmptySeq DEF Bytes
<1>9. wire' = Encode(r)
  <2>1. r \in Response
    BY AnswersAssumption
  <2>2. Encode(r) \in Bytes
    BY <2>1, EncodeShape
  <2> QED
    BY <1>2, <1>6, <2>2, Concats DEF Waiting
<1>10. /\ answers' \in Seq(Answers) /\ answers' # <<>> /\ Last(answers') = r
       /\ Len(answers') = requests
  <2>1. answers' \in Seq(Answers) /\ Len(answers') = Len(answers) + 1
        /\ answers'[Len(answers) + 1] = r
    BY <1>2, <1>5, AppendProperties
  <2> QED
    BY <1>5, <1>6, <2>1, EmptySeq DEF Waiting, Last
<1>11. /\ Asked' <=> Asked
       /\ Responses' = Responses /\ InChunks' = InChunks
  BY <1>2, SamePlace
<1>12. Headers[r.head].chunked = InChunks
  <2>0. convs \in Captures /\ current \in DOMAIN convs /\ convs \in Seq(Conversation)
    BY <1>2, CapturesAssumption DEF TypeInv, SocketInv
  <2>1. convs[current] \in Conversation
    BY <2>0
  <2>2. Responses \in Seq(Response)
    BY <2>1 DEF Conversation, Responses
  <2>3. 1 \in DOMAIN Responses
    BY <1>6, <2>2, EmptySeq DEF Waiting
  <2> QED
    BY <1>1, <2>3 DEF FramedAsCaptured, InChunks, Responses
<1>13. Reading'
  <2>a. PICK e : e = <<>>
    OBVIOUS
  <2>1. Len(e) = 0 /\ inbox' = e
    BY <1>8, <2>a
  <2>2. NoRequest(inbox')
    BY <2>1 DEF NoRequest
  <2>3. Reads(test', r, wire')
    BY <1>2, <1>6, <1>9 DEF Waiting, Reads, Fresh
  <2>4. Responses' # <<>>
    BY <1>6, <1>11 DEF Waiting
  <2> QED
    BY <1>2, <1>10, <1>11, <1>12, <2>2, <2>3, <2>4 DEF Reading
<1> QED
  BY <1>2, <1>5, <1>6, <1>10, <1>11, <1>13 DEF ExchangeInv, Exchanging, Understands, Running

LEMMA ExchangeNext ==
  ASSUME OneAtATime, TypeInv, ExchangeInv, [Next]_vars
  PROVE  ExchangeInv'
<1>0. SocketInv
  BY DEF TypeInv
<1>1. CASE EndOfStream \/ IoFails \/ HangUp \/ UNCHANGED vars
  BY <1>1, ExchangeSteady
  DEF EndOfStream, IoFails, HangUp, Running, client, network, history, vars
<1>2. CASE ConnectFails
  BY <1>2 DEF ConnectFails, ExchangeInv, Running, history
<1> QED
  BY <1>0, <1>1, <1>2, ExchangeNextConversation, ExchangeConnection, ExchangeWrite, ExchangeExpect,
     ExchangeRead, ExchangeReceived, ExchangeAnswer
  DEF Next, ClientStep, ClientFails

LEMMA ExchangeInit == Init => ExchangeInv
<1> SUFFICES ASSUME Init
             PROVE  ExchangeInv
  OBVIOUS
<1>0. requests \in Nat
  BY DEF Init
<1> SUFFICES ASSUME pc \in Running
             PROVE  ExchangeInv
  BY <1>0 DEF ExchangeInv
<1>a. PICK e : e = <<>>
  OBVIOUS
<1>1. /\ queue = Script /\ requests = 0 /\ answers = e /\ wire = e /\ inbox = e
      /\ test = NewProcessor /\ pc = "next"
  <2>1. convs # <<>>
    BY DEF Init, Running
  <2> QED
    BY <1>a, <2>1 DEF Init, Script
<1>2. ~Asked /\ ~Listened
  <2>a. PICK n : n = Len(queue)
    OBVIOUS
  <2>1. ~(Position > 0)
    BY <1>1, <2>a DEF Position
  <2> QED
    BY <2>1 DEF Asked, Listened
<1>3. Len(e) = 0 /\ e \in Seq(Answers)
  BY <1>a
<1>4. Idle
  BY <1>1, <1>3, <1>a DEF Idle, NoRequest
<1>5. Understands(test, InChunks)
  BY <1>1 DEF Understands, NewProcessor, NoHeaders
<1> QED
  BY <1>1, <1>2, <1>3, <1>4, <1>5 DEF ExchangeInv, Exchanging, Understands

LEMMA ExchangeInvariant ==
  ASSUME OneAtATime
  PROVE  Spec => [](TypeInv /\ ExchangeInv)
<1>1. Init => TypeInv /\ ExchangeInv
  BY TypeInit, ExchangeInit
<1>2. TypeInv /\ ExchangeInv /\ [Next]_vars => TypeInv' /\ ExchangeInv'
  BY TypeNext, ExchangeNext
<1> QED
  BY <1>1, <1>2, PTL DEF Spec

\* http_replay.cc, the RECV loop: it ends exactly when all of the response has
\* been read, with its payload collected, for every capture of one request at a
\* time, every server that frames its answers as the captured one did, and every
\* way in which read() cuts them up between lines.
THEOREM RecvEndsWithResponse ==
  ASSUME OneAtATime
  PROVE  Spec => []CompleteWhenWhole
<1>1. TypeInv /\ ExchangeInv => CompleteWhenWhole
  <2> SUFFICES ASSUME TypeInv, ExchangeInv, pc = "recv", Len(answers) = requests
               PROVE  /\ Complete(test) <=> wire = <<>>
                      /\ Complete(test) =>
                           /\ test.status_code = Headers[Last(answers).head].status
                           /\ test.data.payload = Payload(Last(answers))
    BY DEF CompleteWhenWhole
  <2>1. requests \in Nat /\ answers \in Seq(Answers) /\ (Waiting \/ Reading) /\ wire \in Bytes
    BY DEF ExchangeInv, Exchanging, Running, TypeInv, NetworkTypes
  <2>2. Reading
    <3>1. Waiting => requests = requests + 1
      BY DEF Waiting
    <3> QED
      BY <2>1, <3>1
  <2>3. Last(answers) \in Response /\ Reads(test, Last(answers), wire)
    BY <2>1, <2>2, LastAnswer DEF Reading
  <2> QED
    BY <2>1, <2>3, CompleteIsRead
<1> QED
  BY <1>1, ExchangeInvariant, PTL

\* http_replay.cc:58: no request is started before the response to the one
\* before it has been given and read, whatever the server answers and however
\* write() and read() cut up what is sent and received.
THEOREM RequestsTakeTurns ==
  ASSUME OneAtATime
  PROVE  Spec => AnsweredBeforeNextRequest
<1>1. ASSUME TypeInv, ExchangeInv, Next, requests' > requests
      PROVE  Len(answers) = requests /\ wire = <<>>
  <2>0. requests \in Nat
    BY <1>1 DEF ExchangeInv
  <2>1. requests' # requests /\ requests' # 0
    BY <1>1, <2>0
  <2>2. PICK n : Write(n)
    BY <1>1, <2>1
    DEF Next, ClientStep, ClientFails, NextConversation, Connect, Close, Expect, Read, EndOfStream,
        Received, ConnectFails, IoFails, Answering, Answer, HangUp, history
  <2>3. pc = "next" /\ queue # <<>> /\ Action.type = "SEND" /\ pc \in Running
    BY <2>2 DEF Write, AtAction, Action, Running
  <2>4. ~Asked
    BY <1>1, <2>3, TurnFacts DEF TypeInv
  <2> QED
    BY <1>1, <2>3, <2>4 DEF ExchangeInv, Exchanging, Idle
<1>2. TypeInv /\ ExchangeInv /\ [Next]_vars
        => [requests' > requests => Len(answers) = requests /\ wire = <<>>]_vars
  BY <1>1
<1> QED
  BY <1>2, ExchangeInvariant, PTL DEF Spec, AnsweredBeforeNextRequest

-----------------------------------------------------------------------------
(* The packets of a script.                                                *)

Scripts == Seq([type : {"CONNECT", "SEND", "RECV", "CLOSE"}, data : Seq(Symbol)])

PacketSeq(actions, i, j) == [k \in 1 .. j - i |-> actions[i + k].data]

IsPackets(actions, i, j, x) ==
  /\ x \in Seq(Bytes)
  /\ Len(x) = IF i <= j THEN j - i ELSE 0
  /\ i <= j => \A k \in 1 .. j - i : x[k] = actions[i + k].data

LEMMA PacketSeqFacts ==
  \A actions \in Scripts : \A i, j \in Nat :
    j <= Len(actions) => IsPackets(actions, i, j, PacketSeq(actions, i, j))
<1> SUFFICES ASSUME NEW actions \in Scripts, NEW i \in Nat, NEW j \in Nat, j <= Len(actions)
             PROVE  IsPackets(actions, i, j, PacketSeq(actions, i, j))
  OBVIOUS
<1>a. PICK x, l : x = PacketSeq(actions, i, j) /\ l = Len(actions)
  OBVIOUS
<1>0. l \in Nat /\ j <= l
  BY <1>a DEF Scripts
<1>1. CASE i <= j
  <2>a. PICK n : n = j - i
    OBVIOUS
  <2>0. n \in Nat
    BY <1>1, <2>a
  <2>1. ASSUME NEW k \in 1 .. n
        PROVE  actions[i + k].data \in Bytes
    <3>1. i + k \in 1 .. l
      BY <1>0, <1>1, <2>a
    <3>2. actions[i + k] \in [type : {"CONNECT", "SEND", "RECV", "CLOSE"}, data : Seq(Symbol)]
      BY <1>a, <3>1, ElementOfSeq DEF Scripts
    <3> QED
      BY <3>2 DEF Bytes
  <2>2. x = [k \in 1 .. n |-> actions[i + k].data]
    BY <1>a, <2>a DEF PacketSeq
  <2>3. x \in [1 .. n -> Bytes]
    BY <2>1, <2>2
  <2>4. x \in Seq(Bytes) /\ Len(x) = n
    BY <2>0, <2>3, FunctionIsSeq, Zenon
  <2> QED
    BY <1>1, <1>a, <2>2, <2>4, <2>a DEF IsPackets
<1>2. CASE ~(i <= j)
  <2>1. 1 .. j - i = {}
    BY <1>2
  <2>2. x = <<>>
    <3>1. x = [k \in {} |-> actions[i + k].data]
      BY <1>a, <2>1 DEF PacketSeq
    <3>2. x \in [1 .. 0 -> Bytes]
      BY <3>1
    <3>3. 0 \in Nat
      OBVIOUS
    <3>4. x \in Seq(Bytes) /\ Len(x) = 0
      BY <3>2, <3>3, FunctionIsSeq, Zenon
    <3> QED
      BY <3>4, EmptySeq
  <2>3. x \in Seq(Bytes) /\ Len(x) = 0
    BY <2>2
  <2> QED
    BY <1>2, <1>a, <2>3 DEF IsPackets
<1> QED
  BY <1>1, <1>2

\* Packets from i to j, cut at m.
CutAt(actions, i, m, j) ==
  /\ Packets(actions, i, j) \in Bytes
  /\ Packets(actions, i, j) = Packets(actions, i, m) \o Packets(actions, m, j)

LEMMA PacketsType ==
  \A actions \in Scripts : \A i, j \in Nat :
    j <= Len(actions) =>
      Packets(actions, i, j) \in Bytes /\ (j <= i => Packets(actions, i, j) = <<>>)
<1> SUFFICES ASSUME NEW actions \in Scripts, NEW i \in Nat, NEW j \in Nat, j <= Len(actions)
             PROVE  Packets(actions, i, j) \in Bytes /\ (j <= i => Packets(actions, i, j) = <<>>)
  OBVIOUS
<1>a. PICK x : x = PacketSeq(actions, i, j)
  OBVIOUS
<1>1. IsPackets(actions, i, j, x)
  BY <1>a, PacketSeqFacts, Zenon
<1>2. x \in Seq(Bytes)
  BY <1>1 DEF IsPackets
<1>3. Packets(actions, i, j) = FlattenSeq(x)
  BY <1>a DEF Packets, PacketSeq
<1>4. FlattenSeq(x) \in Bytes
  BY <1>2, FlattenType DEF Bytes
<1>5. ASSUME j <= i
      PROVE  FlattenSeq(x) = <<>>
  <2>1. Len(x) = 0
    BY <1>1, <1>5 DEF IsPackets
  <2>2. x = <<>>
    BY <1>2, <2>1, EmptySeq
  <2> QED
    BY <2>2, FlattenEmpty
<1> QED
  BY <1>3, <1>4, <1>5

LEMMA PacketsCut ==
  \A actions \in Scripts : \A i, m, j \in Nat :
    i <= m /\ m <= j /\ j <= Len(actions) => CutAt(actions, i, m, j)
<1> SUFFICES ASSUME NEW actions \in Scripts, NEW i \in Nat, NEW m \in Nat, NEW j \in Nat,
                    i <= m, m <= j, j <= Len(actions)
             PROVE  CutAt(actions, i, m, j)
  OBVIOUS
<1>a. PICK x, y, z, w :
        /\ x = PacketSeq(actions, i, m) /\ y = PacketSeq(actions, m, j)
        /\ z = PacketSeq(actions, i, j) /\ w = x \o y
  OBVIOUS
<1>0. Len(actions) \in Nat
  BY DEF Scripts
<1>1. IsPackets(actions, i, m, x) /\ IsPackets(actions, m, j, y) /\ IsPackets(actions, i, j, z)
  <2>1. m <= Len(actions)
    BY <1>0
  <2> QED
    BY <1>a, <2>1, PacketSeqFacts, Zenon
<1>2. /\ x \in Seq(Bytes) /\ Len(x) = m - i /\ \A k \in 1 .. m - i : x[k] = actions[i + k].data
      /\ y \in Seq(Bytes) /\ Len(y) = j - m /\ \A k \in 1 .. j - m : y[k] = actions[m + k].data
      /\ z \in Seq(Bytes) /\ Len(z) = j - i /\ \A k \in 1 .. j - i : z[k] = actions[i + k].data
  <2>1. i <= j
    OBVIOUS
  <2> QED
    BY <1>1, <2>1 DEF IsPackets
<1>3. /\ w \in Seq(Bytes) /\ Len(w) = j - i
      /\ \A k \in 1 .. j - i : w[k] = IF k <= m - i THEN x[k] ELSE y[k - (m - i)]
  <2>1. IsConcat(Bytes, x, y, w)
    BY <1>2, <1>a, IsConcatFacts
  <2>2. (m - i) + (j - m) = j - i
    OBVIOUS
  <2> QED
    BY <1>2, <2>1, <2>2 DEF IsConcat
<1>4. ASSUME NEW k \in 1 .. j - i
      PROVE  w[k] = z[k]
  <2>1. CASE k <= m - i
    <3>1. k \in 1 .. m - i
      BY <2>1
    <3> QED
      BY <1>2, <1>3, <2>1, <3>1
  <2>2. CASE ~(k <= m - i)
    <3>1. k - (m - i) \in 1 .. j - m /\ m + (k - (m - i)) = i + k
      BY <2>2
    <3>2. w[k] = y[k - (m - i)]
      BY <1>3, <2>2
    <3>3. y[k - (m - i)] = actions[m + (k - (m - i))].data
      BY <1>2, <3>1
    <3>4. z[k] = actions[i + k].data
      BY <1>2
    <3> QED
      BY <3>1, <3>2, <3>3, <3>4
  <2> QED
    BY <2>1, <2>2
<1>5. w = z
  BY <1>2, <1>3, <1>4, SeqEqual
<1>6. FlattenSeq(w) = FlattenSeq(x) \o FlattenSeq(y)
  BY <1>2, <1>a, FlattenConcat DEF Bytes
<1>7. /\ Packets(actions, i, m) = FlattenSeq(x) /\ Packets(actions, m, j) = FlattenSeq(y)
      /\ Packets(actions, i, j) = FlattenSeq(z)
  BY <1>a DEF Packets, PacketSeq
<1>8. FlattenSeq(z) \in Bytes
  BY <1>2, FlattenType DEF Bytes
<1> QED
  BY <1>5, <1>6, <1>7, <1>8 DEF CutAt

LEMMA OnePacket ==
  \A actions \in Scripts : \A i \in Nat :
    i + 1 <= Len(actions) =>
      Packets(actions, i, i + 1) = actions[i + 1].data /\ actions[i + 1].data \in Bytes
<1> SUFFICES ASSUME NEW actions \in Scripts, NEW i \in Nat, i + 1 <= Len(actions)
             PROVE  Packets(actions, i, i + 1) = actions[i + 1].data /\ actions[i + 1].data \in Bytes
  OBVIOUS
<1>a. PICK x, d, j : x = PacketSeq(actions, i, j) /\ d = actions[i + 1].data /\ j = i + 1
  OBVIOUS
<1>0. j \in Nat /\ i <= j /\ j - i = 1 /\ 1 \in 1 .. 1
  BY <1>a
<1>1. IsPackets(actions, i, j, x)
  BY <1>0, <1>a, PacketSeqFacts, Zenon
<1>2. x \in Seq(Bytes) /\ Len(x) = 1 /\ x[1] = d
  BY <1>0, <1>1, <1>a DEF IsPackets
<1>3. d \in Bytes
  <2>1. 1 \in 1 .. Len(x)
    BY <1>2
  <2> QED
    BY <1>2, <2>1, ElementOfSeq
<1>4. x = <<d>>
  <2>a. PICK o : o = <<d>>
    OBVIOUS
  <2>1. o \in Seq(Bytes) /\ Len(o) = 1 /\ o[1] = d
    BY <1>3, <2>a
  <2>2. \A k \in 1 .. Len(x) : x[k] = o[k]
    BY <1>2, <2>1
  <2>3. x = o
    BY <1>2, <2>1, <2>2, SeqEqual
  <2> QED
    BY <2>3, <2>a
<1>5. FlattenSeq(<<d>>) = d
  BY <1>3, FlattenOne DEF Bytes
<1>6. Packets(actions, i, j) = FlattenSeq(x)
  BY <1>a DEF Packets, PacketSeq
<1> QED
  BY <1>3, <1>4, <1>5, <1>6, <1>a


-----------------------------------------------------------------------------
(* Hearing what was recorded of a response.                                *)

\* t has been given the packets up to at that follow the request at from; those
\* up to end are to come, and left is what was not recorded.
Follows(actions, at, t, r, from, end, left) ==
  /\ from \in 1 .. at /\ Asks(actions[from])
  /\ \A k \in from + 1 .. at : actions[k].type = "RECV"
  /\ end \in from .. Len(actions) /\ left \in Bytes
  /\ Packets(actions, from, end) \o left = Encode(r)
  /\ \A k \in from + 1 .. end :
       actions[k].type = "RECV" /\ actions[k].data # <<>> /\ LinesWhole(actions[k].data)
  /\ left # <<>> =>
       at <= end /\ (end + 1 \in DOMAIN actions => actions[end + 1].type # "RECV")
  /\ Reads(t, r, Packets(actions, at, end) \o left)

Hears(actions, at, t, r) == \E from, end, left : Follows(actions, at, t, r, from, end, left)

LEMMA HearsNext ==
  ASSUME NEW actions \in Scripts, NEW at \in Nat, at + 1 <= Len(actions),
         actions[at + 1].type = "RECV",
         NEW r \in Response, Framed(r), NEW t, Sane(t), t.fate = "ok",
         Understands(t, Headers[r.head].chunked), Hears(actions, at, t, r),
         NEW s, s = IF Complete(t) THEN t ELSE ProcessData(t, actions[at + 1].data)
  PROVE  \/ s.fate = "throw" /\ ~Overruns(s.data)
         \/ Hears(actions, at + 1, s, r) /\ Understands(s, Headers[r.head].chunked)
<1>a. PICK from, end, left : Follows(actions, at, t, r, from, end, left)
  BY DEF Hears
<1>b. PICK rest, rest2, d, e, next :
        /\ rest = Packets(actions, at, end) /\ rest2 = Packets(actions, next, end)
        /\ d = actions[next].data /\ e = <<>> /\ next = at + 1
  OBVIOUS
<1>0. /\ Len(actions) \in Nat /\ DOMAIN actions = 1 .. Len(actions)
      /\ from \in 1 .. at /\ Asks(actions[from])
      /\ \A k \in from + 1 .. at : actions[k].type = "RECV"
      /\ end \in from .. Len(actions) /\ left \in Bytes
      /\ Packets(actions, from, end) \o left = Encode(r)
      /\ \A k \in from + 1 .. end :
           actions[k].type = "RECV" /\ actions[k].data # <<>> /\ LinesWhole(actions[k].data)
      /\ left # e =>
           at <= end /\ (end + 1 \in DOMAIN actions => actions[end + 1].type # "RECV")
      /\ Reads(t, r, rest \o left)
  BY <1>a, <1>b DEF Follows, Scripts
<1>1. end \in Nat /\ next \in Nat /\ end <= Len(actions) /\ next <= Len(actions)
  BY <1>0, <1>b
<1>2. /\ rest \in Bytes /\ (end <= at => rest = e)
      /\ rest2 \in Bytes /\ (end <= next => rest2 = e)
  BY <1>1, <1>b, PacketsType, Zenon
<1>3. at < end => rest = d \o rest2 /\ d \in Bytes
  <2>1. ASSUME at < end
        PROVE  rest = d \o rest2 /\ d \in Bytes
    <3>1. at <= next /\ next <= end
      BY <1>1, <1>b, <2>1
    <3>2. CutAt(actions, at, next, end)
      BY <1>1, <3>1, PacketsCut, Zenon
    <3>3. Packets(actions, at, next) = d /\ d \in Bytes
      BY <1>1, <1>b, OnePacket, Zenon
    <3> QED
      BY <1>b, <3>2, <3>3 DEF CutAt
  <2> QED
    BY <2>1
<1>4. rest \o left \in Bytes
  BY <1>0, <1>2, Concats
<1>5. Complete(t) <=> rest \o left = e
  BY <1>0, <1>4, <1>b, CompleteIsRead
<1>6. /\ from \in 1 .. next
      /\ \A k \in from + 1 .. next : actions[k].type = "RECV"
  <2>1. ASSUME NEW k \in from + 1 .. next
        PROVE  actions[k].type = "RECV"
    <3>1. k \in from + 1 .. at \/ k = at + 1
      BY <1>0, <1>b
    <3> QED
      BY <1>0, <3>1
  <2> QED
    BY <1>0, <1>b, <2>1
<1>7. CASE Complete(t)
  <2>1. rest = e /\ left = e
    BY <1>0, <1>2, <1>5, <1>7, <1>b, NotEmptyConcat
  <2>2. rest2 = e
    <3>1. CASE at < end
      <4>1. d \o rest2 = e
        BY <1>3, <2>1, <3>1
      <4> QED
        BY <1>2, <1>3, <1>b, <3>1, <4>1, NotEmptyConcat
    <3>2. CASE ~(at < end)
      <4>1. end <= next
        BY <1>1, <1>b, <3>2
      <4> QED
        BY <1>2, <4>1
    <3> QED
      BY <3>1, <3>2
  <2>3. s = t /\ Reads(s, r, rest2 \o left)
    BY <1>0, <1>7, <2>1, <2>2
  <2>4. Follows(actions, next, s, r, from, end, left)
    BY <1>0, <1>6, <1>b, <2>1, <2>3 DEF Follows
  <2> QED
    BY <1>b, <2>3, <2>4 DEF Hears
<1>8. CASE ~Complete(t)
  <2>1. at < end
    <3>1. CASE at = end /\ left # e
      BY <1>0, <1>1, <1>b, <3>1
    <3>2. CASE end <= at /\ left = e
      <4>1. rest \o left = e
        BY <1>2, <1>b, <3>2, Concats
      <4> QED
        BY <1>5, <1>8, <4>1
    <3>3. CASE end < at /\ left # e
      BY <1>0, <1>1, <3>3
    <3> QED
      BY <1>1, <3>1, <3>2, <3>3
  <2>2. d # <<>> /\ LinesWhole(d)
    <3>1. next \in from + 1 .. end
      BY <1>0, <1>1, <1>b, <2>1
    <3> QED
      BY <1>0, <1>b, <3>1
  <2>a. PICK w : w = rest2 \o left
    OBVIOUS
  <2>3. w \in Bytes /\ d \in Bytes /\ rest \o left = d \o w
    <3>1. d \in Bytes /\ rest2 \in Bytes /\ left \in Bytes /\ rest = d \o rest2
      BY <1>0, <1>2, <1>3, <2>1
    <3>2. (d \o rest2) \o left = d \o (rest2 \o left) /\ rest2 \o left \in Bytes
      BY <3>1, Concats
    <3> QED
      BY <2>a, <3>1, <3>2
  <2>4. s = ProcessData(t, d) /\ Reads(t, r, d \o w)
    BY <1>0, <1>8, <1>b, <2>3
  <2>5. \/ s.fate = "throw" /\ ~Overruns(s.data)
        \/ Reads(s, r, w) /\ Understands(s, Headers[r.head].chunked)
    BY <2>2, <2>3, <2>4, ReadsOn
  <2>6. ASSUME Reads(s, r, w)
        PROVE  Follows(actions, next, s, r, from, end, left)
    <3>1. next <= end
      BY <1>1, <1>b, <2>1
    <3> QED
      BY <1>0, <1>6, <1>b, <2>6, <2>a, <3>1 DEF Follows
  <2> QED
    BY <1>b, <2>5, <2>6 DEF Hears
<1> QED
  BY <1>7, <1>8

\* After a request, a processor that is ready has all of the response before it.
LEMMA HearsStart ==
  ASSUME NEW conv, InOrder(conv), conv.queue \in Scripts, conv.responses \in Seq(Response),
         NEW i \in DOMAIN conv.queue, Asks(conv.queue[i]),
         NEW e, e = Requested(conv.queue, i), NEW t, Fresh(t)
  PROVE  e \in DOMAIN conv.responses /\ Hears(conv.queue, i, t, conv.responses[e])
<1>a. PICK actions, responses, r, whole :
        /\ actions = conv.queue /\ responses = conv.responses /\ r = responses[e]
        /\ whole = Encode(r)
  OBVIOUS
<1>0. /\ e \in DOMAIN responses
      /\ \E j \in i .. Len(actions) :
           /\ \A k \in i + 1 .. j :
                /\ actions[k].type = "RECV"
                /\ actions[k].data # <<>> /\ LinesWhole(actions[k].data)
           /\ IsPrefix(Packets(actions, i, j), Encode(r))
           /\ \/ Packets(actions, i, j) = Encode(r)
              \/ j + 1 \in DOMAIN actions => actions[j + 1].type # "RECV"
  BY <1>a DEF InOrder
<1>1. r \in Response /\ i \in Nat /\ i \in 1 .. Len(actions) /\ Len(actions) \in Nat
  BY <1>0, <1>a DEF Scripts
<1>2. PICK j \in i .. Len(actions) :
        /\ \A k \in i + 1 .. j :
             /\ actions[k].type = "RECV"
             /\ actions[k].data # <<>> /\ LinesWhole(actions[k].data)
        /\ IsPrefix(Packets(actions, i, j), whole)
        /\ \/ Packets(actions, i, j) = whole
           \/ j + 1 \in DOMAIN actions => actions[j + 1].type # "RECV"
  BY <1>0, <1>a
<1>b. PICK heard, n, left : heard = Packets(actions, i, j) /\ n = Len(heard) /\ left = Drop(whole, n)
  OBVIOUS
<1>3. heard \in Bytes /\ n \in Nat /\ whole \in Bytes /\ Len(whole) \in Nat
  <2>1. j \in Nat /\ j <= Len(actions)
    BY <1>1
  <2>2. heard \in Bytes
    BY <1>1, <1>a, <1>b, <2>1, PacketsType, Zenon
  <2> QED
    BY <1>1, <1>a, <1>b, <2>2, EncodeShape, Concats
<1>4. n <= Len(whole) /\ heard = SubSeq(whole, 1, n)
  <2>1. Len(heard) <= Len(whole) /\ SubSeq(heard, 1, Len(heard)) = SubSeq(whole, 1, Len(heard))
    BY <1>2, <1>b DEF IsPrefix
  <2>2. SubSeq(heard, 1, n) = heard
    <3>a. PICK x : x = SubSeq(heard, 1, n)
      OBVIOUS
    <3>0. n \in Int /\ n <= Len(heard) /\ ~(n < 0)
      BY <1>3, <1>b
    <3>1. x \in Seq(Symbol) /\ Len(x) = n /\ \A k \in 1 .. n : x[k] = heard[k]
      BY <1>3, <3>0, <3>a, TakeFacts DEF Bytes
    <3> QED
      BY <1>3, <1>b, <3>1, <3>a, SeqEqual DEF Bytes
  <2> QED
    BY <1>b, <2>1, <2>2
<1>5. left \in Bytes /\ heard \o left = whole
  <2>1. left \in Bytes
    BY <1>3, <1>b, DropFacts DEF Bytes
  <2>2. whole = SubSeq(whole, 1, n) \o Drop(whole, n)
    BY <1>3, <1>4, TakeThenDrop DEF Bytes
  <2> QED
    BY <1>4, <1>b, <2>1, <2>2
<1>6. left # <<>> => (j + 1 \in DOMAIN actions => actions[j + 1].type # "RECV")
  <2>1. ASSUME heard = whole
        PROVE  left = <<>>
    <3>1. Len(whole) = Len(heard) + Len(left) /\ Len(left) \in Nat
      BY <1>3, <1>5, Concats
    <3>2. Len(left) = 0
      BY <1>3, <2>1, <3>1
    <3> QED
      BY <1>5, <3>2, EmptySeq DEF Bytes
  <2> QED
    BY <1>2, <1>b, <2>1
<1>7. Follows(actions, i, t, r, i, j, left)
  <2>1. Reads(t, r, heard \o left)
    BY <1>5, <1>a DEF Reads
  <2>2. i \in 1 .. i /\ i <= j /\ \A k \in i + 1 .. i : actions[k].type = "RECV"
    BY <1>1
  <2> QED
    BY <1>1, <1>2, <1>5, <1>6, <1>a, <1>b, <2>1, <2>2 DEF Follows
<1> QED
  BY <1>0, <1>7, <1>a DEF Hears


-----------------------------------------------------------------------------
(* Counting requests.                                                      *)

CountsOn(actions, i) ==
  /\ Requested(actions, i) \in Nat
  /\ Requested(actions, i + 1)
       = IF Asks(actions[i + 1]) THEN Requested(actions, i) + 1 ELSE Requested(actions, i)

LEMMA RequestedNext ==
  \A actions : \A i \in Nat : CountsOn(actions, i)
<1> SUFFICES ASSUME NEW actions, NEW i \in Nat
             PROVE  CountsOn(actions, i)
  OBVIOUS
<1>a. PICK S, T, n : /\ S = {j \in 1 .. i : Asks(actions[j])} /\ n = i + 1
                     /\ T = {j \in 1 .. n : Asks(actions[j])}
  OBVIOUS
<1>1. IsFiniteSet(S) /\ Cardinality(S) \in Nat
  <2>1. IsFiniteSet(1 .. i) /\ S \subseteq 1 .. i
    BY <1>a, FS_Interval
  <2> QED
    BY <2>1, FS_Subset, FS_CardinalityType
<1>2. Requested(actions, i) = Cardinality(S) /\ Requested(actions, i + 1) = Cardinality(T)
  BY <1>a DEF Requested
<1>3. CASE Asks(actions[n])
  <2>1. T = S \cup {n} /\ n \notin S
    BY <1>3, <1>a
  <2>2. Cardinality(T) = Cardinality(S) + 1
    BY <1>1, <2>1, FS_AddElement
  <2> QED
    BY <1>1, <1>2, <1>3, <1>a, <2>2 DEF CountsOn
<1>4. CASE ~Asks(actions[n])
  <2>1. T = S
    BY <1>4, <1>a
  <2> QED
    BY <1>1, <1>2, <1>4, <1>a, <2>1 DEF CountsOn
<1> QED
  BY <1>3, <1>4

LEMMA NothingRequested ==
  ASSUME NEW actions
  PROVE  Requested(actions, 0) = 0
<1>1. {j \in 1 .. 0 : Asks(actions[j])} = {}
  OBVIOUS
<1> QED
  BY <1>1, FS_EmptySet DEF Requested

\* Receiving asks for nothing.
LEMMA RequestedSame ==
  ASSUME NEW actions, NEW i \in Nat, NEW j \in Nat, i <= j,
         \A k \in i + 1 .. j : actions[k].type = "RECV"
  PROVE  Requested(actions, j) = Requested(actions, i)
<1>1. \A k \in i + 1 .. j : ~Asks(actions[k])
  BY DEF Asks
<1>2. {k \in 1 .. j : Asks(actions[k])} = {k \in 1 .. i : Asks(actions[k])}
  <2>1. ASSUME NEW k \in 1 .. j, Asks(actions[k])
        PROVE  k \in 1 .. i
    BY <1>1, <2>1
  <2> QED
    BY <2>1
<1> QED
  BY <1>2 DEF Requested

-----------------------------------------------------------------------------
(* The captured response, as it is passed on.                              *)

At == IF pc = "recv" THEN Position + 1 ELSE Position

Following ==
  /\ requests = Requested(Script, Position)
  /\ Responses # <<>> => Understands(expected, InChunks)
  /\ pc = "recv" \/ Asked \/ Listened =>
       requests \in DOMAIN Responses /\ Hears(Script, At, expected, Responses[requests])

HearingInv == RecordedInOrder /\ pc \in Running => Following

\* The script of a conversation recorded in order.
LEMMA InOrderFacts ==
  ASSUME TypeInv, RecordedInOrder, pc \in Running
  PROVE  /\ InOrder(convs[current]) /\ Script \in Scripts /\ Responses \in Seq(Response)
         /\ Script = convs[current].queue /\ Responses = convs[current].responses
         /\ Position \in Nat /\ Position <= Len(Script) /\ Len(Script) \in Nat
         /\ queue # <<>> => Position + 1 <= Len(Script) /\ Script[Position + 1] = Action
         /\ \A e \in DOMAIN Responses :
              /\ Responses[e] \in Response /\ Framed(Responses[e])
              /\ Headers[Responses[e].head].chunked = InChunks
<1>1. SocketInv /\ convs \in Captures /\ current \in DOMAIN convs
  BY DEF TypeInv, SocketInv
<1>2. InOrder(convs[current])
  BY <1>1 DEF RecordedInOrder
<1>3. Script \in Scripts
  BY <1>1, ScriptType DEF Script, Scripts
<1>4. Responses \in Seq(Response)
  <2>1. convs \in Seq(Conversation)
    BY <1>1, CapturesAssumption
  <2>2. convs[current] \in Conversation
    BY <1>1, <2>1
  <2> QED
    BY <2>2 DEF Conversation, Responses
<1>5. /\ Position \in Nat /\ Position <= Len(Script) /\ Len(Script) \in Nat
      /\ queue # <<>> => Position + 1 <= Len(Script) /\ Script[Position + 1] = Action
  <2>1. Len(Script) \in Nat /\ Len(queue) \in Nat /\ (queue # <<>> => Len(queue) # 0)
    BY <1>1, <1>3 DEF SocketInv, Scripts
  <2>2. /\ Len(queue) <= Len(Script)
        /\ \A i \in 1 .. Len(queue) : queue[i] = Script[Position + i]
    BY <1>1 DEF SocketInv, AtPosition
  <2>3. Position \in Nat /\ Position <= Len(Script)
    BY <2>1, <2>2 DEF Position
  <2>4. ASSUME queue # <<>>
        PROVE  Position + 1 <= Len(Script) /\ Script[Position + 1] = Action
    <3>1. 1 \in 1 .. Len(queue) /\ Position + 1 <= Len(Script)
      BY <2>1, <2>2, <2>4 DEF Position
    <3> QED
      BY <2>2, <3>1 DEF Action
  <2> QED
    BY <2>1, <2>3, <2>4
<1>6. \A e \in DOMAIN Responses :
        /\ Responses[e] \in Response /\ Framed(Responses[e])
        /\ Headers[Responses[e].head].chunked = InChunks
  <2>1. \A e \in DOMAIN Responses : Responses[e] \in Response
    BY <1>4
  <2>2. \A e \in DOMAIN Responses :
          /\ Framed(Responses[e])
          /\ Headers[Responses[e].head].chunked = InChunks
    BY <1>2 DEF InOrder, Responses, InChunks
  <2> QED
    BY <2>1, <2>2
<1> QED
  BY <1>2, <1>3, <1>4, <1>5, <1>6 DEF Script, Responses

LEMMA HearingSteady ==
  ASSUME HearingInv, UNCHANGED <<convs, current, queue, expected, requests>>,
         pc' = pc \/ pc' \notin Running
  PROVE  HearingInv'
BY SamePlace DEF HearingInv, Following, RecordedInOrder, At, Position, Script

LEMMA HearingNextConversation ==
  ASSUME TypeInv', HearingInv, NextConversation
  PROVE  HearingInv'
<1> SUFFICES ASSUME RecordedInOrder', pc' \in Running
             PROVE  Following'
  BY DEF HearingInv
<1>a. PICK n : n = Len(queue')
  OBVIOUS
<1>1. /\ pc' = "next" /\ requests' = 0 /\ expected' = NewProcessor /\ Script' = queue'
  BY DEF NextConversation, NewClient, Script, Running
<1>2. n \in Nat
  BY <1>a DEF TypeInv, SocketInv
<1>3. Position' = 0
  <2>1. Position' = n - n
    BY <1>1, <1>a DEF Position
  <2> QED
    BY <1>2, <2>1
<1>4. ~Asked' /\ ~Listened'
  BY <1>3 DEF Asked, Listened
<1>5. requests' = Requested(Script', Position')
  BY <1>1, <1>3, NothingRequested
<1>6. Understands(expected', InChunks')
  BY <1>1 DEF Understands, NewProcessor, NoHeaders
<1> QED
  BY <1>1, <1>4, <1>5, <1>6 DEF Following, Understands

LEMMA HearingConnection ==
  ASSUME OneAtATime, TypeInv, HearingInv, Connect \/ Close
  PROVE  HearingInv'
<1> SUFFICES ASSUME RecordedInOrder'
             PROVE  Following'
  BY DEF HearingInv
<1>1. /\ pc = "next" /\ pc' = "next" /\ queue # <<>> /\ Action.type \in {"CONNECT", "CLOSE"}
      /\ ActionPop /\ UNCHANGED <<convs, current, expected, requests>>
  BY DEF Connect, Close, AtAction, Action, history
<1>2. pc \in Running /\ SocketInv /\ RecordedInOrder
  BY <1>1 DEF Running, TypeInv, RecordedInOrder
<1>3. Following
  BY <1>2 DEF HearingInv
<1>4. Position \in Nat /\ Position' = Position + 1 /\ Script' = Script /\ Script[Position + 1] = Action
  BY <1>1, <1>2, PopMovesOn
<1>5. ~Asked' /\ ~Listened' /\ Responses' = Responses /\ InChunks' = InChunks
  BY <1>1, <1>2, AfterPop DEF Asks
<1>6. requests' = Requested(Script', Position')
  <2>1. CountsOn(Script, Position)
    BY <1>4, RequestedNext
  <2> QED
    BY <1>1, <1>3, <1>4, <2>1 DEF CountsOn, Following, Asks
<1> QED
  BY <1>1, <1>3, <1>5, <1>6 DEF Following, Understands

LEMMA HearingWrite ==
  ASSUME OneAtATime, TypeInv, ExchangeInv, HearingInv, NEW n \in 1 .. MaxWrite, Write(n)
  PROVE  HearingInv'
<1>1. /\ pc = "next" /\ pc' = "next" /\ queue # <<>> /\ Action.type = "SEND"
      /\ UNCHANGED <<convs, current>>
      /\ \/ UNCHANGED <<queue, expected, requests>>
         \/ /\ ActionPop /\ expected' = Reset(expected)
            /\ IF Asks(Action) THEN requests' = requests + 1 ELSE requests' = requests
  BY WriteFacts DEF ExchangeInv
<1>2. CASE UNCHANGED <<queue, expected, requests>>
  BY <1>1, <1>2, HearingSteady
<1>3. CASE /\ ActionPop /\ expected' = Reset(expected)
           /\ IF Asks(Action) THEN requests' = requests + 1 ELSE requests' = requests
  <2> SUFFICES ASSUME RecordedInOrder'
               PROVE  Following'
    BY DEF HearingInv
  <2>1. pc \in Running /\ SocketInv /\ RecordedInOrder
    BY <1>1 DEF Running, TypeInv, RecordedInOrder
  <2>2. Following
    BY <2>1 DEF HearingInv
  <2>3. /\ Position \in Nat /\ Position' = Position + 1 /\ Script' = Script
        /\ Script[Position + 1] = Action
    BY <1>1, <1>3, <2>1, PopMovesOn
  <2>4. /\ Asked' <=> Asks(Action)
        /\ ~Listened' /\ Responses' = Responses /\ InChunks' = InChunks
    BY <1>1, <1>3, <2>1, AfterPop
  <2>5. requests' = Requested(Script', Position')
    <3>1. CountsOn(Script, Position)
      BY <2>3, RequestedNext
    <3> QED
      BY <1>3, <2>2, <2>3, <3>1 DEF CountsOn, Following
  <2>6. Fresh(expected') /\ (Responses' # <<>> => Understands(expected', InChunks'))
    <3>1. Sane(expected)
      BY DEF TypeInv, ProcessorTypes
    <3> QED
      BY <1>3, <2>2, <2>4, <3>1, ResetIsFresh DEF Understands, Following
  <2>7. ASSUME Asks(Action)
        PROVE  requests' \in DOMAIN Responses' /\ Hears(Script', Position', expected', Responses'[requests'])
    <3>a. PICK conv, i, e, t :
            conv = convs[current] /\ i = Position' /\ e = requests' /\ t = expected'
      OBVIOUS
    <3>1. /\ InOrder(conv) /\ conv.queue \in Scripts /\ conv.responses \in Seq(Response)
          /\ Script = conv.queue /\ Responses = conv.responses
          /\ Position + 1 <= Len(Script) /\ Len(Script) \in Nat
      BY <1>1, <2>1, <3>a, InOrderFacts
    <3>2. i \in DOMAIN conv.queue /\ Asks(conv.queue[i])
      BY <2>3, <2>7, <3>1, <3>a DEF Scripts
    <3>3. e = Requested(conv.queue, i)
      BY <2>3, <2>5, <3>1, <3>a
    <3>4. e \in DOMAIN conv.responses /\ Hears(conv.queue, i, t, conv.responses[e])
      BY <2>6, <3>1, <3>2, <3>3, <3>a, HearsStart
    <3> QED
      BY <2>3, <2>4, <3>1, <3>4, <3>a
  <2>8. At' = Position'
    BY <1>1 DEF At
  <2> QED
    BY <1>1, <2>4, <2>5, <2>6, <2>7, <2>8 DEF Following
<1> QED
  BY <1>1, <1>2, <1>3

LEMMA ExpectStep ==
  ASSUME OneAtATime, TypeInv, TypeInv', HearingInv, RecordedInOrder, Expect,
         NEW r, r = Responses[requests], NEW s, s = expected'
  PROVE  /\ Following /\ requests \in DOMAIN Responses /\ Responses # <<>>
         /\ r \in Response /\ Headers[r.head].chunked = InChunks
         /\ \/ s.fate = "throw" /\ ~Overruns(s.data)
            \/ Hears(Script, Position + 1, s, r) /\ Understands(s, InChunks)
<1>1. /\ pc = "next" /\ queue # <<>> /\ Action.type = "RECV"
      /\ s = IF Complete(expected) THEN expected ELSE ProcessData(expected, Action.data)
  BY DEF Expect, AtAction, Action
<1>2. pc \in Running /\ SocketInv
  BY <1>1 DEF Running, TypeInv
<1>3. Following /\ (Asked \/ Listened)
  BY <1>1, <1>2, TurnFacts DEF HearingInv
<1>a. PICK actions, at : actions = Script /\ at = Position
  OBVIOUS
<1>4. /\ actions \in Scripts /\ at \in Nat /\ at + 1 <= Len(actions) /\ actions[at + 1] = Action
  BY <1>1, <1>2, <1>a, InOrderFacts
<1>5. requests \in DOMAIN Responses /\ Hears(actions, at, expected, r)
  BY <1>1, <1>3, <1>a DEF Following, At
<1>6. r \in Response /\ Framed(r) /\ Headers[r.head].chunked = InChunks /\ Responses # <<>>
  <2>1. \A e \in DOMAIN Responses :
          /\ Responses[e] \in Response /\ Framed(Responses[e])
          /\ Headers[Responses[e].head].chunked = InChunks
    BY <1>2, InOrderFacts
  <2>2. Responses # <<>>
    BY <1>5
  <2> QED
    BY <1>5, <2>1, <2>2
<1>7. Sane(expected) /\ expected.fate = "ok"
  BY <1>2 DEF TypeInv, ProcessorTypes
<1>8. \/ s.fate = "throw" /\ ~Overruns(s.data)
      \/ Hears(actions, at + 1, s, r) /\ Understands(s, Headers[r.head].chunked)
  BY <1>1, <1>3, <1>4, <1>5, <1>6, <1>7, HearsNext DEF Following
<1> QED
  BY <1>3, <1>5, <1>6, <1>8, <1>a

LEMMA HearingExpect ==
  ASSUME OneAtATime, TypeInv, TypeInv', HearingInv, Expect
  PROVE  HearingInv'
<1> SUFFICES ASSUME RecordedInOrder', pc' \in Running
             PROVE  Following'
  BY DEF HearingInv
<1>a. PICK r, s : r = Responses[requests] /\ s = expected'
  OBVIOUS
<1>1. pc' \in Fates(s) /\ UNCHANGED <<convs, current, queue, requests>>
  BY <1>a DEF Expect, history
<1>2. /\ Following /\ requests \in DOMAIN Responses
      /\ s.fate = "throw" \/ (Hears(Script, Position + 1, s, r) /\ Understands(s, InChunks))
  <2>1. RecordedInOrder
    BY <1>1 DEF RecordedInOrder
  <2> QED
    BY <1>a, <2>1, ExpectStep
<1>3. pc' = "recv" /\ s.fate = "ok"
  BY <1>1, <1>a, FatesRunning DEF TypeInv, ProcessorTypes
<1>4. Hears(Script, Position + 1, s, r) /\ Understands(s, InChunks)
  BY <1>2, <1>3
<1>5. /\ Script' = Script /\ Position' = Position /\ Responses' = Responses /\ InChunks' = InChunks
      /\ At' = Position + 1
  BY <1>1, <1>3 DEF Script, Position, Responses, InChunks, At
<1> QED
  BY <1>1, <1>2, <1>3, <1>4, <1>5, <1>a DEF Following

LEMMA HearingReceived ==
  ASSUME TypeInv, HearingInv, Received
  PROVE  HearingInv'
<1> SUFFICES ASSUME RecordedInOrder', pc' \in Running
             PROVE  Following'
  BY DEF HearingInv
<1>1. /\ pc = "recv" /\ pc' = "next" /\ ActionPop
      /\ UNCHANGED <<convs, current, expected, requests>>
  BY DEF Received, Running
<1>2. pc \in Running /\ SocketInv /\ RecordedInOrder /\ queue # <<>> /\ Action.type = "RECV"
  BY <1>1 DEF Running, TypeInv, SocketInv, RecordedInOrder
<1>3. Following
  BY <1>2 DEF HearingInv
<1>4. Position \in Nat /\ Position' = Position + 1 /\ Script' = Script /\ Script[Position + 1] = Action
  BY <1>1, <1>2, PopMovesOn
<1>5. Responses' = Responses /\ InChunks' = InChunks
  BY <1>1, <1>2, AfterPop
<1>6. requests' = Requested(Script', Position')
  <2>1. CountsOn(Script, Position)
    BY <1>4, RequestedNext
  <2> QED
    BY <1>1, <1>2, <1>3, <1>4, <2>1 DEF CountsOn, Following, Asks
<1>7. At = Position + 1 /\ At' = Position + 1
  BY <1>1, <1>4 DEF At
<1> QED
  BY <1>1, <1>3, <1>4, <1>5, <1>6, <1>7 DEF Following

LEMMA HearingNext ==
  ASSUME OneAtATime, TypeInv, TypeInv', ExchangeInv, HearingInv, [Next]_vars
  PROVE  HearingInv'
<1>1. CASE EndOfStream \/ IoFails \/ HangUp \/ ConnectFails \/ Answering \/ UNCHANGED vars
  <2>1. /\ UNCHANGED <<convs, current, queue, expected, requests>>
        /\ pc' = pc \/ pc' \notin Running
    BY <1>1
    DEF EndOfStream, IoFails, HangUp, ConnectFails, Answering, Answer, Running, client, history, vars
  <2> QED
    BY <2>1, HearingSteady
<1>2. ASSUME NEW n \in 1 .. BUFSIZ, Read(n)
      PROVE  HearingInv'
  <2>1. /\ UNCHANGED <<convs, current, queue, expected, requests>>
        /\ pc = "recv" /\ pc' \in {"recv"} \cup Ended
    BY <1>2, FatesType DEF Read, history
  <2>2. pc' = pc \/ pc' \notin Running
    BY <2>1 DEF Running, Ended
  <2> QED
    BY <2>1, <2>2, HearingSteady
<1> QED
  BY <1>1, <1>2, HearingNextConversation, HearingConnection, HearingWrite, HearingExpect,
     HearingReceived
  DEF Next, ClientStep, ClientFails

LEMMA HearingInit == Init => HearingInv
<1> SUFFICES ASSUME Init, pc \in Running
             PROVE  Following
  BY DEF HearingInv
<1>a. PICK n : n = Len(queue)
  OBVIOUS
<1>1. queue = Script /\ requests = 0 /\ expected = NewProcessor /\ pc = "next"
  <2>1. convs # <<>>
    BY DEF Init, Running
  <2> QED
    BY <2>1 DEF Init, Script
<1>2. n \in Nat
  BY <1>a, TypeInit DEF TypeInv, SocketInv
<1>3. Position = 0
  BY <1>1, <1>2, <1>a DEF Position
<1>4. ~Asked /\ ~Listened /\ requests = Requested(Script, Position)
  BY <1>1, <1>3, NothingRequested DEF Asked, Listened
<1>5. Understands(expected, InChunks)
  BY <1>1 DEF Understands, NewProcessor, NoHeaders
<1> QED
  BY <1>1, <1>4, <1>5 DEF Following

\* What holds of every state, when one request is made at a time.
ReplayInv == TypeInv /\ ExchangeInv /\ HearingInv

LEMMA ReplayInvariant ==
  ASSUME OneAtATime
  PROVE  Spec => []ReplayInv
<1>1. Init => ReplayInv
  BY TypeInit, ExchangeInit, HearingInit DEF ReplayInv
<1>2. ReplayInv /\ [Next]_vars => ReplayInv'
  <2> SUFFICES ASSUME ReplayInv, [Next]_vars
               PROVE  ReplayInv'
    OBVIOUS
  <2>1. TypeInv /\ ExchangeInv /\ HearingInv
    BY DEF ReplayInv
  <2>2. TypeInv'
    BY <2>1, TypeNext
  <2>3. ExchangeInv' /\ HearingInv'
    BY <2>1, <2>2, ExchangeNext, HearingNext
  <2> QED
    BY <2>2, <2>3 DEF ReplayInv
<1> QED
  BY <1>1, <1>2, PTL DEF Spec


\* What is known of the bytes that are left to read, for a response that is
\* heard.
LEMMA HearsIsReads ==
  ASSUME NEW actions \in Scripts, NEW at \in Nat, NEW t, NEW r, Hears(actions, at, t, r)
  PROVE  \E left \in Bytes : Reads(t, r, left)
<1>1. PICK from, end, left : Follows(actions, at, t, r, from, end, left)
  BY DEF Hears
<1>2. /\ end \in Nat /\ end <= Len(actions) /\ left \in Bytes
      /\ Reads(t, r, Packets(actions, at, end) \o left)
  BY <1>1 DEF Follows, Scripts
<1>3. Packets(actions, at, end) \in Bytes
  BY <1>2, PacketsType, Zenon
<1>4. Packets(actions, at, end) \o left \in Bytes
  BY <1>2, <1>3, Concats
<1> QED
  BY <1>2, <1>4

-----------------------------------------------------------------------------
(* What is reported.                                                       *)

\* Complete responses in the same framing are told apart exactly by their
\* status and payload, as long as strncmp() sees no end in them.
LEMMA ComparedRight ==
  ASSUME NEW r \in Response, NEW s \in Response,
         Headers[r.head].chunked = Headers[s.head].chunked,
         Headers[r.head].chunked => NUL \notin Range(Payload(r)),
         NEW t, NEW u, NEW left \in Bytes, NEW rest \in Bytes,
         Reads(t, r, left), Reads(u, s, rest), Complete(t), Complete(u)
  PROVE  /\ Compare(t, u) \in {"same", "different"}
         /\ Compare(t, u) = "different" <=>
              Headers[r.head].status # Headers[s.head].status \/ Payload(r) # Payload(s)
<1>a. PICK p, q, d, e : p = Payload(r) /\ q = Payload(s) /\ d = t.data /\ e = u.data
  OBVIOUS
<1>1. /\ t.status_code = Headers[r.head].status /\ d.payload = p
      /\ u.status_code = Headers[s.head].status /\ e.payload = q
  BY <1>a, CompleteIsRead
<1>2. p \in Bytes /\ q \in Bytes
  BY <1>a, EncodeShape
<1>3. d.type = (IF Headers[r.head].chunked THEN "chunked" ELSE "length") /\ e.type = d.type
  <2>1. Collecting(d, r, left) /\ Collecting(e, s, rest)
    BY <1>a DEF Reads, Fresh, Complete
  <2> QED
    BY <2>1 DEF Collecting, Parsed, ChunkedProcessor
<1>4. SamePayload(d, e) <=> p = q
  <2>1. CASE Headers[r.head].chunked
    <3>1. SamePayload(d, e) <=> Len(p) = Len(q) /\ SameText(p, q)
      BY <1>1, <1>3, <2>1 DEF SamePayload
    <3>2. \A j \in 1 .. Len(p) : p[j] # NUL
      BY <1>2, <1>a, <2>1 DEF Range, Bytes
    <3>3. ASSUME Len(p) = Len(q), SameText(p, q)
          PROVE  p = q
      <4>1. ASSUME NEW i \in 1 .. Len(p)
            PROVE  p[i] = q[i]
        <5>1. \A j \in 1 .. i - 1 : j \in 1 .. Len(p)
          BY <1>2, Concats
        <5>2. i \in DOMAIN p
          BY <1>2 DEF Bytes
        <5> QED
          BY <3>2, <3>3, <5>1, <5>2 DEF SameText
      <4> QED
        BY <1>2, <3>3, <4>1, SeqEqual DEF Bytes
    <3>4. p = q => Len(p) = Len(q) /\ SameText(p, q)
      BY DEF SameText
    <3> QED
      BY <3>1, <3>3, <3>4
  <2>2. CASE ~Headers[r.head].chunked
    BY <1>1, <1>3, <2>2 DEF SamePayload
  <2> QED
    BY <2>1, <2>2
<1> QED
  BY <1>1, <1>3, <1>4, <1>a DEF Compare

Verdicts ==
  [conversation : Nat, exchange : Nat,
   captured : Response \cup {NoResponse}, answered : Response \cup {NoResponse},
   said : {"same", "different", "throw"}]

VerdictInv ==
  /\ verdicts \in Seq(Verdicts)
  /\ RecordedInOrder /\ NoNul => ReportsAreRight

\* The moment of a comparison.
Compared == pc = "recv" /\ Complete(test) /\ Complete(expected)

\* Both responses are there, and each processor has all of its own.
LEMMA ComparedFacts ==
  ASSUME ReplayInv, RecordedInOrder, Compared,
         NEW r, r = Responses[requests], NEW s, s = Last(answers)
  PROVE  /\ r \in Response /\ s \in Response
         /\ requests \in DOMAIN Responses /\ requests \in DOMAIN answers /\ answers[requests] = s
         /\ Headers[r.head].chunked = Headers[s.head].chunked
         /\ \E left \in Bytes : Reads(expected, r, left)
         /\ \E left \in Bytes : Reads(test, s, left)
<1>1. pc \in Running /\ TypeInv /\ queue # <<>> /\ wire \in Bytes
  BY DEF ReplayInv, Running, Compared, TypeInv, SocketInv, NetworkTypes
<1>2. answers \in Seq(Answers) /\ Reading
  BY <1>1 DEF ReplayInv, ExchangeInv, Exchanging, Compared, Waiting, Fresh, Complete
<1>3. s \in Response /\ Reads(test, s, wire) /\ Headers[s.head].chunked = InChunks
  BY <1>2, LastAnswer DEF Reading
<1>4. requests \in DOMAIN answers /\ answers[requests] = s
  <2>1. Len(answers) = requests /\ requests # 0 /\ Len(answers) \in Nat
    BY <1>2, EmptySeq DEF Reading
  <2> QED
    BY <1>2, <2>1 DEF Last
<1>5. /\ requests \in DOMAIN Responses /\ Hears(Script, Position + 1, expected, r)
  BY <1>1 DEF ReplayInv, HearingInv, Following, Compared, At
<1>6. /\ Script \in Scripts /\ Position \in Nat
      /\ r \in Response /\ Headers[r.head].chunked = InChunks
  <2>1. /\ Script \in Scripts /\ Position \in Nat
        /\ \A e \in DOMAIN Responses :
             /\ Responses[e] \in Response /\ Framed(Responses[e])
             /\ Headers[Responses[e].head].chunked = InChunks
    BY <1>1, InOrderFacts
  <2> QED
    BY <1>5, <2>1
<1>7. \E left \in Bytes : Reads(expected, r, left)
  <2>a. PICK at : at = Position + 1
    OBVIOUS
  <2>1. at \in Nat /\ Hears(Script, at, expected, r)
    BY <1>5, <1>6, <2>a
  <2> QED
    BY <1>6, <2>1, HearsIsReads
<1> QED
  BY <1>1, <1>3, <1>4, <1>5, <1>6, <1>7

LEMMA VerdictType ==
  ASSUME ReplayInv, pc = "recv"
  PROVE  Verdict \in Verdicts
<1>1. /\ convs \in Seq(Conversation) /\ current \in DOMAIN convs /\ current \in Nat
      /\ requests \in Nat /\ answers \in Seq(Answers)
  <2>1. pc \in Running
    BY DEF Running
  <2>2. convs \in Captures /\ current \in DOMAIN convs
    BY <2>1 DEF ReplayInv, TypeInv, SocketInv
  <2>3. convs \in Seq(Conversation)
    BY <2>2, CapturesAssumption
  <2> QED
    BY <2>1, <2>2, <2>3 DEF ReplayInv, ExchangeInv
<1>2. Responses \in Seq(Response)
  <2>1. convs[current] \in Conversation
    BY <1>1
  <2> QED
    BY <2>1 DEF Conversation, Responses
<1>3. ResponseAt(convs[current].responses, requests) \in Response \cup {NoResponse}
  BY <1>2 DEF ResponseAt, Responses
<1>4. ResponseAt(answers, requests) \in Response \cup {NoResponse}
  <2>1. \A i \in DOMAIN answers : answers[i] \in Response
    BY <1>1, AnswersAssumption
  <2> QED
    BY <2>1 DEF ResponseAt
<1>5. Compare(expected, test) \in {"same", "different", "throw"}
  BY DEF Compare
<1> QED
  BY <1>1, <1>3, <1>4, <1>5 DEF Verdict, Verdicts

RightVerdict(v) ==
  v.said # "throw" => (v.said = "different" <=> Differs(v.captured, v.answered))

LEMMA VerdictIsRight ==
  ASSUME ReplayInv, RecordedInOrder, NoNul, Compared
  PROVE  RightVerdict(Verdict)
<1>a. PICK r, s, v : r = Responses[requests] /\ s = Last(answers) /\ v = Verdict
  OBVIOUS
<1>1. /\ r \in Response /\ s \in Response
      /\ requests \in DOMAIN Responses /\ requests \in DOMAIN answers /\ answers[requests] = s
      /\ Headers[r.head].chunked = Headers[s.head].chunked
      /\ \E left \in Bytes : Reads(expected, r, left)
      /\ \E left \in Bytes : Reads(test, s, left)
  BY <1>a, ComparedFacts
<1>2. v.captured = r /\ v.answered = s /\ v.said = Compare(expected, test)
  BY <1>1, <1>a DEF Verdict, ResponseAt, Responses
<1>3. Headers[r.head].chunked => NUL \notin Range(Payload(r))
  <2>1. current \in DOMAIN convs
    BY DEF ReplayInv, TypeInv, SocketInv, Running, Compared
  <2> QED
    BY <1>1, <1>a, <2>1 DEF NoNul, Responses
<1>4. Compare(expected, test) = "different" <=>
         Headers[r.head].status # Headers[s.head].status \/ Payload(r) # Payload(s)
  BY <1>1, <1>3, ComparedRight DEF Compared
<1>5. NoResponse \notin {r, s}
  <2>1. ASSUME NoResponse \in Response
        PROVE  FALSE
    <3>1. 0 \in DOMAIN Headers
      BY <2>1 DEF NoResponse, Response
    <3> QED
      BY <3>1, HeadersAssumption
  <2> QED
    BY <1>1, <2>1
<1> QED
  BY <1>2, <1>4, <1>5, <1>a DEF RightVerdict, Differs

LEMMA VerdictNext ==
  ASSUME ReplayInv, VerdictInv, [Next]_vars
  PROVE  VerdictInv'
<1>1. CASE UNCHANGED verdicts /\ UNCHANGED convs
  BY <1>1 DEF VerdictInv, ReportsAreRight, RecordedInOrder, NoNul
<1>2. CASE Received /\ Compared /\ verdicts' = Append(verdicts, Verdict)
  <2>a. PICK v, ws, n : v = Verdict /\ ws = verdicts' /\ n = Len(verdicts)
    OBVIOUS
  <2>1. v \in Verdicts /\ convs' = convs
    BY <1>2, <2>a, VerdictType DEF Compared, Received
  <2>2. /\ ws \in Seq(Verdicts) /\ n \in Nat /\ Len(ws) = n + 1 /\ ws[n + 1] = v
        /\ \A i \in 1 .. n : ws[i] = verdicts[i]
    BY <1>2, <2>1, <2>a, AppendProperties DEF VerdictInv
  <2>3. ASSUME RecordedInOrder, NoNul, NEW i \in DOMAIN ws
        PROVE  RightVerdict(ws[i])
    <3>1. i \in 1 .. n \/ i = n + 1
      BY <2>2
    <3>2. CASE i \in 1 .. n
      <4>1. i \in DOMAIN verdicts
        BY <2>a, <3>2 DEF VerdictInv
      <4> QED
        BY <2>2, <2>3, <3>2, <4>1 DEF VerdictInv, ReportsAreRight, RightVerdict
    <3>3. CASE i = n + 1
      BY <1>2, <2>2, <2>3, <2>a, <3>3, VerdictIsRight
    <3> QED
      BY <3>1, <3>2, <3>3
  <2> QED
    BY <2>1, <2>2, <2>3, <2>a DEF VerdictInv, ReportsAreRight, RightVerdict, RecordedInOrder, NoNul
<1>3. CASE Received
  <2>1. UNCHANGED convs
    BY <1>3 DEF Received
  <2> QED
    BY <1>1, <1>2, <1>3, <2>1 DEF Received, Compared
<1> QED
  BY <1>1, <1>3
  DEF Next, ClientStep, ClientFails, NextConversation, Connect, Close, Write, Expect, Read,
      EndOfStream, ConnectFails, IoFails, Answering, Answer, HangUp, client, history, vars

LEMMA VerdictInit == Init => VerdictInv
<1>a. PICK e : e = <<>>
  OBVIOUS
<1>1. e \in Seq(Verdicts) /\ DOMAIN e = {}
  BY <1>a
<1> QED
  BY <1>1, <1>a DEF Init, VerdictInv, ReportsAreRight

\* http_replay.cc:83: whatever is reported of a response is so.  What is
\* compared is the response just read with the one recorded in its place, from
\* the first byte of either to the last.
THEOREM ReportsRight ==
  ASSUME OneAtATime
  PROVE  Spec => [](RecordedInOrder /\ NoNul => ReportsAreRight)
<1>1. Init => VerdictInv
  BY VerdictInit
<1>2. ReplayInv /\ VerdictInv /\ [Next]_vars => VerdictInv'
  BY VerdictNext
<1>3. VerdictInv => (RecordedInOrder /\ NoNul => ReportsAreRight)
  BY DEF VerdictInv
<1> QED
  BY <1>1, <1>2, <1>3, ReplayInvariant, PTL DEF Spec


-----------------------------------------------------------------------------
(* Buffers.                                                                *)

FitsInv ==
  /\ ~Overruns(test.data)
  /\ RecordedInOrder => ~Overruns(expected.data)

LEMMA NothingOverruns == ~Overruns(NoProcessor)
BY NewPayloadProcessors DEF Overruns

LEMMA FitsNext ==
  ASSUME OneAtATime, ReplayInv, ReplayInv', FitsInv, [Next]_vars
  PROVE  FitsInv'
<1>0. TypeInv /\ TypeInv' /\ ExchangeInv /\ HearingInv
  BY DEF ReplayInv
<1>1. CASE UNCHANGED <<convs, expected, test>>
  BY <1>1 DEF FitsInv, RecordedInOrder
<1>2. CASE NextConversation
  <2>1. test'.data = NoProcessor /\ expected'.data = NoProcessor
    BY <1>2 DEF NextConversation, NewClient, NewProcessor
  <2> QED
    BY <2>1, NothingOverruns DEF FitsInv
<1>3. ASSUME NEW n \in 1 .. MaxWrite, Write(n)
      PROVE  FitsInv'
  <2>1. \/ UNCHANGED <<convs, expected, test>>
        \/ expected' = Reset(expected) /\ test' = Reset(test)
    BY <1>0, <1>3, WriteFacts DEF ExchangeInv
  <2>2. CASE expected' = Reset(expected) /\ test' = Reset(test)
    <3>1. Sane(expected) /\ Sane(test)
      BY <1>0 DEF TypeInv, ProcessorTypes
    <3>2. expected'.data = NoProcessor /\ test'.data = NoProcessor
      BY <2>2, <3>1, ResetIsFresh DEF Fresh
    <3> QED
      BY <3>2, NothingOverruns DEF FitsInv
  <2> QED
    BY <1>1, <2>1, <2>2
<1>4. CASE Expect
  <2>1. UNCHANGED <<convs, test>>
    BY <1>4 DEF Expect
  <2>2. ASSUME RecordedInOrder
        PROVE  ~Overruns(expected'.data)
    <3>a. PICK r, s, at : r = Responses[requests] /\ s = expected' /\ at = Position + 1
      OBVIOUS
    <3>1. \/ s.fate = "throw" /\ ~Overruns(s.data)
          \/ Hears(Script, at, s, r)
      BY <1>0, <1>4, <2>2, <3>a, ExpectStep
    <3>2. r \in Response
      BY <1>0, <1>4, <2>2, <3>a, ExpectStep
    <3>3. CASE Hears(Script, at, s, r)
      <4>1. pc \in Running
        BY <1>4 DEF Expect, AtAction, Running
      <4>2. Script \in Scripts /\ at \in Nat
        BY <1>0, <2>2, <3>a, <4>1, InOrderFacts
      <4>3. PICK left \in Bytes : Reads(s, r, left)
        BY <3>3, <4>2, HearsIsReads
      <4> QED
        BY <3>2, <3>a, <4>3, ReadFits
    <3> QED
      BY <3>1, <3>3, <3>a
  <2> QED
    BY <2>1, <2>2 DEF FitsInv, RecordedInOrder
<1>5. ASSUME NEW n \in 1 .. BUFSIZ, Read(n)
      PROVE  FitsInv'
  <2>a. PICK r : r = Last(answers)
    OBVIOUS
  <2>1. /\ r \in Response /\ wire' \in Bytes
        /\ \/ test'.fate = "throw" /\ ~Overruns(test'.data)
           \/ Reads(test', r, wire')
    BY <1>0, <1>5, <2>a, ReadStep
  <2>2. ~Overruns(test'.data)
    BY <2>1, ReadFits
  <2>3. UNCHANGED <<convs, expected>>
    BY <1>5 DEF Read
  <2> QED
    BY <2>2, <2>3 DEF FitsInv, RecordedInOrder
<1> QED
  BY <1>1, <1>2, <1>3, <1>4, <1>5
  DEF Next, ClientStep, ClientFails, Connect, Close, EndOfStream, Received, ConnectFails, IoFails,
      Answering, Answer, HangUp, client, vars

\* http_response_processor.h:59: nothing is written behind the buffer that the
\* content-length made, by a server that answers what it is asked, however
\* its answers are cut up; nor by a capture that was recorded in order.
THEOREM NothingBehindBuffers ==
  ASSUME OneAtATime
  PROVE  Spec => [](~Overruns(test.data) /\ (RecordedInOrder => BuffersHold))
<1>1. Init => FitsInv
  <2>1. Init => test.data = NoProcessor /\ expected.data = NoProcessor
    BY DEF Init, NewProcessor
  <2> QED
    BY <2>1, NothingOverruns DEF FitsInv
<1>2. ReplayInv /\ ReplayInv' /\ FitsInv /\ [Next]_vars => FitsInv'
  BY FitsNext
<1>3. FitsInv => ~Overruns(test.data) /\ (RecordedInOrder => BuffersHold)
  BY DEF FitsInv, BuffersHold
<1> QED
  BY <1>1, <1>2, <1>3, ReplayInvariant, PTL DEF Spec


-----------------------------------------------------------------------------
(* Every response that was recorded whole is compared.                     *)

\* From its request at i up to j, the packets of a response and all of them.
Whole(actions, responses, i, j) ==
  /\ i \in DOMAIN actions /\ j \in i .. Len(actions)
  /\ Asks(actions[i]) /\ \A k \in i + 1 .. j : actions[k].type = "RECV"
  /\ Packets(actions, i, j) = Encode(responses[Requested(actions, i)])

Covered(vs, c, e) ==
  \E v \in DOMAIN vs : vs[v].conversation = c /\ vs[v].exchange = e

\* Of the conversations before, and of this one as far as it has got.
CoveredSoFar ==
  \A c \in 1 .. current : \A i, j :
    Whole(convs[c].queue, convs[c].responses, i, j) /\ (c = current => j <= Position)
      => Covered(verdicts, c, Requested(convs[c].queue, i))

CoverInv ==
  RecordedInOrder =>
    /\ pc \in Running => CoveredSoFar
    /\ EveryResponseIsCompared

\* A response that was given to the processor whole is complete.
LEMMA WholeIsComplete ==
  ASSUME NEW actions \in Scripts, NEW j \in 1 .. Len(actions), NEW responses, NEW i,
         Whole(actions, responses, i, j),
         NEW e, e = Requested(actions, j), NEW r, r = responses[e], r \in Response,
         NEW t, Hears(actions, j, t, r)
  PROVE  Requested(actions, i) = e /\ Complete(t)
<1>1. PICK from, end, left : Follows(actions, j, t, r, from, end, left)
  BY DEF Hears
<1>a. PICK whole, heard, rest, n : whole = Encode(r) /\ heard = Packets(actions, from, j)
                                     /\ rest = Packets(actions, j, end) /\ n = Len(actions)
  OBVIOUS
<1>2. /\ n \in Nat /\ j \in Nat /\ j <= n /\ from \in 1 .. j /\ Asks(actions[from])
      /\ \A k \in from + 1 .. j : actions[k].type = "RECV"
      /\ end \in Nat /\ end <= n /\ from <= end /\ left \in Bytes
      /\ Packets(actions, from, end) \o left = whole
      /\ left # <<>> => j <= end
      /\ Reads(t, r, rest \o left)
  <2>1. n \in Nat /\ j \in 1 .. n
    BY <1>a DEF Scripts
  <2>2. /\ from \in 1 .. j /\ Asks(actions[from])
        /\ \A k \in from + 1 .. j : actions[k].type = "RECV"
        /\ end \in from .. n /\ left \in Bytes
        /\ Packets(actions, from, end) \o left = whole
        /\ left # <<>> => j <= end
        /\ Reads(t, r, rest \o left)
    BY <1>1, <1>a DEF Follows
  <2> QED
    BY <2>1, <2>2
<1>3. /\ i \in 1 .. n /\ i <= j /\ Asks(actions[i])
      /\ \A k \in i + 1 .. j : actions[k].type = "RECV"
      /\ Packets(actions, i, j) = Encode(responses[Requested(actions, i)])
  BY <1>a DEF Whole, Scripts
<1>4. from = i
  <2>1. CASE i < from
    <3>1. from \in i + 1 .. j
      BY <1>2, <1>3, <2>1
    <3> QED
      BY <1>2, <1>3, <3>1 DEF Asks
  <2>2. CASE from < i
    <3>1. i \in from + 1 .. j
      BY <1>2, <1>3, <2>2
    <3> QED
      BY <1>2, <1>3, <3>1 DEF Asks
  <2> QED
    BY <1>2, <1>3, <2>1, <2>2
<1>5. Requested(actions, i) = e
  <2>1. i \in Nat
    BY <1>3
  <2> QED
    BY <1>2, <1>3, <2>1, RequestedSame
<1>6. heard = whole
  BY <1>3, <1>4, <1>5, <1>a
<1>7. heard \in Bytes /\ rest \in Bytes /\ (end <= j => rest = <<>>)
  <2>1. from \in Nat
    BY <1>2
  <2> QED
    BY <1>2, <1>a, <2>1, PacketsType, Zenon
<1>8. rest \o left = <<>>
  <2>1. CASE j <= end
    <3>a. PICK w, p : w = rest \o left /\ p = Packets(actions, from, end)
      OBVIOUS
    <3>1. CutAt(actions, from, j, end)
      <4>1. from \in Nat /\ from <= j
        BY <1>2
      <4> QED
        BY <1>2, <1>a, <2>1, <4>1, PacketsCut, Zenon
    <3>2. p = heard \o rest
      BY <1>a, <3>1, <3>a DEF CutAt
    <3>3. (heard \o rest) \o left = heard \o (rest \o left) /\ w \in Bytes
      BY <1>2, <1>7, <3>a, Concats
    <3>4. heard \o w = heard
      BY <1>2, <1>6, <3>2, <3>3, <3>a
    <3>5. Len(heard \o w) = Len(heard) + Len(w) /\ Len(heard) \in Nat /\ Len(w) \in Nat
      BY <1>7, <3>3, Concats
    <3>6. Len(w) = 0
      BY <3>4, <3>5
    <3> QED
      BY <3>3, <3>6, <3>a, EmptySeq DEF Bytes
  <2>2. CASE ~(j <= end)
    <3>1. rest = <<>> /\ left = <<>>
      BY <1>2, <1>7, <2>2
    <3> QED
      BY <1>2, <3>1, Concats
  <2> QED
    BY <2>1, <2>2
<1>9. rest \o left \in Bytes
  BY <1>2, <1>7, Concats
<1> QED
  BY <1>2, <1>5, <1>8, <1>9, CompleteIsRead

\* Only receiving completes one.
LEMMA WholeIsReceived ==
  ASSUME NEW actions \in Scripts, NEW responses \in Seq(Response), NEW i, NEW j,
         Whole(actions, responses, i, j), Requested(actions, i) \in DOMAIN responses
  PROVE  actions[j].type = "RECV" /\ j \in Nat
<1>a. PICK r : r = responses[Requested(actions, i)]
  OBVIOUS
<1>1. /\ Len(actions) \in Nat /\ i \in 1 .. Len(actions) /\ j \in i .. Len(actions)
      /\ \A k \in i + 1 .. j : actions[k].type = "RECV"
      /\ Packets(actions, i, j) = Encode(r) /\ r \in Response
  BY <1>a DEF Whole, Scripts
<1>2. Encode(r) # <<>>
  <2>1. HeadSymbols(r) \in Bytes /\ Body(r) \in Bytes /\ Encode(r) = HeadSymbols(r) \o Body(r)
    BY <1>1, EncodeShape
  <2>2. HeadSymbols(r) # <<>>
    BY DEF HeadSymbols
  <2> QED
    BY <2>1, <2>2, NotEmptyConcat
<1>3. j # i
  <2>1. i \in Nat /\ j \in Nat /\ j <= Len(actions)
    BY <1>1
  <2>2. j <= i => Packets(actions, i, j) = <<>>
    BY <2>1, PacketsType, Zenon
  <2> QED
    BY <1>1, <1>2, <2>1, <2>2
<1>4. j \in i + 1 .. j /\ j \in Nat
  BY <1>1, <1>3
<1> QED
  BY <1>1, <1>4


\* Verdicts are only added.
LEMMA CoveredStays ==
  ASSUME VerdictInv, NEW c, NEW e, Covered(verdicts, c, e),
         UNCHANGED verdicts \/ \E v \in Verdicts : verdicts' = Append(verdicts, v)
  PROVE  Covered(verdicts', c, e)
<1>1. PICK v \in DOMAIN verdicts : verdicts[v].conversation = c /\ verdicts[v].exchange = e
  BY DEF Covered
<1>2. CASE UNCHANGED verdicts
  BY <1>1, <1>2 DEF Covered
<1>3. ASSUME NEW w \in Verdicts, verdicts' = Append(verdicts, w)
      PROVE  Covered(verdicts', c, e)
  <2>1. /\ verdicts' \in Seq(Verdicts) /\ Len(verdicts') = Len(verdicts) + 1
        /\ Len(verdicts) \in Nat /\ v \in 1 .. Len(verdicts)
        /\ \A i \in 1 .. Len(verdicts) : verdicts'[i] = verdicts[i]
    BY <1>1, <1>3, AppendProperties DEF VerdictInv
  <2>2. v \in DOMAIN verdicts' /\ verdicts'[v] = verdicts[v]
    BY <2>1
  <2> QED
    BY <1>1, <2>2 DEF Covered
<1> QED
  BY <1>2, <1>3

\* Where nothing is received, no more responses are whole.
LEMMA CoverPop ==
  ASSUME TypeInv, RecordedInOrder, CoveredSoFar, pc = "next", queue # <<>>, Action.type # "RECV",
         ActionPop, UNCHANGED <<convs, current, verdicts>>
  PROVE  CoveredSoFar'
<1>1. pc \in Running /\ SocketInv
  BY DEF Running, TypeInv
<1>2. Position \in Nat /\ Position' = Position + 1 /\ Script' = Script /\ Script[Position + 1] = Action
  BY <1>1, PopMovesOn
<1>3. ASSUME NEW c \in 1 .. current, NEW i, NEW j,
             Whole(convs[c].queue, convs[c].responses, i, j), c = current => j <= Position + 1
      PROVE  Covered(verdicts, c, Requested(convs[c].queue, i))
  <2>1. CASE c # current
    BY <1>3, <2>1 DEF CoveredSoFar
  <2>2. CASE c = current
    <3>1. /\ InOrder(convs[current]) /\ Script \in Scripts /\ Responses \in Seq(Response)
          /\ Script = convs[current].queue /\ Responses = convs[current].responses
      BY <1>1, InOrderFacts
    <3>2. Whole(Script, Responses, i, j)
      BY <1>3, <2>2, <3>1
    <3>3. Requested(Script, i) \in DOMAIN Responses
      BY <3>1, <3>2 DEF Whole, InOrder
    <3>4. Script[j].type = "RECV" /\ j \in Nat
      BY <3>1, <3>2, <3>3, WholeIsReceived
    <3>5. j # Position + 1
      BY <1>2, <3>4
    <3>6. j <= Position
      BY <1>2, <1>3, <2>2, <3>4, <3>5
    <3> QED
      BY <1>3, <2>2, <3>6 DEF CoveredSoFar
  <2> QED
    BY <2>1, <2>2
<1> QED
  BY <1>2, <1>3 DEF CoveredSoFar

LEMMA CoverReceived ==
  ASSUME ReplayInv, RecordedInOrder, VerdictInv, CoveredSoFar, Received, pc' = "next"
  PROVE  CoveredSoFar'
<1>0. TypeInv /\ HearingInv
  BY DEF ReplayInv
<1>1. pc = "recv" /\ ActionPop /\ UNCHANGED <<convs, current>> /\ Complete(test)
      /\ verdicts' = IF Complete(expected) THEN Append(verdicts, Verdict) ELSE verdicts
  BY DEF Received
<1>2. pc \in Running /\ SocketInv /\ queue # <<>> /\ Action.type = "RECV"
  BY <1>0, <1>1 DEF Running, TypeInv, SocketInv
<1>3. Position \in Nat /\ Position' = Position + 1 /\ Script' = Script /\ Script[Position + 1] = Action
  BY <1>1, <1>2, PopMovesOn
<1>4. Verdict \in Verdicts
  BY <1>1, VerdictType
<1>5. ASSUME NEW c, NEW e, Covered(verdicts, c, e)
      PROVE  Covered(verdicts', c, e)
  BY <1>1, <1>4, <1>5, CoveredStays
<1>a. PICK r, at : r = Responses[requests] /\ at = Position + 1
  OBVIOUS
<1>6. /\ InOrder(convs[current]) /\ Script \in Scripts /\ Responses \in Seq(Response)
      /\ Script = convs[current].queue /\ Responses = convs[current].responses
      /\ at \in 1 .. Len(Script) /\ Script[at] = Action
  <2>1. /\ InOrder(convs[current]) /\ Script \in Scripts /\ Responses \in Seq(Response)
        /\ Script = convs[current].queue /\ Responses = convs[current].responses
        /\ Position + 1 <= Len(Script) /\ Len(Script) \in Nat /\ Script[Position + 1] = Action
    BY <1>0, <1>2, InOrderFacts
  <2> QED
    BY <1>3, <1>a, <2>1
<1>7. /\ requests \in DOMAIN Responses /\ Hears(Script, at, expected, r) /\ r \in Response
      /\ requests = Requested(Script, at)
  <2>1. Following
    BY <1>0, <1>2 DEF HearingInv
  <2>2. CountsOn(Script, Position)
    BY <1>3, RequestedNext
  <2>3. Requested(Script, at) = Requested(Script, Position)
    BY <1>2, <1>3, <1>a, <2>2 DEF CountsOn, Asks
  <2> QED
    BY <1>1, <1>6, <1>a, <2>1, <2>3 DEF Following, At
<1>8. ASSUME NEW i, Whole(Script, Responses, i, at)
      PROVE  Covered(verdicts', current, Requested(Script, i))
  <2>1. Requested(Script, i) = requests /\ Complete(expected)
    BY <1>6, <1>7, <1>8, <1>a, WholeIsComplete
  <2>a. PICK v, ws, n : v = Verdict /\ ws = verdicts' /\ n = Len(verdicts)
    OBVIOUS
  <2>2. /\ ws \in Seq(Verdicts) /\ n \in Nat /\ Len(ws) = n + 1 /\ ws[n + 1] = v
    BY <1>1, <1>4, <2>1, <2>a, AppendProperties DEF VerdictInv
  <2>3. n + 1 \in DOMAIN ws
    BY <2>2
  <2>4. v.conversation = current /\ v.exchange = requests
    BY <2>a DEF Verdict
  <2>5. Script' = Script /\ current' = current
    BY <1>1, <1>3
  <2> QED
    BY <2>1, <2>2, <2>3, <2>4, <2>5, <2>a DEF Covered
<1>9. ASSUME NEW c \in 1 .. current, NEW i, NEW j,
             Whole(convs[c].queue, convs[c].responses, i, j), c = current => j <= at
      PROVE  Covered(verdicts', c, Requested(convs[c].queue, i))
  <2>1. CASE c # current
    BY <1>1, <1>5, <1>9, <2>1 DEF CoveredSoFar
  <2>2. CASE c = current /\ j # at
    <3>1. Whole(Script, Responses, i, j)
      BY <1>6, <1>9, <2>2
    <3>2. Requested(Script, i) \in DOMAIN Responses
      BY <1>6, <3>1 DEF Whole, InOrder
    <3>3. j \in Nat
      BY <1>6, <3>1, <3>2, WholeIsReceived
    <3>4. j <= Position
      BY <1>3, <1>9, <1>a, <2>2, <3>3
    <3>5. Covered(verdicts, c, Requested(convs[c].queue, i))
      BY <1>9, <2>2, <3>4 DEF CoveredSoFar
    <3> QED
      BY <1>1, <1>5, <3>5
  <2>3. CASE c = current /\ j = at
    BY <1>1, <1>3, <1>6, <1>8, <1>9, <2>3
  <2> QED
    BY <2>1, <2>2, <2>3
<1> QED
  BY <1>1, <1>3, <1>9, <1>a DEF CoveredSoFar


LEMMA CoverConversation ==
  ASSUME TypeInv, RecordedInOrder, CoveredSoFar, pc = "next", queue = <<>>,
         NEW c \in 1 .. current, NEW i, NEW j, Whole(convs[c].queue, convs[c].responses, i, j)
  PROVE  Covered(verdicts, c, Requested(convs[c].queue, i))
<1>1. CASE c # current
  BY <1>1 DEF CoveredSoFar
<1>2. CASE c = current
  <2>1. Script \in Scripts /\ Script = convs[current].queue
    BY InOrderFacts DEF Running
  <2>a. PICK n, l : n = Len(Script) /\ l = Len(queue)
    OBVIOUS
  <2>2. n \in Nat /\ l = 0 /\ Position = n - l
    BY <2>1, <2>a DEF Scripts, Position
  <2>3. i \in 1 .. n /\ j \in i .. n
    BY <1>2, <2>1, <2>a DEF Whole, Scripts
  <2>4. j <= Position
    BY <2>2, <2>3
  <2> QED
    BY <2>4 DEF CoveredSoFar
<1> QED
  BY <1>1, <1>2

LEMMA CoverNextConversation ==
  ASSUME TypeInv, TypeInv', CoverInv, NextConversation
  PROVE  CoverInv'
<1> SUFFICES ASSUME RecordedInOrder
             PROVE  (pc' \in Running => CoveredSoFar') /\ EveryResponseIsCompared'
  BY DEF CoverInv, NextConversation, RecordedInOrder
<1>1. pc = "next" /\ queue = <<>> /\ UNCHANGED <<convs, verdicts>>
  BY DEF NextConversation
<1>2. /\ pc \in Running /\ CoveredSoFar /\ SocketInv /\ current \in DOMAIN convs /\ current \in Nat
      /\ convs \in Seq(Conversation)
  <2>1. pc \in Running /\ CoveredSoFar /\ current \in DOMAIN convs /\ SocketInv /\ convs \in Captures
    BY <1>1 DEF CoverInv, Running, TypeInv, SocketInv
  <2> QED
    BY <2>1, CapturesAssumption
<1>3. CASE current < Len(convs)
  <2>a. PICK n : n = Len(queue')
    OBVIOUS
  <2>1. pc' = "next" /\ current' = current + 1 /\ Script' = queue'
    BY <1>3 DEF NextConversation, Script
  <2>2. n \in Nat
    BY <2>1, <2>a DEF TypeInv, SocketInv, Running
  <2>3. Position' = 0
    <3>1. Position' = n - n
      BY <2>1, <2>a DEF Position
    <3> QED
      BY <2>2, <3>1
  <2>4. ASSUME NEW c \in 1 .. current + 1, NEW i, NEW j,
               Whole(convs[c].queue, convs[c].responses, i, j), c = current + 1 => j <= 0
        PROVE  Covered(verdicts, c, Requested(convs[c].queue, i))
    <3>1. CASE c \in 1 .. current
      BY <1>1, <1>2, <2>4, <3>1, CoverConversation
    <3>2. CASE c = current + 1
      <4>a. PICK actions : actions = convs[c].queue
        OBVIOUS
      <4>1. actions \in Scripts
        <5>1. c \in DOMAIN convs /\ convs \in Captures
          BY <1>2, <1>3, <3>2 DEF SocketInv
        <5> QED
          BY <4>a, <5>1, ScriptType DEF Scripts
      <4>2. i \in 1 .. Len(actions) /\ j \in i .. Len(actions) /\ Len(actions) \in Nat
        BY <2>4, <4>1, <4>a DEF Whole, Scripts
      <4> QED
        BY <2>4, <3>2, <4>2
    <3> QED
      BY <1>2, <3>1, <3>2
  <2>5. CoveredSoFar'
    BY <1>1, <2>1, <2>3, <2>4 DEF CoveredSoFar
  <2> QED
    BY <2>1, <2>5 DEF EveryResponseIsCompared
<1>4. CASE ~(current < Len(convs))
  <2>1. pc' = "done"
    BY <1>4 DEF NextConversation
  <2>2. current = Len(convs)
    BY <1>2, <1>4
  <2>3. ASSUME NEW c \in DOMAIN convs, NEW e \in DOMAIN convs[c].responses, HeardAsSent(c, e)
        PROVE  Covered(verdicts, c, e)
    <3>a. PICK actions : actions = convs[c].queue
      OBVIOUS
    <3>1. PICK i \in DOMAIN actions : \E j \in i .. Len(actions) :
            /\ Asks(actions[i]) /\ Requested(actions, i) = e
            /\ \A k \in i + 1 .. j : actions[k].type = "RECV"
            /\ Packets(actions, i, j) = Encode(convs[c].responses[e])
      BY <2>3, <3>a DEF HeardAsSent
    <3>2. PICK j \in i .. Len(actions) :
            /\ Asks(actions[i]) /\ Requested(actions, i) = e
            /\ \A k \in i + 1 .. j : actions[k].type = "RECV"
            /\ Packets(actions, i, j) = Encode(convs[c].responses[e])
      BY <3>1
    <3>3. Whole(actions, convs[c].responses, i, j)
      BY <3>2 DEF Whole
    <3>4. c \in 1 .. current
      BY <1>2, <2>2
    <3>5. Covered(verdicts, c, Requested(actions, i))
      BY <1>1, <1>2, <3>3, <3>4, <3>a, CoverConversation
    <3> QED
      BY <3>2, <3>5
  <2>4. EveryResponseIsCompared
    BY <2>3 DEF EveryResponseIsCompared, Covered
  <2>5. \A c \in DOMAIN convs : \A e \in DOMAIN convs[c].responses :
          HeardAsSent(c, e) => Covered(verdicts, c, e)
    BY <2>3
  <2>6. EveryResponseIsCompared'
    BY <1>1, <2>5 DEF EveryResponseIsCompared, Covered, HeardAsSent
  <2> QED
    BY <2>1, <2>6 DEF Running
<1> QED
  BY <1>3, <1>4

LEMMA CoverSteady ==
  ASSUME CoverInv, UNCHANGED <<convs, current, queue, verdicts>>,
         \/ pc' = pc
         \/ pc \in Running /\ pc' = "recv"
         \/ pc' \notin Running \cup {"done"}
  PROVE  CoverInv'
<1>1. /\ RecordedInOrder' <=> RecordedInOrder
      /\ CoveredSoFar' <=> CoveredSoFar
  BY DEF RecordedInOrder, CoveredSoFar, Position, Script
<1> QED
  BY <1>1 DEF CoverInv, EveryResponseIsCompared, HeardAsSent, Running

LEMMA CoverNext ==
  ASSUME OneAtATime, ReplayInv, TypeInv', VerdictInv, CoverInv, [Next]_vars
  PROVE  CoverInv'
<1>0. TypeInv /\ ExchangeInv
  BY DEF ReplayInv
<1>a. \A r : Fates(r) \subseteq {"recv", "failed", "crashed"}
  BY DEF Fates, FateOf
<1>1. CASE EndOfStream \/ IoFails \/ HangUp \/ ConnectFails \/ Answering \/ UNCHANGED vars
  <2>1. /\ UNCHANGED <<convs, current, queue, verdicts>>
        /\ pc' = pc \/ pc' \notin Running \cup {"done"}
    BY <1>1
    DEF EndOfStream, IoFails, HangUp, ConnectFails, Answering, Answer, Running, client, history, vars
  <2> QED
    BY <2>1, CoverSteady
<1>2. CASE Expect \/ \E n \in 1 .. BUFSIZ : Read(n)
  <2>1. /\ UNCHANGED <<convs, current, queue, verdicts>>
        /\ pc \in Running /\ pc' \in {"recv", "failed", "crashed"}
    BY <1>2, <1>a DEF Expect, Read, AtAction, Running, history
  <2> QED
    BY <2>1, CoverSteady DEF Running
<1>3. ASSUME pc = "next", queue # <<>>, Action.type # "RECV", ActionPop,
             pc' = "next", UNCHANGED <<convs, current, verdicts>>
      PROVE  CoverInv'
  <2>1. RecordedInOrder' => RecordedInOrder
    BY <1>3 DEF RecordedInOrder
  <2>2. RecordedInOrder => CoveredSoFar
    BY <1>3 DEF CoverInv, Running
  <2>3. RecordedInOrder => CoveredSoFar'
    BY <1>0, <1>3, <2>2, CoverPop
  <2> QED
    BY <1>3, <2>1, <2>3 DEF CoverInv, EveryResponseIsCompared
<1>4. CASE Connect \/ Close
  BY <1>3, <1>4 DEF Connect, Close, AtAction, Action, history
<1>5. ASSUME NEW n \in 1 .. MaxWrite, Write(n)
      PROVE  CoverInv'
  <2>1. /\ pc = "next" /\ pc' = "next" /\ queue # <<>> /\ Action.type = "SEND"
        /\ UNCHANGED <<convs, current, verdicts>>
        /\ ActionPop \/ UNCHANGED queue
    BY <1>0, <1>5, WriteFacts DEF ExchangeInv
  <2> QED
    BY <1>3, <2>1, CoverSteady
<1>6. CASE Received
  <2>1. /\ UNCHANGED <<convs, current>>
        /\ pc = "recv" /\ pc' \in {"failed", "next"}
    BY <1>6 DEF Received
  <2>2. RecordedInOrder' => RecordedInOrder
    BY <2>1 DEF RecordedInOrder
  <2>3. RecordedInOrder => CoveredSoFar
    BY <2>1 DEF CoverInv, Running
  <2>4. RecordedInOrder /\ pc' = "next" => CoveredSoFar'
    BY <1>6, <2>3, CoverReceived
  <2> QED
    BY <2>1, <2>2, <2>4 DEF CoverInv, EveryResponseIsCompared, Running
<1> QED
  BY <1>0, <1>1, <1>2, <1>4, <1>5, <1>6, CoverNextConversation
  DEF Next, ClientStep, ClientFails

LEMMA CoverInit == Init => CoverInv
<1> SUFFICES ASSUME Init
             PROVE  CoverInv
  OBVIOUS
<1>1. CASE convs = <<>>
  <2>1. pc = "done"
    BY <1>1 DEF Init
  <2> QED
    BY <1>1, <2>1 DEF CoverInv, EveryResponseIsCompared, Running
<1>2. CASE convs # <<>>
  <2>a. PICK n : n = Len(queue)
    OBVIOUS
  <2>1. pc = "next" /\ current = 1 /\ queue = Script
    BY <1>2 DEF Init, Script
  <2>2. n \in Nat /\ Script \in Scripts
    BY <2>1, <2>a, TypeInit DEF TypeInv, SocketInv, Running, Scripts
  <2>3. Position = 0
    BY <2>1, <2>2, <2>a DEF Position
  <2>4. ASSUME NEW c \in 1 .. current, NEW i, NEW j,
               Whole(convs[c].queue, convs[c].responses, i, j), j <= 0
        PROVE  FALSE
    <3>1. i \in 1 .. n /\ j \in i .. n
      BY <2>1, <2>2, <2>4, <2>a DEF Whole, Scripts, Script
    <3> QED
      BY <2>2, <2>4, <3>1
  <2>5. CoveredSoFar
    BY <2>1, <2>3, <2>4 DEF CoveredSoFar
  <2> QED
    BY <2>1, <2>5 DEF CoverInv, EveryResponseIsCompared
<1> QED
  BY <1>1, <1>2

\* main() and replay(): a run that ends well has compared every response of
\* every conversation that was recorded whole, however many packets it was
\* recorded in and whatever the server answered.
THEOREM AllResponsesCompared ==
  ASSUME OneAtATime
  PROVE  Spec => [](RecordedInOrder => EveryResponseIsCompared)
<1>1. Init => VerdictInv /\ CoverInv
  BY VerdictInit, CoverInit
<1>2. ReplayInv /\ ReplayInv' /\ VerdictInv /\ CoverInv /\ [Next]_vars => VerdictInv' /\ CoverInv'
  BY VerdictNext, CoverNext DEF ReplayInv
<1>3. CoverInv => (RecordedInOrder => EveryResponseIsCompared)
  BY DEF CoverInv
<1> QED
  BY <1>1, <1>2, <1>3, ReplayInvariant, PTL DEF Spec

================================================================================
