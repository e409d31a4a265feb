------------------------- MODULE ConversationSerializer -------------------------
(***************************************************************************)
(* A recorded conversation written to a file, edited there by hand, and    *)
(* read back (conversation_serializer.cc, properties.cc).  The reader      *)
(* looks for the end of the data in a buffer of fixed size which it        *)
(* refills; it is modelled one refill at a time.                           *)
(*                                                                         *)
(* The file is a sequence of symbols.  Bytes are their ASCII codes; the    *)
(* lines with a fixed text are one symbol each, below zero.  The headers,  *)
(* which stand in front of the first blank line, are a record.             *)
(***************************************************************************)
EXTENDS Base64, ByteOrder

CONSTANTS
  Conversations,  \* what may be written: protocol, test port, actions
  EndTag,         \* data_end_tag_, as bytes
  BUFSIZ,         \* size of the reader's buffer
  Window          \* the 50 of write_action

Delim == EndTag[Len(EndTag)]

ASSUME EndTagAssumption ==
  /\ EndTag \in Seq(0 .. 255) /\ Len(EndTag) > 1
  /\ \A i \in 1 .. Len(EndTag) - 1 : EndTag[i] # Delim
  /\ Delim \notin Letters \cup {Padding}
ASSUME SizeAssumption ==
  BUFSIZ \in Nat /\ BUFSIZ > Len(EndTag) + 2 /\ Window \in Nat \ {0}

ActionTypes == <<"CONNECT", "SEND", "RECV", "CLOSE">>

NL            == 10
TypeLine(t)   == -(CHOOSE i \in DOMAIN ActionTypes : ActionTypes[i] = t)
StartLine     == -5   \* data_start_tag_
EncodingLine  == -6   \* "Encoding: BASE64"
SeparatorLine == -7   \* "####..."

Prefix == <<36, 123>>   \* subPrefix_, "${"
Suffix == <<125>>       \* subSuffix_, "}"

VARIABLES
  pc,        \* where the program is
  conv,      \* the conversation that is written, with what was added by hand
  address,   \* the TestAddress header: none, or its family
  file,      \* what the file holds after the headers
  input,     \* what of it has not been read yet
  action,    \* the action being read: its type, and whether it is encoded
  data, buf, at,   \* locals of read_action_data; buf as far as it is ever used
                   \* again, at for read_ptr and size
  test_port, \* of the conversation read
  queue      \* and its actions

reader == <<action, data, buf, at>>
vars   == <<pc, conv, address, file, input, reader, test_port, queue>>

-----------------------------------------------------------------------------
(* write.                                                                  *)

Printable == 32 .. 126
Space     == 9 .. 13 \cup {32}

\* Only the end of the data is looked at.  The index is compared with the
\* unsigned size - Window, so that less than that is never binary.
IsBinary(d) ==
  /\ Len(d) >= Window
  /\ \E i \in Len(d) - Window + 2 .. Len(d) :
       d[i] \in 0 .. 255 \ (Printable \cup Space)

Stored(d) == IF IsBinary(d) THEN ToBase64(d) ELSE d

\* Data is bytes; what reads like a line of the file may be in text only.
Data   == {d \in Seq(SeparatorLine .. 255) : IsBinary(d) => d \in Seq(0 .. 255)}
Action == [type : Range(ActionTypes), data : Data]

ASSUME ConversationsAssumption ==
  Conversations \subseteq
    [protocol : {"TCP", "UDP"}, test_port : Word, actions : Seq(Action)]

WriteAction(a) ==
  <<TypeLine(a.type), NL>>
  \o (IF IsBinary(a.data) THEN <<EncodingLine, NL>> ELSE <<>>)
  \o <<StartLine, NL>> \o Stored(a.data) \o EndTag \o <<NL>>

Written(actions) ==
  FlattenSeq([i \in DOMAIN actions |->
                <<NL, SeparatorLine, NL, NL>> \o WriteAction(actions[i])])

Init ==
  /\ pc = "write" /\ conv \in Conversations
  /\ address = "none" /\ file = <<>> /\ input = <<>>
  /\ action = [type |-> "NONE", encoded |-> FALSE]
  /\ data = <<>> /\ at = 0
  /\ buf = [i \in 0 .. Len(EndTag) |-> -99]   \* nothing in particular
  /\ test_port = 0 /\ queue = <<>>

Write ==
  /\ pc = "write" /\ pc' = "edit"
  /\ file' = Written(conv.actions)
  /\ UNCHANGED <<conv, address, input, reader, test_port, queue>>

-----------------------------------------------------------------------------
(* What a user may do with the file (external): say where to replay to,    *)
(* type something between the tags of actions without data.  It may also   *)
(* have been written in part only: the writer does not look at the state   *)
(* of the stream.                                                          *)

Filled(actions, something) ==
  [i \in DOMAIN actions |->
     IF actions[i].data = <<>> THEN [actions[i] EXCEPT !.data = something]
                               ELSE actions[i]]

Edit ==
  /\ pc = "edit" /\ pc' = "headers"
  /\ address' \in {"none", "v4", "v6"}
  /\ \E something \in {<<>>, <<45>>} :
       conv' = [conv EXCEPT !.actions = Filled(@, something)]
  /\ \E n \in 0 .. Len(Written(conv'.actions)) :
       file' = SubSeq(Written(conv'.actions), 1, n)
  /\ input' = file'
  /\ UNCHANGED <<reader, test_port, queue>>

-----------------------------------------------------------------------------
(* read.                                                                   *)

\* write_headers: the port is written in host order.
TestPortHeader == Htons(conv.test_port)

\* Mutant: the protocol is not looked at.
ReadHeadersAny ==
  /\ pc = "headers"
  /\ IF address = "v4"
     THEN pc' = "type" /\ test_port' = Htons(TestPortHeader)
     ELSE pc' = "threw" /\ UNCHANGED test_port
  /\ UNCHANGED <<conv, address, file, input, reader, queue>>

\* It goes through htons again.
ReadHeaders ==
  /\ pc = "headers"
  /\ IF address = "v4" /\ conv.protocol = "TCP"
     THEN pc' = "type" /\ test_port' = Htons(TestPortHeader)
     ELSE pc' = "threw" /\ UNCHANGED test_port
  /\ UNCHANGED <<conv, address, file, input, reader, queue>>

\* std::getline: where the first line ends, by its NL or with the file.
LineEnd == Min({i \in DOMAIN input : input[i] = NL} \cup {Len(input) + 1})

Line ==
  LET solid == {i \in 1 .. LineEnd - 1 : input[i] \notin Space}
  IN  IF solid = {} THEN <<>> ELSE SubSeq(input, Min(solid), Max(solid))

TakeLine ==
  /\ input # <<>>
  /\ input' = SubSeq(input, LineEnd + 1, Len(input))

\* Blank lines and comments.
Skipped(line) == line # <<>> => line[1] \in {35, SeparatorLine}

ReadType ==
  /\ pc = "type"
  /\ \/ input = <<>> /\ pc' = "done" /\ UNCHANGED <<input, action>>
     \/ TakeLine /\ Skipped(Line) /\ UNCHANGED <<pc, action>>
     \/ /\ TakeLine
        /\ \E t \in DOMAIN ActionTypes :
             /\ Line = <<TypeLine(ActionTypes[t])>>
             /\ action' = [type |-> ActionTypes[t], encoded |-> FALSE]
        /\ pc' = "properties"
     \/ /\ TakeLine /\ ~Skipped(Line)
        /\ \A t \in DOMAIN ActionTypes : Line # <<TypeLine(ActionTypes[t])>>
        /\ pc' = "threw" /\ UNCHANGED action
  /\ UNCHANGED <<conv, address, file, data, buf, at, test_port, queue>>

\* std::string_view::find: the first place from i on, or 0.
FindFrom(d, what, i) ==
  LET found == {j \in i .. Len(d) - Len(what) + 1 :
                  SubSeq(d, j, j + Len(what) - 1) = what}
  IN  IF found = {} THEN 0 ELSE Min(found)

\* A placeholder from its first byte to the one behind its last.  The second
\* argument of substr is a count, not an end.
Token(d, b, e) ==
  [begin |-> b, end |-> e + Len(Suffix),
   token |-> SubSeq(d, b + Len(Prefix), Min({b + Len(Prefix) + e - 2, Len(d)}))]

\* Mutant: the search goes on behind the prefix it has just found.
SubTokensNested(d) ==
  LET tokens[i \in 1 .. Len(d) + 1] ==
        LET b == FindFrom(d, Prefix, i)
            e == IF b = 0 THEN 0 ELSE FindFrom(d, Suffix, b + Len(Prefix))
        IN  IF e = 0 THEN <<>>
            ELSE <<Token(d, b, e)>> \o tokens[b + Len(Prefix)]
  IN  tokens[1]

\* create_action.
SubTokens(d) ==
  LET tokens[i \in 1 .. Len(d) + 1] ==
        LET b == FindFrom(d, Prefix, i)
            e == IF b = 0 THEN 0 ELSE FindFrom(d, Suffix, b + Len(Prefix))
        IN  IF e = 0 THEN <<>>
            ELSE <<Token(d, b, e)>> \o tokens[e + Len(Suffix)]
  IN  tokens[1]

\* The end of an iteration of read_actions: what was between the tags is
\* decoded and pushed.
ActionPush(d) ==
  IF action.encoded /\ InvalidBase64(d)
  THEN pc' = "threw" /\ UNCHANGED queue
  ELSE LET content == IF action.encoded THEN FromBase64(d) ELSE d
       IN  /\ queue' = Append(queue, [type |-> action.type, data |-> content,
                                      tokens |-> SubTokens(content)])
           /\ pc' = "type"

\* A line that is neither the start tag nor the encoding changes nothing.  What
\* the buffer holds when read_action_data starts is not defined: it may be what
\* the previous call left.
ReadProperty ==
  /\ pc = "properties"
  /\ \/ /\ input = <<>> /\ ActionPush(<<>>)
        /\ UNCHANGED <<input, reader>>
     \/ /\ TakeLine /\ Line = <<StartLine>>
        /\ pc' = "data" /\ data' = <<>> /\ at' = 0
        /\ buf' \in {buf, [i \in 0 .. Len(EndTag) |-> -99]}
        /\ UNCHANGED <<action, queue>>
     \/ /\ TakeLine /\ Line # <<StartLine>>
        /\ action' = [action EXCEPT !.encoded = @ \/ Line = <<EncodingLine>>]
        /\ UNCHANGED <<pc, data, buf, at, queue>>
  /\ UNCHANGED <<conv, address, file, test_port>>

-----------------------------------------------------------------------------
(* read_action_data: an iteration of its loop.                             *)

\* Mutant: istream::getline, which takes the delimiter as well.
ChunkAndDelim(n) ==
  LET stops == {i \in DOMAIN input : input[i] = Delim}
  IN  SubSeq(input, 1, Min({n, Len(input)} \cup stops))

\* istream::get: what comes before the delimiter, at most n symbols.
Chunk(n) ==
  LET stops == {i \in DOMAIN input : input[i] = Delim}
  IN  SubSeq(input, 1, Min({n, Len(input)} \cup {i - 1 : i \in stops}))

\* Is what stands in front of the next symbol, with it, the end tag?  held is
\* the buffer, rest the input from that symbol on, d the data so far.
CheckTag(held, rest, d) ==
  LET T    == Len(EndTag)
      next == IF rest = <<>> THEN -1 ELSE rest[1]
      full == [held EXCEPT ![T] = next]
  IN  /\ input' = SubSeq(rest, 2, Len(rest))
      /\ buf' = full
      /\ IF \A i \in 1 .. T : full[i] = EndTag[i]
         THEN /\ ActionPush(Append(d, full[0]))
              /\ UNCHANGED <<data, at>>
         ELSE IF rest = <<>>
         THEN /\ ActionPush(d)
              /\ UNCHANGED <<data, at>>
         ELSE /\ data' = d /\ at' = T + 1
              /\ UNCHANGED <<pc, queue>>

\* The last symbols of what is in the buffer are held back.  A range that ends
\* before it starts makes vector::insert throw.  The memcpy that holds them back
\* may copy onto itself; glibc's loads so few bytes before it stores any.
ReadData ==
  /\ pc = "data"
  /\ IF input # <<>> /\ input[1] = Delim
     THEN CheckTag(buf, input, data)
     ELSE LET T     == Len(EndTag)
              room  == BUFSIZ - at - 1
              chunk == Chunk(room)
              text  == [i \in 1 .. at |-> buf[i - 1]] \o chunk
              hold  == Len(text) - T
              held  == [i \in 0 .. T |-> IF i < T THEN text[hold + i + 1] ELSE buf[T]]
              rest  == SubSeq(input, Len(chunk) + 1, Len(input))
              more  == data \o SubSeq(text, 1, hold)
          IN  IF chunk = <<>> \/ hold < 0
              THEN pc' = "threw" /\ UNCHANGED <<input, data, buf, at, queue>>
              ELSE IF Len(chunk) # room
              THEN CheckTag(held, rest, more)
              ELSE /\ input' = rest /\ data' = more /\ buf' = held /\ at' = T
                   /\ UNCHANGED <<pc, queue>>
  /\ UNCHANGED <<conv, address, file, action, test_port>>

-----------------------------------------------------------------------------

Next == Write \/ Edit \/ ReadHeaders \/ ReadType \/ ReadProperty \/ ReadData

Spec == Init /\ [][Next]_vars

-----------------------------------------------------------------------------
(* Properties.                                                             *)

\* Data that can be told from its end tag: there is some, its first '>' is not
\* among the first bytes, no two of them follow each other, and no end tag is
\* in it.
Legible(d) ==
  LET text  == Stored(d) \o EndTag
      stops == {i \in DOMAIN text : text[i] = Delim}
  IN  /\ Min(stops) > Len(EndTag)
      /\ \A i \in stops : i + 1 \notin stops
      /\ FindFrom(text, EndTag, 1) = Len(Stored(d)) + 1

\* Did the file keep the i-th action up to its end tag?
Kept(i) == Len(file) >= Len(Written(SubSeq(conv.actions, 1, i))) - 1

Intact(n) == \A i \in 1 .. n : Kept(i) /\ Legible(conv.actions[i].data)

Same(i) ==
  /\ i \in DOMAIN conv.actions
  /\ queue[i].type = conv.actions[i].type
  /\ queue[i].data = conv.actions[i].data

\* conversation_serializer.cc, read_action_data: whatever bytes the data has and
\* wherever the buffer ends among them, what is read is what was written, up
\* to the first action that the file does not hold or whose data cannot be
\* told from its end tag.
ReadsAsWritten == \A i \in DOMAIN queue : Intact(i) => Same(i)

IsBack ==
  /\ pc = "done" /\ test_port = conv.test_port
  /\ Len(queue) = Len(conv.actions) /\ \A i \in DOMAIN queue : Same(i)

\* ConversationSerializer::write and read: the conversation comes back, without
\* an exception and with nothing before, between or behind its actions, when it
\* is TCP, an IPv4 test address was added, and the file holds every action and
\* its data can be told from its end tag.
ComesBack ==
  /\ pc \in {"done", "threw"}
  /\ conv.protocol = "TCP" /\ address = "v4" /\ Intact(Len(conv.actions))
  => IsBack

\* And from a complete file only then; so never when an action without data
\* (CONNECT, CLOSE) is left as it was written.
OnlyThenComesBack ==
  IsBack /\ file = Written(conv.actions) =>
    conv.protocol = "TCP" /\ address = "v4" /\ Intact(Len(conv.actions))

IsPlaceholder(d, b, e) ==
  /\ e - b >= Len(Prefix) + Len(Suffix)
  /\ SubSeq(d, b, b + Len(Prefix) - 1) = Prefix
  /\ FindFrom(d, Suffix, b + Len(Prefix)) = e - Len(Suffix)

\* conversation_serializer.cc, create_action: the sub-tokens of an action are
\* placeholders, one after the other without overlap, and no placeholder begins
\* outside them.
TokensArePlaceholders ==
  \A q \in 1 .. Len(queue) :
    LET d == queue[q].data   t == queue[q].tokens
    IN  /\ \A i \in DOMAIN t : IsPlaceholder(d, t[i].begin, t[i].end)
        /\ \A i \in 1 .. Len(t) - 1 : t[i].end <= t[i + 1].begin
        /\ \A b \in DOMAIN d, e \in 1 .. Len(d) + 1 :
             IsPlaceholder(d, b, e) =>
               \E i \in DOMAIN t : t[i].begin <= b /\ b < t[i].end

=============================================================================
