# A specification of packet-replay

packet-replay records the TCP or UDP conversations of a pcap file as scripts of
actions (CONNECT, SEND, RECV, CLOSE) and replays them, as the client, against a
test server; the server's answers are compared with the captured ones. This
directory models it in TLA+, checks the models with TLC on small instances, and
proves with TLAPS, for every capture and every behaviour of network and server,
what recording guarantees, how both replay programs use their sockets, and what
they report of the server's answers.

Paths below are relative to the repository (`src/` is its sources directory).

## 1. Inventory

| Component | State | Operations | Hard behaviour | What makes it correct |
|---|---|---|---|---|
| Network layers (`src/include/network_layers.h`, `transport_packet.h`) | a view on the bytes of one frame | accessors for addresses, ports, flags, payload | lengths and offsets taken from headers, IPv6 | payload and endpoints are those of the packet |
| Conversation factory (`src/lib/conversation_factory.cc`) | none | `tcpIpGetKey`, `tcpIpGetTargetTestServerKeys`, `parseIpV4Spec`, `parseIpV6Spec` | two directions, one key; byte order; missing parts of an option | one conversation per pair of endpoints; options mean what the manual says |
| Conversation store (`src/include/conversation_store.h`) | `test_servers_`, `conversations_` | `addTargetTestServer`, `getConversation`, `getConversations` | the decision to record depends on what was recorded before | only what was asked for is recorded, for the server asked for |
| Conversations (`src/lib/tcp_conversation.cc`, `udp_conversation.cc`) | `cap_tcp_state_`, `action_queue_`, addresses and ports | `processCapturePacket` and one handler per TCP state | streams joined halfway, retransmissions, resets, reopened connections | the queue can be replayed; sides are not mixed up |
| Capture (`src/lib/capture.cc`) | `datalink_type_` | `load`, `packetHandler` | cut frames, foreign protocols | every packet goes to its conversation, nothing else does |
| HTTP replay client (`src/http_replay/http_replay.cc`) | `socket_`, two response processors, the queue | `replay` | partial writes and reads, a server that differs, fails or hangs up | uses only an open socket; ends; reports exactly the differences |
| HTTP response processor (`src/http_replay/http_response_processor.cc`) | header so far, status, payload processor | `processData`, `reset`, `complete`, `compare` | data cut anywhere; reuse for the next response | complete exactly when the response is, with its payload |
| UDP replay client (`src/udp_replay/udp_replay.cc`) | `socket_`, a shared validator | `replay` | loss, blocking `recvfrom`, ownership of the validator | ends; validates with a live validator |
| Packet validator, Python API (`src/lib/packet_validator.cc`, `python_api.cc`) | a Python function | `validate`, the `-k` option | reference counts, a function that is not there | a verdict per packet |
| Serializer, properties, base64 (`src/lib/conversation_serializer.cc`, `properties.cc`, `src/include/base64.h`) | a buffer, the data so far | `write`, `read` | end-tag search over a buffer boundary, binary data, truncated files, sub-tokens | what is written can be read back |

How they interact: `main` of each program reads options into the store, then
calls `Capture::load`; libpcap calls `packetHandler` back for each frame, which
asks the store for the packet's conversation and passes the packet on; after
loading, `main` takes the conversations one by one and gives each to a replay
client, which pops its action queue and drives a socket. All of it is one
thread: the concurrency is with the capture's two hosts (recording) and with
the live server (replaying). An exception anywhere ends the program.

The hazards are listed in `PROJECT.json`, each with its line and the
properties that cover it.

## 2. Modules

| Module | Models | Used by |
|---|---|---|
| `ByteOrder` | 16-bit words and `htons` | `NetworkLayers`, `ConversationSerializer` |
| `NetworkLayers` | packets and frames as the layer classes show them | `ConversationFactory`, `FrameLayers` |
| `FrameLayers` | from the headers of a frame to its payload: `getData` and `getDataSize` of each layer | `Capture` |
| `ConversationFactory` | keys, server keys, both forms of the `-c` option with their byte swaps | `PacketConversation` |
| `PacketConversation` | the conversation object; one operator per TCP state handler, and the UDP handler | `Capture` |
| `ActionScript` | when a queue of actions can be replayed | `Capture`, `HttpReplay` |
| `Capture` | the recording state machine: options, loading, one frame at a time | `CaptureScript`, `MCCapture`, `RecordedConnection` |
| `ConversationScript` | abstract: a script that opens, uses and ends connections | `CaptureScript` |
| `CaptureScript` | the refinement mapping of one conversation | `CaptureProofs`, `MCCaptureScript` |
| `CaptureProofs` | theorems: types, scripts, connections, refinement; keys, sides, payloads, which conversations are recorded; from the option to the test server | `RecordedConnectionProofs` |
| `RecordedConnection` | two TCP hosts, channels that lose and reorder, a tap, composed with `Capture` | `MCRecordedConnection`, `RecordedConnectionProofs` |
| `RecordedConnectionProofs` | theorems: what a script holds of what was said, and the order of requests and responses | |
| `HttpResponseProcessor` | the incremental response parser as operators on the object | `HttpReplay` |
| `HttpReplay` | the replay loop, the socket, the server | `MCHttpReplay`, `HttpReplayProofs` |
| `HttpReplayProofs` | theorems: the socket, the descriptors, the response parser, the types | `HttpExchangeProofs` |
| `HttpExchangeProofs` | theorems: a response from the wire to the comparison | |
| `UdpReplay` | the `-k` options, the UDP clients of `main`'s loop, their shared validator, the network | `MCUdpReplay`, `UdpReplayProofs` |
| `UdpReplayProofs` | theorems: sockets, differences reported, waiting | |
| `SequenceLemmas` | inductions over sets, and what folds over sequences and loops that use something up compute | `HttpReplayProofs`, `UdpReplayProofs`, `Base64Proofs` |
| `Base64` | `base64.h`: groups of three bytes and four letters | `ConversationSerializer`, `Base64Proofs` |
| `Base64Proofs` | theorems: a group, and a text of any length, decodes to what was encoded | `ConversationSerializerProofs` |
| `ConversationSerializer` | writing a script, editing it by hand, reading it back | `MCConversationSerializer`, `ConversationSerializerProofs` |
| `ConversationSerializerProofs` | theorems: placeholders, what is read of a file, and when all of it | |
| `MCCapture`, `MCCaptureScript`, `MCRecordedConnection`, `MCHttpReplay`, `MCUdpReplay`, `MCConversationSerializer` | values for TLC | |

### Recording

A packet is a record of what the layer accessors return. Addresses and ports
are numbers, ports as stored in the header (network order): `htons` is modelled
as the byte swap it is. A payload carries the endpoint that sent it, which
no handler looks at; properties use it to say where recorded data comes from.

`FrameLayers` is what stands below that: a frame is a record of the header fields
the layer classes read (`ip_hl`, `ip_len`, `th_off`, ...) and of where the payload
its sender put there lies. A layer is a view (position, size); `Payload` follows
the accessors from header to header, and what it arrives at is the payload,
nothing, or `Garbled`, any other slice of the frame.

A `-c` option is a sequence of tokens. A token is known by what `inet_pton` and
`stoul` answer for it. The IPv4 form is split at every colon before it is looked
at; the IPv6 form keeps its brackets and colons as marks, and `Parts`
follows the parser's search for them, with its quirks: `[a` reads through a null
pointer (`CrashOnSpec`), `[a]:80:[b]` is refused (so that the test port cannot be
left out as README line 41 says it can), and `[a]b` is accepted.

`PacketConversation` is the object as a record (`cap_src_addr`, ..., `action_queue`);
a handler is an operator from object and packet to the object afterwards.
`Capture` has `test_servers` and `conversations` (the store's two maps) and a
`phase` for the program counter of `main`:

| Action | Code |
|---|---|
| `AddTargetTestServer`, `RejectSpec`, `CrashOnSpec` | the option loop of `main` with `parseIpV4Spec` and `parseIpV6Spec` |
| `OpenCapture`, `EndOfCapture`, `LoadFails` | `Capture::load` |
| `RecordPacket` | `packetHandler` with `getConversation` and `processCapturePacket`, as one step |
| `SkipPacket`, `IgnoreFrame`, `CutFrame` | `packetHandler` for a packet of no conversation, for a frame it does not look into, and for one that was cut |

The history variables (`given`, `first_packet`, `first_request`, `initiator`,
`resets`) are written and never read by the actions, except that `resets` is
bounded.

A capture is *any* sequence out of `Frames`. Nothing makes the hosts behave:
missing packets, retransmissions and streams joined halfway are all there.

### Recording beside a connection

`RecordedConnection` answers the question `Capture` leaves open: what a script holds
of what two hosts really said. A client and a server talk TCP; the tap stands
beside one of them and sees segments as they leave or as they arrive. Every frame
it sees goes through `FrameLayers` and `RecordPacket` at once (the file is read
later, in the same order).

| Action | What it stands for |
|---|---|
| `Open`, `Say`, `Finish`, `Acknowledge`, `Retransmit` | a TCP host: handshake, a message (with or without FIN), FIN, an acknowledgement, the oldest unacknowledged segment again |
| `ResetConnection` | a host gives up |
| `Deliver` | a segment arrives, past the tap |
| `Lose`, `Overtake` | the network |

None of this is in the repository; only `RecordPacket` is. The properties say
exactly how far the recorder, which looks at no sequence number, can be trusted:

- `OnlyWhatWasSaid`: an action holds a message, whole, of the side it is filed under.
- `ScriptIsWhatTheTapHeard`: it records every segment's data once for each time it
  passed, from the segment *after* the one that ends the handshake up to the first
  FIN. A request in that segment (TCP allows it; a lost ACK makes it happen), and
  data after the first FIN, are missing from the script; a retransmitted request is in it twice.
- `RequestsAreInOrder`: beside the client, with a first request that did not come
  with the handshake, requests are first sent in their order and none is skipped.
  Beside the server an overtaken request is recorded out of order.
- `ResponsesFollowRequests`: at either end, a response comes after its request.

### Replaying HTTP

`HttpReplay` has the locals of `replay` (`socket`, `nwrite`, `expected`, `test`),
the queue and the loop over conversations, the program's descriptors, and the
connection (`inbox`, `wire`, `hung_up`).

| Action | Code |
|---|---|
| `Connect`, `ConnectFails`, `Close` | the CONNECT and CLOSE cases |
| `Write(n)` | one `write()`; the last one of an action also resets both processors and pops |
| `Expect` | the start of RECV: the captured packet goes to `expected_processor` |
| `Read(n)`, `EndOfStream` | one `read()` of the loop, and the one that returns 0 |
| `Received` | the loop is left: compare, report, pop |
| `IoFails` | an error of `write()` or `read()`, SIGPIPE included |
| `NextConversation` | `main`'s loop, a new client |
| `Answer`, `HangUp` | the server (not in the repository) |

A response is a sequence of symbols: the header text is one, a chunk size is
one, everything else is a byte. The end of the header and of each line are
real CR and LF symbols, and payloads may hold CR and LF as well. Calls
that end in an exception set `fate` to "throw" and end the program; use of
the null `data_processor_` is "crash"; bytes written behind the payload buffer
may crash or not.

Much of what one would like to say of a replay is true only of some traffic. What
that is has names in `HttpReplay`, in the part "The traffic the code is written for":

- `OneAtATime`: scripts take turns (a RECV follows its request, which a RECV follows),
  every answer says where it ends, header and chunk size lines are read in one piece, and a
  server does not go from a content-length to chunks within a conversation.
- `RecordedInOrder`: the packets of each captured response were recorded once each, in
  order, and those of a response whose rest was lost are followed by no other RECV.
- `NoNul`: no captured chunked payload holds a NUL byte.
- `HeardAsSent(c, e)`: the packets of one response begin with the whole of it, each once.

`MCHttpReplay` has TLC evaluate that the captures of the run satisfy `OneAtATime`, and all but
the two of `RecordedTwice` (where a packet was recorded again) the others.

The assumption `CapturesAssumption` of `HttpReplay`, that recorded scripts are
well formed sequences of actions, is what the theorems `TypeCorrect` and
`WellFormedScripts` say of `Capture`.

### Replaying UDP

`UdpReplay` has the `-k` options, `main`'s loop (`current`, `pc`), the client's queue, the sockets
(`fds`, one number per client), the validator (`kind`, and whether it is `live` or
`freed`), and the datagrams under way (`up`, `down`).

| Action | Code |
|---|---|
| `ParseValidator`, `RejectValidator`, `StartReplaying` | the `-k` options of `main` with `parseValidator` and the constructor of `PythonCall` |
| `NewClient`, `SocketFails`, `MainReturns` | `main`'s loop and the constructor |
| `Send`, `Receive` | the SEND and RECV cases; `Receive` includes the comparison |
| `ValidateThrows` | `ValidatePythonCall::validate` throws: no such function, an exception in it, no bool |
| `ReplayReturns`, `ReplayThrows` | the client goes out of scope: `Destroy` is its destructor, after an exception too |
| `Lose`, `Duplicate`, `Overtake`, `Intrude`, `Answer` | the network, other hosts and the server (not in the repository) |

Use of the freed validator is undefined: the model goes on with either verdict or
crashes. A Python function answers as it likes; its arguments are released twice
(`src/lib/python_api.cc:82` and `:91`), so that any call of it may also crash.

### Scripts as text

`ConversationSerializer` writes a conversation, lets a user edit the file, and reads
it, one line or one refill of the reader's buffer at a time. Bytes are ASCII codes
and the lines with a fixed text are one symbol each, below zero; the headers are a record.

| Action | Code |
|---|---|
| `Write` | `write`, `write_headers`, `write_action`, `Properties::write` |
| `Edit` | a user: adds `TestAddress` (the writer leaves it out), fills in the data of actions that have none; a file that was cut short |
| `ReadHeaders` | the first part of `read` |
| `ReadType`, `ReadProperty` | the two line loops of `read_actions`, with `is_comment`, `trim`, `Properties::put` |
| `ReadData` | one iteration of the loop of `read_action_data`; `CheckTag` is its second half |
| `ActionPush` | the rest of an iteration of `read_actions`: `from_base64`, `create_action`, `actionPush` |

`data`, `buf` and `at` are the locals of `read_action_data`; `buf` is uninitialized at its
start: it holds nothing in particular, or what the last call left.
`ComesBack` and `OnlyThenComesBack` say together when a conversation survives: an action with
empty data, or whose data has a `>` among its first bytes, two `>` in a row, or an end tag in it, does not.
As CONNECT and CLOSE have no data, a file exactly as written is never read back.
The programs do not call the serializer.

## 3. Runs

| Run | Shows | Bounds |
|---|---|---|
| `CaptureStreams` | TCP without options: scripts well formed, connections add up, client is the initiator, data on its side, at most one conversation; refinement of `ConversationScript` | a DLT_NULL capture; two streams and a loopback stream, 6 actions before the last packet, 2 resets |
| `CaptureOptions` | UDP with options: one conversation per pair; the test server is the one given; data on its side, and whole | an Ethernet capture; every sequence of 11 options (7 IPv4, 4 IPv6), 2 IPv4 clients (of one the server's answers as well), an IPv6 client and a loopback stream, 2 actions |
| `RecordedConnection` | what a script holds of what two hosts said | 2 requests and 1 response, 2 segments under way to the tap in each direction and 1 past it, 1 retransmission, 1 fault (a loss, an overtaking or a reset); tap beside the client (IPv4 with options) or the server (IPv6) |
| `HttpReplay` | type, socket, descriptors, completeness, buffers, reports, order of exchanges, termination | 44 captures: 24 with a content-length or no response (up to 2), 20 with chunks (up to 2), 9 answers, `BUFSIZ` 6 |
| `UdpReplay` | reports over a sound network, waiting, sockets, termination or waiting for a lost datagram | 5 `-k` options, 6 captures of up to 5 actions, 2 faults per conversation |
| `ConversationSerializer` | what is read is what was written; that a whole conversation comes back, and when it does not; sub-tokens | 906 conversations: all data of up to 4 out of four bytes, longer data with tags and `>` everywhere, binary data, data that reads like an action; end tag `<D>`, `BUFSIZ` 6, window 4, every truncation |
| six runs that find a violation | see section 5 | |

Why the bounds are enough. A handler's next step depends on the state, on
whether the sender is the client or the server, and on flags and payload being
there; all combinations of these occur. The queue is only appended to, and its
content never decides anything, so `MaxActions` bounds how many connections
follow each other (three CONNECT/CLOSE pairs in `CaptureStreams`). `MaxResets`
bounds a counter that exists for properties. Options interact only when their
keys are equal or differ by the port: the eleven include such pairs, a
spec for another client, one for the server's address, IPv6 ones with and
without a test server, and four that are refused or crash. They are checked with UDP only because the store, the keys and the option
parser do not look at the protocol. The frames of
`CaptureOptions` are padded, carry IP options or an IPv6 header, so that every term of
every accessor counts. In `RecordedConnection` two requests are
enough to be out of order, and one fault with one retransmission to lose,
repeat or reorder; the run was also made with two responses (502,120 states), and its
four properties are proved without any bound. In `ConversationSerializer` data longer than the
buffer with tags at every offset meets every refill; `BUFSIZ` 7 to 10 gave the same answers. In `HttpReplay` a read may return any number
of symbols up to `BUFSIZ`, so responses of about 20 symbols are cut in all ways the
run allows; `BUFSIZ` 6 makes responses longer than one read. In `UdpReplay` one fault is enough to shift every later
comparison, and two can undo each other (a loss and a duplicate); a
second conversation is enough to meet the freed validator.

`CHECK_DEADLOCK FALSE` everywhere: a run of either program ends, and two hosts may
fall silent.

`Cuts = "between lines"` in the passing replay run is an assumption on the
network: a header, and a chunk size with its line end, arrive in one read.
It is part of `OneAtATime`.
Without it a header in two reads is a crash (`HttpSplitHeader` in section 5), and a chunk size
line in two reads makes the parser skip what it had already buffered
(`src/http_replay/http_response_processor.cc:152`: the position is computed from the
start of `tmp_buf_`), so that the response never becomes complete. The run also keeps to one framing per conversation
(`Framing = "as captured"`) and to requests that wait for the response (the assumption in the comment at
`src/http_replay/http_replay.cc:58`). The UDP captures are ones whose server
answers at least as many datagrams as the script waits for (`EveryRecvIsAnswered`, of
which TLC makes sure in `MCUdpReplay`); a script that
waits for more, or that begins with RECV, blocks for ever, by the same line of
code as a lost datagram.

Fairness. Recording is a loop over a file and serializing one over a stream: only safety is stated,
and the hosts of `RecordedConnection` may stop at any time. `FairSpec` of
`HttpReplay` has weak fairness of the client's successful steps (one thread that
waits for nothing but the server) and of the server's answering (an assumption
on the server). Failures and hanging up are never fair: `ReplayEnds` does not
rest on something breaking. `FairSpec` of `UdpReplay` is the same: the client's steps
and the server's answers are fair, faults and exceptions are not.

## 4. Proofs

All theorems hold for every value of the constants the named assumptions allow: any
addresses, ports, frames, options, captures, and any bounds. TLC evaluates the assumptions in
every run of their module.

Theorems that are about some traffic only, or some options, say so as a hypothesis.

| Theorem | States, for `Spec => []...` | Inductive invariant |
|---|---|---|
| `TypeCorrect` (`CaptureProofs`) | `TypeOK` | itself |
| `WellFormedScripts`, `AccountedConnections` | `ScriptsAreWellFormed`, `ConnectionsAreAccountedFor` | `RecordingInv` |
| `CaptureRefinesScript` | `ImplementsScript`, for every conversation key | `TypeOK` |
| `OneConversation`, `DataOnItsSide`, `ClientOpened` | `OneConversationPerPair`, `DataComesFromItsSide`, `ClientIsInitiator` | `SidesInv` |
| `WholePayloads` | `PayloadsAreWhole`, for frames that network stacks built | `IntactInv` |
| `OnlyTheFirst` | `OnlyTheFirstUnlessConfigured` | `FirstInv` |
| `TargetAsGiven` | `TargetIsAsGiven`, for options written as documented | `TargetInv` |
| `OnlySaid` (`RecordedConnectionProofs`) | `OnlyWhatWasSaid` | `HandshakeInv`, `BesideInv` |
| `ScriptAsHeard` | `ScriptIsWhatTheTapHeard` | `HandshakeInv`, `BesideInv`, `TapInv` |
| `ResponsesFollow`, `RequestsInOrder` | `ResponsesFollowRequests`, `RequestsAreInOrder` | these and `StreamInv`, `OrderInv` |
| `SocketOpen`, `DescriptorsAccounted` (`HttpReplayProofs`) | `SocketIsOpen`, `DescriptorsAreAccountedFor` | `SocketInv`, `DescriptorInv` |
| `ReplayTypeCorrect` | `TypeOK` | `TypeInv` |
| `RecvEndsWithResponse` (`HttpExchangeProofs`) | `CompleteWhenWhole`, if `OneAtATime` | `TypeInv`, `ExchangeInv` |
| `RequestsTakeTurns` | `AnsweredBeforeNextRequest` (of steps), if `OneAtATime` | `TypeInv`, `ExchangeInv` |
| `ReportsRight` | `RecordedInOrder /\ NoNul => ReportsAreRight`, if `OneAtATime` | these, `HearingInv`, `VerdictInv` |
| `NothingBehindBuffers` | `~Overruns(test.data)`, and `RecordedInOrder => BuffersHold`, if `OneAtATime` | `TypeInv`, `ExchangeInv`, `HearingInv`, `FitsInv` |
| `AllResponsesCompared` | `RecordedInOrder => EveryResponseIsCompared`, if `OneAtATime` | the same with `CoverInv` |
| `NoSocketLeft` (`UdpReplayProofs`) | `NoSocketIsLeft` | `ClientInv` |
| `ReportsRight` | `ReportsAreRight` | `AnswersInv` |
| `WaitsOnlyAfterLoss` | `WaitsInVainOnlyAfterLoss`, if `EveryRecvIsAnswered` | `AnswersInv` |
| `GroupComesBack` (`Base64Proofs`) | `DecodeGroup(EncodeGroup(t)) = t` for one to three bytes | none: arithmetic |
| `FromToBase64` | `FromBase64(ToBase64(d)) = d` for any sequence of bytes | none: induction over groups |
| `TokensAlwaysPlaceholders` (`ConversationSerializerProofs`) | `TokensArePlaceholders` | `TypeInv` |
| `AlwaysReadsAsWritten` | `ReadsAsWritten` | `TypeInv`, `Faithful` |
| `AlwaysComesBack` | `ComesBack` | `TypeInv`, `Faithful`, `Advance` |

### Recording

*Scripts.* Neither property of a queue is inductive: whether SEND may be
appended depends on `cap_tcp_state`. `RecordingInv` adds to
`TypeOK`, for each conversation, that it is *sound* (the queue is well formed,
and if the state is ESTABLISHED it ends connected) and *balanced* (the counts of
CONNECT, CLOSE and resets add up, with one for an established connection).
Lemma `TcpStep` shows that one packet, handled in any state, keeps both; it
rests on lemmas about appending an action to a script (`ConnectedBefore` of
the longer script, the new set of positions and its cardinality). Every action
but `RecordPacket` leaves the conversations alone. The refinement uses the same
case analysis: each handler either adds nothing, or adds what one step of the
abstract script adds, and `WellFormedScripts` is not needed for it.

`TypeCorrect` also rests on `ServerType`: whichever parser accepts an option, the server it
returns has an address and a 16-bit port; for the IPv6 form this goes through
`MinimumExists`, `FindType`, `TextType` and `PartsType` (where the marks are found, and that
the text between them is made of the option's symbols).

*Sides.* `SidesInv` says that every conversation is filed under the key of its own source and
destination (`FiledByPair`), that its data is of its sides, and, while a connection is being opened
or open, that its source sent the last SYN (`OpenedBySource`). The first part is what makes the
others inductive: it is why a packet that finds a conversation in the store comes from one of
its two endpoints (`KeyNamesBoth`, `KeyIsSymmetric`: the key tells pairs apart and directions not), so that
"not from the client" means "from the server".

*Payloads.* `PayloadIsFound` follows the accessors through a frame with headers of any length.
`WholePayloads` is about files whose frames, as far as `packetHandler` looks into them, hosts' network
stacks built (`Carries`), around payloads that are what their senders meant; `Frames` of
`CaptureOptions` is such a set. Without this hypothesis a length field in a header may say
anything, and so may the payload.

*Targets.* `TargetInv` says that the store holds, for each key, what the parser made of the last
option accepted for it, that options come before the capture, and that a conversation is
aimed where its client's entry says (it was when it was made, and neither changes). The rest is
the parsers: `HtonsTwice`, `IpV4Parameters`, and for the IPv6 form `Marks` and `IpV6Parameters`.
`TargetAsGiven` supposes that options in the IPv6 form are written in one of the three documented
ways or refused (`AsDocumented`; `Specs` of `CaptureOptions` are). The parser accepts others, and
for them the property is false: `[a]b` is taken for a test address `b` although the
option has two parameters only.

### Recording beside a connection

`HandshakeInv` is about the two hosts alone: what is under way was sent by the other side and is
*formed* (its numbers fit its sender's state), a host says nothing before its SYN is acknowledged,
and the handshake's steps imply each other backwards. `BesideInv`: the only conversation is the
connection's, with the client as its source - because the tap is there from the client's SYN on, and
cannot have seen the server first - and its data was said by its sides. This gives `OnlySaid`; it
composes with `Capture` by `TypeNext`, `TcpSides` and `FrameIsRead` of its proof modules.

`TapInv` relates the recorder's TCP state to what has passed the tap: before the handshake is over
the state is CLOSED, SYN_SENT or SYN_RECEIVED as the server's SYN has passed or not, then it is
ESTABLISHED until the first FIN or reset, and afterwards never ESTABLISHED again. The last
part is the hard one: a late SYN would start a second connection in the same script. It needs
`Past` (once the end of the handshake has passed, the side at the tap sends no more SYN) and
the case that the tap is beside the server, where a retransmitted SYN does put the
state back to SYN_SENT, which nothing can then lead to ESTABLISHED. `Tells` is the
property in a form that an appended action extends.

*Order.* The script tells what the tap heard, one action for each segment with data, so it is
enough to order what was heard; `ToldBefore` carries the order over (the k-th such action
tells the k-th thing heard). `StreamInv` is about the hosts: a segment's number tells which message it
carries and where its sender's stream ends (`Numbering`), the server has answered only what was said
(`Answering`), and what it has received is what it has answered, without a gap (`NoGap`). `OrderInv` is
about what was heard: at the server's tap the requests the server has taken are all there, at
the client's those it has said (`Holds`), and each response, and at the client's each request, has
the ones before it in front of it. A step of a host says at most the next message
(`Speech`), which is where the order comes from: at the client's tap requests are heard as they
are said, at the server's a request is heard before the server can take it and answer.
Both properties exclude a first request in the segment that ends the handshake (`opener`),
which the recorder drops.

### Replaying HTTP

`SocketInv`: the queue is the end of the conversation's script (`AtPosition`), and whenever
the part carried out has connected, `socket` is open. With a well-formed script this is so before each
SEND, RECV and CLOSE. `DescriptorInv` adds that the descriptors are finite
and as many as the CONNECT actions carried out less the CLOSE actions, over all conversations
(`CarriedOut`). It uses `SocketInv` in the CLOSE step: the descriptor closed is one of those held.
`TypeInv` puts the types of both response processors, of the network and of a write in progress
beside it; that a processor stays one needs the loop over chunks to end (below).

*The parser.* `ChunkedProcess` is a loop; each turn of it uses some of the data up
(`EachStepUsesData`), so that by `LoopEnds` of `SequenceLemmas` it ends, and what every turn keeps holds at its end.
What it keeps is `Parsed(d, left, P)`: `left` being what has not been given to the processor `d`,
`d` is in one of four places (`AtSize`, `InChunk`, `AtLineEnd`, `AtFinish`), `left`
has there what the place says, and what is collected, with what `left` holds of payload, is `P`. That chunk size lines
come in one piece (`LinesWhole`) is used at `AtSize`, and nowhere else. `Reads(t, r, left)` says the same of the whole
`HttpResponseProcessor`, before and after its header, for either framing; lemma `ReadsOn` is the step of `processData`,
and a processor that reads `r` is complete exactly when nothing is left.

*Exchanges.* `ExchangeInv` divides the time of a connection into `Idle`, `Waiting` (a request is
written, not answered) and `Reading` (`Reads(test, answer, wire)`), and says which belongs to
which place in the script (`Asked`: right behind a request, `Listened`: behind a RECV). `reset()` keeps `headers_`; so
it also says that once answers are in chunks no content-length is among the headers (`Understands`), which is why a server
that goes from one framing to the other is excluded (`HttpStaleHeader` in section 5).

*The captured side.* `expected_processor` gets packets, not reads, and only as many as the replay has come to.
`Follows` relates it to the script: the packets recorded after the request up to the present place have
been passed on, those up to `end` are still in the script, and together with
`left`, which was lost, they are the captured response. `HearingInv` says that this is so after each request. The hard
case is a RECV beyond the last packet of a response, which `processData` is not called for since the response is complete;
and where part of a response was lost, no RECV may follow.

*Comparison.* `VerdictInv`: when the two are compared, each processor has all of its response, and the
captured and the live one are framed alike. Statuses and payloads then are those of the two responses, and `strncmp`
tells them apart unless a NUL stands in the captured one (`HttpNulBody` is what happens otherwise). `FitsInv`: nothing was ever
collected beyond the length in the header. `CoverInv`: for each request behind us, its response was compared if
its packets are all behind us as well.

### Replaying UDP

`ClientInv` says that a client lives exactly while `pc` is at its replay.

`AnswersInv` says of the conversation being replayed that it is what has been carried out
followed by the queue, and keeps two accounts of the part carried out. Unless a datagram was lost,
the answers received, those on their way and those the server will give to what is on its way to it are no
fewer than what was sent is answered with (`Enough`); with `EveryRecvIsAnswered`, a RECV then has something to
wait for. And while the network has not failed, what was received, then what is on its way, then what
will be answered *is* the answers to what was sent, in order (`Taken`), and the reports are the positions at
which it differs from the capture (`Told`). The second uses `MessageAssumption`: the
comparison of size and bytes tells datagrams apart.

Both accounts are concatenations over sequences of any length.

### Scripts as text

*Placeholders.* Every entry of `queue` is `Record(type, data)`, whose tokens are `SubTokens(data)`; that is part of
`TypeInv`, which also says that the file is the beginning of what was written. `TokensFrom` is what `SubTokens`
computes from any place in the data on, by induction from the end of the data.

*Base64.* `Groups` of what is encoded are the encoded groups (`ToBase64Facts`: every one but the last has three bytes, and
each gives four letters), so `GroupComesBack` applies to each of them.

*The reader.* `Place` says what `input` has to be if the file keeps the action being read, and the data of it and of the
actions in front can be told from the end tag: the rest of its opening lines, or of its properties, or
`AtData`, and then what the file has behind that action (`FileBehind`). `AtData` is the invariant of `read_action_data`: what
is in `data`, then what is in the first `at` places of `buf`, then the input, is the stored data, the end tag, and `FileBehind`;
and the end tag has not been read to its end. It is kept by a refill because what is held back and what is moved
to `data` together are what was gathered (`HeldBackFacts`), and the refill cannot fail: it stops in front of the last symbol
of the tag at the latest, and there is no such symbol among the first ones (`Refilled`). At that symbol the
buffer holds at least as many symbols as the tag, since no two such symbols follow each other (`DelimNext`), so what is
compared is the tag exactly at its first place in the text (`TagFound`), with the byte in front of it the last of the data.
`Faithful` is `Place` with `ReadsAsWritten`: without `Place` nothing is known of what is pushed next.

`Advance` adds that the headers were accepted, that no more actions are read than there are, and, when the file keeps all of
them, that nothing throws and the end of the file is reached behind the last one only.

`ConversationsAssumption` says what may be written: bytes, or, where data is not taken for binary, also what
reads like a line of the file. `EndTagAssumption` is what the code's tag satisfies: its last byte is nowhere else in
it, and is no letter of base64.

### Inductions

The library's induction theorems take an operator as a parameter, which the provers cannot instantiate.
`SequenceLemmas` has inductions of its own: over a *set* of numbers (`NatSet`, from the
well-foundedness of `<`), over a set of sequences that is closed under `Append` (`SeqSet`), and over what a loop has still
to use (`LoopEnds`). With them `FlattenType` and `FlattenConcat` say what `FlattenSeq` computes, and `FlatMap` its
use with a function on elements; `LoopExists` and `LoopEnds` say what a recursive function like `ChunkedProcess`,
defined by a turn of a loop and itself, computes.

### Only model-checked, and why

- `OnlyThenComesBack`: that data which *cannot* be told from its end tag never comes back depends on the tag. With
  one that the assumptions allow and the code does not use, such as `#D>`, some of it does.
- `ReplayEnds`, of both replays, is liveness.

## 5. Where the code and its documents disagree

| Run | What happens |
|---|---|
| `CaptureFirstRequest` | without options the first *packet's* conversation is recorded (`src/include/conversation_store.h:90`), README line 43 says the first connection request's |
| `CaptureTestPort` | an option with test address and no test port replays to port 65535 (`src/lib/conversation_factory.cc:83`), README line 41 says the captured port |
| `HttpSplitHeader` | a header in two reads: null pointer (`src/http_replay/http_response_processor.cc:50`) |
| `HttpStaleHeader` | `reset()` keeps `headers_`: a chunked response is read by an old content-length (`http_response_processor.h:113`) |
| `UdpValidator` | one validator, deleted by every client (`src/udp_replay/udp_replay.h:36`); line 28 says a client owns its own |
| `HttpNulBody` | chunked payloads that differ after a NUL byte compare equal (`src/http_replay/http_response_processor.cc:129`) |

## 6. Not modelled

- Text of HTTP header lines other than status, content-length and transfer-encoding;
  chunk extensions (the code does not skip them); a chunk size line in two reads (above).
- IP fragments: `ip_off` is never looked at, so the bytes of a later fragment are read as a
  transport header. Frames are whole datagrams here.
- Addresses as text. A server key for IPv6 is `address:port`, which may spell another address
  (`src/lib/conversation_factory.cc:144`); keys are tuples here.
- The validator's overload with sub-tokens: nothing calls it, and it compares with memory
  behind the expected packet (`src/lib/packet_validator.cc:49`).
- `create_action`'s token text is kept as the code computes it (`substr` takes the end for a count), and no
  property is about it.
- The Python interpreter, the example `dns.py`, memory ownership outside what is named
  here, building. `TcpConversation::socket_` and `UdpConversation::socket_` are left out: nothing
  assigns them after construction.

## 7. Plan

Done: recording (modules, refinement), frames, both forms of options, recording
beside a connection, HTTP replaying, UDP replaying, serializing; the theorems of section 4.

What could follow: `OnlyThenComesBack` for the end tag the code has; a model of IP fragments, if the layer
classes come to look at `ip_off`.
