------------------------------- MODULE UdpReplay -------------------------------
(***************************************************************************)
(* Replaying UDP: the "-k" options, main()'s loop over the recorded        *)
(* conversations, UdpReplayClient from its constructor to its destructor,  *)
(* the validator all clients share, and around them a network that may     *)
(* lose, duplicate or reorder datagrams, strangers, and a server.          *)
(*                                                                         *)
(* Two uses of freed memory are undefined behaviour: with a freed          *)
(* validator the program goes on with either verdict, or it crashes; after *)
(* the second release of the arguments of a Python call it goes on or      *)
(* crashes.                                                                *)
(***************************************************************************)
EXTENDS Integers, SequencesExt

CONSTANTS
  Message,    \* datagrams: records of a size and a body
  Replies,    \* what the server sends back, by datagram
  Captures,   \* what may have been recorded: sequences of action queues
  Specs,      \* what may be given with "-k"
  Faults,     \* what the network may do
  MaxFaults   \* bound: how often it does

Action == [type : {"SEND", "RECV"}, data : Message]

ASSUME RepliesAssumption == Replies \in [Message -> Seq(Message)]
ASSUME CapturesAssumption == Captures \subseteq Seq(Seq(Action))
ASSUME MessageAssumption ==
  \A m, n \in Message : m.size = n.size /\ m.body = n.body => m = n
ASSUME SpecsAssumption ==
  Specs \subseteq [parts : Nat, type : {"python", "other"},
                   module : {"imported", "not imported"}, function : BOOLEAN]
ASSUME FaultsAssumption ==
  /\ Faults \subseteq {"loss", "duplication", "reordering", "strangers"}
  /\ MaxFaults \in Nat

VARIABLES
  convs,      \* the store's conversations: their action queues as recorded
  current,    \* which of them main() is at
  queue,      \* its actions not yet carried out
  pc,         \* at the "options", "between" clients, at the "replay", or how
              \* the program ended
  kind,       \* which PacketValidator main() made last
  validator,  \* "live" or "freed"
  fds,        \* descriptors open
  up, down    \* datagrams under way, to and from the server

\* History, for properties.
VARIABLES
  received,   \* RECV actions carried out in this conversation
  reports,    \* those for which a difference was printed
  faults,     \* how often the network failed in this conversation
  lost        \* whether it lost a datagram of this conversation

program == <<convs, current, queue, pc, kind, validator, fds>>
history == <<received, reports, faults, lost>>
vars    == <<program, up, down, history>>

Ended == {"done", "failed", "crashed"}

AtAction(type) == pc = "replay" /\ queue # <<>> /\ queue[1].type = type
ActionPop == queue' = Tail(queue)

Init ==
  /\ convs \in Captures
  /\ current = 0 /\ queue = <<>> /\ pc = "options"
  /\ kind = "exact" /\ validator = "live"
  /\ fds = {} /\ up = <<>> /\ down = <<>>
  /\ received = 0 /\ reports = {} /\ faults = 0 /\ lost = FALSE

-----------------------------------------------------------------------------
(* main() and the life of a client.                                        *)

\* tokenize() gives three parts, of which the type is compared in lower case; a
\* file that is not called .py or cannot be imported throws.
ValidSpec(s) == s.parts = 3 /\ s.type = "python" /\ s.module = "imported"

\* A function that is not in the module is noticed when it is called.
CreateValidateCall(s) == IF s.function THEN "python" ELSE "python, no function"

\* The last "-k" counts.
ParseValidator(s) ==
  /\ pc = "options" /\ ValidSpec(s)
  /\ kind' = CreateValidateCall(s)
  /\ UNCHANGED <<convs, current, queue, pc, validator, fds, up, down, history>>

RejectValidator(s) ==
  /\ pc = "options" /\ ~ValidSpec(s)
  /\ pc' = "failed"
  /\ UNCHANGED <<convs, current, queue, kind, validator, fds, up, down, history>>

\* The capture has been loaded.
StartReplaying ==
  /\ pc = "options" /\ pc' = "between"
  /\ UNCHANGED <<convs, current, queue, kind, validator, fds, up, down, history>>

NewClient ==
  /\ pc = "between" /\ current < Len(convs)
  /\ current' = current + 1
  /\ queue' = convs[current + 1]
  /\ fds' = fds \cup {current + 1}
  /\ pc' = "replay"
  /\ up' = <<>> /\ down' = <<>>
  /\ received' = 0 /\ reports' = {} /\ faults' = 0 /\ lost' = FALSE
  /\ UNCHANGED <<convs, kind, validator>>

\* socket() fails; there is no object yet whose destructor would run.
SocketFails ==
  /\ pc = "between" /\ current < Len(convs)
  /\ pc' = "failed"
  /\ UNCHANGED <<convs, current, queue, kind, validator, fds, up, down, history>>

MainReturns ==
  /\ pc = "between" /\ current = Len(convs)
  /\ pc' = "done"
  /\ UNCHANGED <<convs, current, queue, kind, validator, fds, up, down, history>>

\* Mutant: the destructor leaves the socket open.
DestroyKeepsSocket(next) ==
  /\ fds' = fds
  /\ validator' = "freed"
  /\ pc' \in {next} \cup (IF validator = "freed" THEN {"crashed"} ELSE {})

\* The destructor closes the socket and deletes the validator, whoever else has
\* it.
Destroy(next) ==
  /\ fds' = fds \ {current}
  /\ validator' = "freed"
  /\ pc' \in {next} \cup (IF validator = "freed" THEN {"crashed"} ELSE {})

ReplayReturns ==
  /\ pc = "replay" /\ queue = <<>>
  /\ Destroy("between")
  /\ UNCHANGED <<convs, current, queue, kind, up, down, history>>

\* An exception leaves replay() and takes the client with it: sendto() or
\* recvfrom() reports an error.
ReplayThrows ==
  /\ AtAction("SEND") \/ AtAction("RECV")
  /\ Destroy("failed")
  /\ UNCHANGED <<convs, current, queue, kind, up, down, history>>

-----------------------------------------------------------------------------
(* replay().                                                               *)

\* Mutant: an empty payload is not sent, as in the HTTP client's write loop.
SendUnlessEmpty ==
  /\ AtAction("SEND")
  /\ up' = IF queue[1].data.size = 0 THEN up ELSE Append(up, queue[1].data)
  /\ ActionPop
  /\ UNCHANGED <<convs, current, pc, kind, validator, fds, down, history>>

Send ==
  /\ AtAction("SEND")
  /\ up' = Append(up, queue[1].data)
  /\ ActionPop
  /\ UNCHANGED <<convs, current, pc, kind, validator, fds, down, history>>

\* Mutant: the bytes are not compared.
ValidateSize(expected, actual) == {expected.size = actual.size}

\* PacketValidator::validate compares sizes, then bytes; a Python function
\* answers as it likes, one that is not there does not.
Validate(expected, actual) ==
  CASE kind = "python"              -> BOOLEAN
    [] kind = "python, no function" -> {}
    [] OTHER -> {expected.size = actual.size /\ expected.body = actual.body}

Verdicts(expected, actual) ==
  IF validator = "live" THEN Validate(expected, actual) ELSE BOOLEAN

\* Mutant: RECV waits for a datagram that the validator accepts.
ReceiveAccepted ==
  /\ AtAction("RECV") /\ down # <<>>
  /\ down' = Tail(down)
  /\ \E same \in Verdicts(queue[1].data, down[1]) :
       IF same THEN ActionPop /\ received' = received + 1
               ELSE UNCHANGED <<queue, received>>
  /\ UNCHANGED <<convs, current, pc, kind, validator, fds, up, reports, faults, lost>>

\* recvfrom() takes the datagram that came first; whoever sent it, it is held
\* against the captured one.
Receive ==
  /\ AtAction("RECV") /\ down # <<>>
  /\ down' = Tail(down)
  /\ received' = received + 1
  /\ \E same \in Verdicts(queue[1].data, down[1]) :
       reports' = IF same THEN reports ELSE reports \cup {received + 1}
  /\ pc' \in {"replay"} \cup (IF validator = "live" /\ kind = "exact"
                              THEN {} ELSE {"crashed"})
  /\ ActionPop
  /\ UNCHANGED <<convs, current, kind, validator, fds, up, faults, lost>>

\* ValidatePythonCall::validate: the function is not there, raises an exception,
\* or returns something else than a bool.
ValidateThrows ==
  /\ AtAction("RECV") /\ down # <<>>
  /\ validator = "live" /\ kind # "exact"
  /\ down' = Tail(down)
  /\ Destroy("failed")
  /\ UNCHANGED <<convs, current, queue, kind, up, history>>

-----------------------------------------------------------------------------
(* The network and the server (external).                                  *)

MayFail(fault) == fault \in Faults /\ faults < MaxFaults /\ pc = "replay"

Lose ==
  /\ MayFail("loss")
  /\ \/ up # <<>> /\ up' = Tail(up) /\ UNCHANGED down
     \/ down # <<>> /\ down' = Tail(down) /\ UNCHANGED up
  /\ faults' = faults + 1 /\ lost' = TRUE
  /\ UNCHANGED <<program, received, reports>>

Duplicate ==
  /\ MayFail("duplication") /\ down # <<>>
  /\ down' = Append(down, down[1])
  /\ faults' = faults + 1
  /\ UNCHANGED <<program, up, received, reports, lost>>

Without(s, i) == SubSeq(s, 1, i - 1) \o SubSeq(s, i + 1, Len(s))

Overtake ==
  /\ MayFail("reordering")
  /\ \E i \in 2 .. Len(down) : down' = <<down[i]>> \o Without(down, i)
  /\ faults' = faults + 1
  /\ UNCHANGED <<program, up, received, reports, lost>>

Intrude(m) ==
  /\ MayFail("strangers")
  /\ down' = Append(down, m)
  /\ faults' = faults + 1
  /\ UNCHANGED <<program, up, received, reports, lost>>

Answer ==
  /\ pc = "replay" /\ up # <<>>
  /\ up' = Tail(up)
  /\ down' = down \o Replies[up[1]]
  /\ UNCHANGED <<program, history>>

-----------------------------------------------------------------------------

ClientStep ==
  StartReplaying \/ NewClient \/ Send \/ Receive \/ ValidateThrows
    \/ ReplayReturns \/ MainReturns

Options == \E s \in Specs : ParseValidator(s) \/ RejectValidator(s)

ClientFails == SocketFails \/ ReplayThrows

Network == Lose \/ Duplicate \/ Overtake \/ \E m \in Message : Intrude(m)

Next == Options \/ ClientStep \/ ClientFails \/ Network \/ Answer

Spec == Init /\ [][Next]_vars

\* The client waits for datagrams only, and the server answers.
FairSpec == Spec /\ WF_vars(ClientStep) /\ WF_vars(Answer)

-----------------------------------------------------------------------------
(* Properties.                                                             *)

DataOf(actions, type) ==
  FlattenSeq([i \in DOMAIN actions |->
                IF actions[i].type = type THEN <<actions[i].data>> ELSE <<>>])

\* What the server sends back to all a conversation sends.
RepliesTo(actions) ==
  FlattenSeq([i \in DOMAIN actions |->
                IF actions[i].type = "SEND" THEN Replies[actions[i].data] ELSE <<>>])

\* udp_replay.cc, RECV: over a network that keeps datagrams and their order, the
\* differences reported are those between what the capture holds and what
\* the server answers, whatever has been sent ahead of being answered.
ReportsAreRight ==
  pc = "replay" /\ faults = 0 /\ kind = "exact" /\ validator = "live" =>
    \A i \in 1 .. received :
      i \in reports <=> DataOf(convs[current], "RECV")[i] # RepliesTo(convs[current])[i]

\* No more has been received in a capture than what was sent before had answers.
EveryRecvIsAnswered ==
  \A capture \in Captures : \A c \in DOMAIN capture :
     \A i \in DOMAIN capture[c] :
        LET before == SubSeq(capture[c], 1, i)
        IN  capture[c][i].type = "RECV" =>
              Len(DataOf(before, "RECV")) <= Len(RepliesTo(before))

\* udp_replay.cc:48 waits without a timeout: with captures whose every RECV the
\* server has an answer for, it does so in vain only after a loss.
WaitsInVainOnlyAfterLoss ==
  AtAction("RECV") /\ up = <<>> /\ down = <<>> => lost

\* udp_replay.h, ~UdpReplayClient, which also runs when replay() throws: one
\* client has one socket, and however the program returns none is left open.
NoSocketIsLeft ==
  fds = IF pc = "replay" THEN {current} ELSE IF pc = "crashed" THEN fds ELSE {}

WaitsForLost == AtAction("RECV") /\ up = <<>> /\ down = <<>> /\ lost

\* udp_replay.cc: replaying ends, whatever datagrams come twice, late or from
\* elsewhere, or it waits for ever in recvfrom() because one was lost.
ReplayEnds == <>(pc \in Ended) \/ <>[]WaitsForLost

\* udp_replay.h:28, "Ownership is transferred to this object and will be freed
\* by this object.": a client that receives has a validator of its own, which
\* nobody freed.
ValidatorIsLive == AtAction("RECV") => validator = "live"

=============================================================================
