-------------------------- MODULE ConversationScript --------------------------
(***************************************************************************)
(* What a recorded TCP conversation promises to the client that replays    *)
(* it, without packets: a script of actions in which connections are       *)
(* opened, used and ended one after another.                               *)
(***************************************************************************)
EXTENDS Sequences

CONSTANTS
  Message,   \* what SEND and RECV actions carry
  Nothing    \* the payload of CONNECT and CLOSE actions

VARIABLES
  open,      \* is a connection of the script in use?
  script     \* the actions recorded so far

vars == <<open, script>>

Step(type) == [type |-> type, data |-> Nothing]

Transfer == [type : {"SEND", "RECV"}, data : Message]

Init == open = FALSE /\ script = <<>>

Connect ==
  /\ ~open
  /\ open' = TRUE
  /\ script' = Append(script, Step("CONNECT"))

Exchange(t) ==
  /\ open
  /\ script' = Append(script, t)
  /\ UNCHANGED open

Close ==
  /\ open
  /\ open' = FALSE
  /\ script' = Append(script, Step("CLOSE"))

\* The last message and the end of the connection may come together.
ExchangeAndClose(t) ==
  /\ open
  /\ open' = FALSE
  /\ script' = Append(Append(script, t), Step("CLOSE"))

\* A connection may also just end.
Abort ==
  /\ open
  /\ open' = FALSE
  /\ UNCHANGED script

Next ==
  \/ Connect
  \/ \E t \in Transfer : Exchange(t) \/ ExchangeAndClose(t)
  \/ Close
  \/ Abort

Spec == Init /\ [][Next]_vars

=============================================================================
