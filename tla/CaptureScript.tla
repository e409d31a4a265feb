---------------------------- MODULE CaptureScript ----------------------------
(***************************************************************************)
(* A TCP recording implements ConversationScript: whatever the capture     *)
(* holds, each recorded conversation grows one script.                     *)
(***************************************************************************)
EXTENDS Capture

CONSTANT TheKey   \* the conversation looked at

ASSUME TheKeyAssumption == TheKey \in Key

ScriptOpen ==
  TheKey \in Recorded /\ conversations[TheKey].cap_tcp_state = "ESTABLISHED"

ScriptSoFar ==
  IF TheKey \in Recorded THEN conversations[TheKey].action_queue ELSE <<>>

Script == INSTANCE ConversationScript
            WITH open <- ScriptOpen, script <- ScriptSoFar,
                 Message <- Data, Nothing <- NoData

\* TcpConversation::processCapturePacket, seen through the queue it leaves
\* behind: connections are opened, used and ended one after another, at most
\* one message is added at a time, and nothing recorded is ever changed.
ImplementsScript == Script!Spec

=============================================================================
