----------------------------- MODULE ActionScript -----------------------------
(***************************************************************************)
(* What makes a queue of actions (action.h) a script that can be replayed. *)
(***************************************************************************)
EXTENDS Naturals, Sequences, FiniteSets

\* Some CONNECT stands before position i with no CLOSE between the two.
ConnectedBefore(s, i) ==
  \E j \in 1 .. i - 1 :
     /\ s[j].type = "CONNECT"
     /\ \A k \in j + 1 .. i - 1 : s[k].type # "CLOSE"

\* Data moves, and connections are closed, only inside a connection.
WellFormed(s) ==
  \A i \in 1 .. Len(s) : s[i].type # "CONNECT" => ConnectedBefore(s, i)

\* Is a connection open once the whole script has been carried out?
EndsConnected(s) == ConnectedBefore(s, Len(s) + 1)

\* The positions of the actions of one type.
Positions(s, type) == {i \in 1 .. Len(s) : s[i].type = type}

=============================================================================
