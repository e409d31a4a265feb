------------------------- MODULE MCRecordedConnection -------------------------
(* An instance of RecordedConnection for TLC.                              *)
EXTENDS RecordedConnection

MCAddr == 1 .. 2
MCAddrV6 == {}
MCPort == 1 .. 2
MCBody == 0 .. 2

NoFrames == {}

\* Without IP options every IPv4 header has the same length; with them a bare
\* acknowledgement is still shorter than an Ethernet frame may be.
MCSites ==
  {[at |-> "client", family |-> "IP", ip_hl |-> 6],
   [at |-> "server", family |-> "IPV6", ip_hl |-> 5]}

=============================================================================
