---------------------------- MODULE MCTcpEndpoints ----------------------------
(* Instance of TcpEndpoints for TLC: connections are made and closed. *)
EXTENDS TcpEndpoints

CONSTANTS out1, out2

MCAddresses == <<out1, out2>>

==============================================================================
