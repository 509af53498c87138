----------------------------- MODULE MCTcpStream -----------------------------
(* Instance of TcpStream for TLC: one connection, read and written by tasks of *)
(* the loop and of another thread.                                             *)
EXTENDS TcpStream

==============================================================================
