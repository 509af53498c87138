----------------------------- MODULE MCTransports -----------------------------
(* The transports beside TcpStream, in one run: a UdpSocket, used by two
   coroutines of which one is on another thread, and the two ends of a
   CodecStream.  They share no state of the library: a behaviour of this
   specification picks one of them and moves that one only. *)
EXTENDS UdpSocket, CodecStream

VARIABLE transport

MCMessages ==
    {[client |-> <<1>>, server |-> <<2>>],
     [client |-> <<>>, server |-> <<3>>],
     [client |-> <<>>, server |-> <<2, 1>>]}

MCInit ==
    /\ transport \in {"udp", "codec"}
    /\ Init /\ CodecInit
    /\ transport = "udp" => codec = "bearssl" /\ todo["server"] = <<2>>
MCNext ==
    /\ \/ transport = "udp" /\ Next /\ UNCHANGED codecVars
       \/ transport = "codec" /\ CodecNext /\ UNCHANGED vars
    /\ UNCHANGED transport
MCSpec == MCInit /\ [][MCNext]_<<transport, vars, codecVars>>
=============================================================================
