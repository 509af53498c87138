---------------------------- MODULE MCCodecStream ----------------------------
(* CodecStream alone: the server writes more than one record. *)
EXTENDS CodecStream

MCMessages == {[client |-> <<1>>, server |-> <<3>>]}

Spec == CodecInit /\ [][CodecNext]_codecVars
==============================================================================
