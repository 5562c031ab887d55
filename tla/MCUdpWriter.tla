----------------------------- MODULE MCUdpWriter -----------------------------
(* Instances of UdpWriter: two clients whose IP and port have the same sum,  *)
(* and one with a key of its own.                                            *)
EXTENDS UdpWriter, TLC

CONSTANTS c1, c2, c3

MCKeys == (c1 :> 1) @@ (c2 :> 1) @@ (c3 :> 2)
=============================================================================
