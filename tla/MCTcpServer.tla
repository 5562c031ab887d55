---------------------------- MODULE MCTcpServer -----------------------------
(* Instances of TcpServer: requests and what may go wrong with them.         *)
EXTENDS TcpServer

CONSTANTS good, long, bad

MCRequests    == {good, long, bad}
\* One peer sends ahead of the replies, its neighbour does not.
MCAsked       == <<2, 1, 0>>
MCAnyFault    == {"accept", "bind"}
=============================================================================
