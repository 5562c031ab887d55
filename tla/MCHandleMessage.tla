-------------------------- MODULE MCHandleMessage --------------------------
(* An instance of HandleMessage: the threads as model values.                *)
EXTENDS HandleMessage, TLC

CONSTANTS http1, http2, tcp1

MCHttpThreads == {http1, http2}
MCTcpThreads == {tcp1}
Symmetry == Permutations(MCHttpThreads)
=============================================================================
