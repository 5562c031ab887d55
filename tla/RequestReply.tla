---------------------------- MODULE RequestReply ----------------------------
(***************************************************************************)
(* What the TCP service promises the peer of one connection: its requests  *)
(* are answered one by one, each once, in the order they were sent, and    *)
(* nothing follows the server's hanging up.                                *)
(***************************************************************************)
EXTENDS Sequences, Naturals

CONSTANTS Connections, Requests

VARIABLES
  asked,     \* asked[s]: requests sent so far
  answered,  \* answered[s]: requests whose replies have arrived, in that order
  hungup     \* hungup[s]: the server has closed the connection

Init ==
  /\ asked = [s \in Connections |-> <<>>]
  /\ answered = [s \in Connections |-> <<>>]
  /\ hungup = [s \in Connections |-> FALSE]

Ask(s) ==
  /\ \E r \in Requests : asked' = [asked EXCEPT ![s] = Append(@, r)]
  /\ UNCHANGED <<answered, hungup>>

Answer(s) ==
  /\ ~hungup[s] /\ Len(answered[s]) < Len(asked[s])
  /\ answered' = [answered EXCEPT ![s] = Append(@, asked[s][Len(@) + 1])]
  /\ UNCHANGED <<asked, hungup>>

HangUp(s) ==
  /\ ~hungup[s]
  /\ hungup' = [hungup EXCEPT ![s] = TRUE]
  /\ UNCHANGED <<asked, answered>>

Next == \E s \in Connections : Ask(s) \/ Answer(s) \/ HangUp(s)

Spec == Init /\ [][Next]_<<asked, answered, hungup>>
=============================================================================
