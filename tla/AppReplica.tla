----------------------------- MODULE AppReplica -----------------------------
(***************************************************************************)
(* What list synchronisation promises the user of one client: the list     *)
(* brought to the screen last is some version the administrator published, *)
(* and it only ever moves forward.                                         *)
(***************************************************************************)
EXTENDS Integers

CONSTANTS Clients, MaxEdits

VARIABLES
  table,  \* the version the server's table webapplication holds
  shown   \* shown[c]: the version client c has brought to the screen, 0 before the first

Init ==
  /\ table = 1
  /\ shown = [c \in Clients |-> 0]

Edit ==
  /\ table <= MaxEdits
  /\ table' = table + 1
  /\ UNCHANGED shown

Refresh(c) ==
  /\ \E v \in shown[c]..table : shown' = [shown EXCEPT ![c] = v]
  /\ UNCHANGED table

Next == Edit \/ \E c \in Clients : Refresh(c)

Spec == Init /\ [][Next]_<<table, shown>>
=============================================================================
