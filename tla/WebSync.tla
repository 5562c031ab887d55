------------------------------ MODULE WebSync ------------------------------
(***************************************************************************)
(* Synchronisation of the application list between the MySQL tables, the   *)
(* request handler and the Qt clients of src/展现web应用.                  *)
(*                                                                         *)
(* A trigger marks every user's row of webapplicationstate when the table  *)
(* webapplication changes.  In each client a thread polls the row, fetches *)
(* the table when it is marked, leaves the rows in the global qjo and      *)
(* emits a queued signal; the GUI thread merges qjo into the widgets and   *)
(* then asks the server to clear the mark.  qjo and qjoflag are shared by  *)
(* the two threads without any lock.                                       *)
(*                                                                         *)
(* The contents of the table are abstracted to a version number: 0 stands  *)
(* for an empty JSON object, Torn for a list read while it was replaced.   *)
(* What a merge makes of the widgets row by row is the module ListMerge.   *)
(***************************************************************************)
EXTENDS Integers, FiniteSets

CONSTANTS
  Clients,
  Users,
  UserOf,      \* UserOf[c]: the account client c logs in with
  MaxEdits,    \* bound: changes of the table webapplication
  MaxFaults,   \* bound: lost exchanges and failing SQL statements
  MaxSignals,  \* bound: sendSynData signals waiting in a GUI event queue
  Lagging      \* the clients whose GUI thread may still be busy, or have a
               \* signal to handle, when the next poll begins (five seconds later)

ASSUME WSAssumption ==
  /\ IsFiniteSet(Clients)
  /\ UserOf \in [Clients -> Users]
  /\ MaxEdits \in Nat /\ MaxFaults \in Nat /\ MaxSignals \in Nat \ {0}
  /\ Lagging \subseteq Clients

Versions == 0..(MaxEdits + 1)
Torn     == -1
NoRow    == -1
NoReply  == -1
DbError  == -2

VARIABLES
  table,    \* version of webapplication
  state,    \* webapplicationstate: each user's mark, NoRow before the insert
  lost,     \* history: lost[c], the mark was cleared or inserted while c was
            \* not up to date, or c took an old list or none after that
  faults,   \* faults so far
  gpc,      \* gpc[c]: GUI thread
  named,    \* named[c]: the global userName is set
  shown,    \* shown[c]: version last merged into the widgets of vApW
  count,    \* count[c]: version of qjo when handleSynData took its count
  greply,   \* greply[c]: reply on the GUI thread's connection
  signals,  \* signals[c]: queued sendSynData signals
  qjo,      \* qjo[c]: the shared rows
  qjoflag,  \* qjoflag[c]: FALSE while handleSynData runs
  spc,      \* spc[c]: synchronisation thread
  sreply    \* sreply[c]: reply on its connection

dbVars   == <<table, state, lost>>
guiVars  == <<gpc, named, shown, count, greply>>
syncVars == <<spc, sreply>>
vars == <<dbVars, faults, guiVars, signals, qjo, qjoflag, syncVars>>

Set(f, c, v) == [f EXCEPT ![c] = v]

GuiGoto(c, to)  == gpc' = Set(gpc, c, to)
SyncGoto(c, to) == spc' = Set(spc, c, to)

-----------------------------------------------------------------------------
(* The server.  One SQL statement is one step.                               *)

(* A client is up to date when it has merged the table, or will read it.     *)
UpToDate(c) ==
  CASE gpc[c] \in {"login", "list_sent"} -> TRUE
    [] gpc[c] = "list_reply"             -> greply[c] = table
    [] OTHER                             -> shown[c] = table

Sharing(c) == {d \in Clients : UserOf[d] = UserOf[c]}
Missed(c)  == [d \in Clients |-> lost[d] \/ (d \in Sharing(c) /\ ~UpToDate(d))]

(* The administrator changes webapplication; the trigger marks all rows.     *)
Mark(rows) == [u \in Users |-> IF rows[u] = NoRow THEN NoRow ELSE 1]
EditTable ==
  /\ table <= MaxEdits
  /\ table' = table + 1
  /\ state' = Mark(state)
  /\ lost' = [c \in Clients |-> lost[c] /\ state[UserOf[c]] = NoRow]
  /\ UNCHANGED <<faults, guiVars, signals, qjo, qjoflag, syncVars>>

(* Command 3: the whole table.                                               *)
ServeList(c) ==
  /\ gpc[c] = "list_sent"
  /\ GuiGoto(c, "list_reply") /\ greply' = Set(greply, c, table)
  /\ UNCHANGED <<dbVars, faults, named, shown, count, signals, qjo, qjoflag, syncVars>>

(* Command 5: the user's row; without one, a cleared row is inserted by a    *)
(* second statement and the reply is empty.                                  *)
ServeTest(c) ==
  /\ spc[c] = "test_sent"
  /\ IF state[UserOf[c]] = NoRow
     THEN SyncGoto(c, "insert") /\ UNCHANGED sreply
     ELSE SyncGoto(c, "test_reply") /\ sreply' = Set(sreply, c, state[UserOf[c]])
  /\ UNCHANGED <<dbVars, faults, guiVars, signals, qjo, qjoflag>>

\* (Two of them at once make two rows: one mark is kept here, the last written.)
ServeInsert(c) ==
  /\ spc[c] = "insert"
  /\ SyncGoto(c, "test_reply") /\ sreply' = Set(sreply, c, NoReply)
  /\ state' = Set(state, UserOf[c], 0) /\ lost' = Missed(c)
  /\ UNCHANGED <<table, faults, guiVars, signals, qjo, qjoflag>>

(* Command 6: the whole table again.                                         *)
ServeFetch(c) ==
  /\ spc[c] = "fetch_sent"
  /\ SyncGoto(c, "fetch_reply") /\ sreply' = Set(sreply, c, table)
  /\ UNCHANGED <<dbVars, faults, guiVars, signals, qjo, qjoflag>>

(* Command 9: the mark is cleared unconditionally.                           *)
ServeAck(c) ==
  /\ gpc[c] = "ack_sent"
  /\ GuiGoto(c, "ack_reply")
  /\ IF state[UserOf[c]] = NoRow
     THEN UNCHANGED <<state, lost>>
     ELSE state' = Set(state, UserOf[c], 0) /\ lost' = Missed(c)
  /\ UNCHANGED <<table, faults, named, shown, count, greply, signals, qjo, qjoflag, syncVars>>

(* A statement fails.  Commands 5 and 6 report it; command 9 tests the       *)
(* result of mysql_query for < 0 and reports success, leaving the mark.      *)
Fault == faults < MaxFaults /\ faults' = faults + 1

FailTest(c) ==
  /\ spc[c] \in {"test_sent", "insert"} /\ Fault
  /\ SyncGoto(c, "test_reply") /\ sreply' = Set(sreply, c, DbError)
  /\ UNCHANGED <<dbVars, guiVars, signals, qjo, qjoflag>>

FailFetch(c) ==
  /\ spc[c] = "fetch_sent" /\ Fault
  /\ SyncGoto(c, "fetch_reply") /\ sreply' = Set(sreply, c, DbError)
  /\ UNCHANGED <<dbVars, guiVars, signals, qjo, qjoflag>>

FailAck(c) ==
  /\ gpc[c] = "ack_sent" /\ Fault
  /\ GuiGoto(c, "ack_reply")
  /\ UNCHANGED <<dbVars, named, shown, count, greply, signals, qjo, qjoflag, syncVars>>

-----------------------------------------------------------------------------
(* The synchronisation thread.                                               *)

(* One poll every five seconds, skipped while handleSynData runs or nobody   *)
(* has logged in.                                                            *)
Poll(c) ==
  /\ spc[c] = "sleep" /\ qjoflag[c] /\ named[c]
  /\ signals[c] < MaxSignals
  /\ c \notin Lagging => gpc[c] = "idle" /\ signals[c] = 0
  /\ SyncGoto(c, "test_sent")
  /\ UNCHANGED <<dbVars, faults, guiVars, signals, qjo, qjoflag, sreply>>

RecvTest(c) ==
  /\ spc[c] = "test_reply"
  /\ SyncGoto(c, IF sreply[c] = 1 THEN "fetch_sent" ELSE "sleep")
  /\ UNCHANGED <<dbVars, faults, guiVars, signals, qjo, qjoflag, sreply>>

(* qjo is assigned before the return code is looked at: an error reply       *)
(* leaves an empty object in it.                                             *)
RecvFetchAnyway(c) ==  \* mutant: the return code is not looked at
  /\ spc[c] = "fetch_reply"
  /\ qjo' = Set(qjo, c, IF sreply[c] = DbError THEN 0 ELSE sreply[c])
  /\ SyncGoto(c, "emit")
  /\ UNCHANGED <<dbVars, faults, guiVars, signals, qjoflag, sreply>>
RecvFetch(c) ==
  /\ spc[c] = "fetch_reply"
  /\ qjo' = Set(qjo, c, IF sreply[c] = DbError THEN 0 ELSE sreply[c])
  /\ SyncGoto(c, IF sreply[c] = DbError THEN "sleep" ELSE "emit")
  /\ UNCHANGED <<dbVars, faults, guiVars, signals, qjoflag, sreply>>

Emit(c) ==
  /\ spc[c] = "emit"
  /\ signals' = Set(signals, c, IF qjoflag[c] THEN signals[c] + 1 ELSE signals[c])
  /\ SyncGoto(c, "sleep")
  /\ UNCHANGED <<dbVars, faults, guiVars, qjo, qjoflag, sreply>>

(* The connection breaks before or after the server handled the request; the *)
(* thread reconnects and goes back to sleep.                                 *)
SyncLost(c) ==
  /\ spc[c] \in {"test_sent", "test_reply", "fetch_sent", "fetch_reply"} /\ Fault
  /\ SyncGoto(c, "sleep")
  /\ UNCHANGED <<dbVars, guiVars, signals, qjo, qjoflag, sreply>>

-----------------------------------------------------------------------------
(* The GUI thread.  A slot runs to its end before the next signal is taken.  *)

(* A successful login sets userName and requests the list; a successful      *)
(* registration requests the list only.                                      *)
Enter(c, login) ==
  /\ gpc[c] = "login"
  /\ GuiGoto(c, "list_sent") /\ named' = Set(named, c, login)
  /\ UNCHANGED <<dbVars, faults, shown, count, greply, signals, qjo, qjoflag, syncVars>>
Login(c)    == Enter(c, TRUE)
Register(c) == Enter(c, FALSE)

RecvList(c) ==
  /\ gpc[c] = "list_reply"
  /\ GuiGoto(c, "idle") /\ shown' = Set(shown, c, greply[c])
  /\ UNCHANGED <<dbVars, faults, named, count, greply, signals, qjo, qjoflag, syncVars>>

(* createWebApplication does not retry: the client starts with no list.      *)
ListLost(c) ==
  /\ gpc[c] \in {"list_sent", "list_reply"} /\ Fault
  /\ GuiGoto(c, "idle")
  /\ lost' = Set(lost, c, lost[c] \/ state[UserOf[c]] = 0)
  /\ UNCHANGED <<table, state, named, shown, count, greply, signals, qjo, qjoflag, syncVars>>

HandleSynData(c) ==
  /\ gpc[c] = "idle" /\ signals[c] > 0
  /\ signals' = Set(signals, c, signals[c] - 1)
  /\ qjoflag' = Set(qjoflag, c, FALSE) /\ count' = Set(count, c, qjo[c])
  /\ GuiGoto(c, "merge")
  /\ UNCHANGED <<dbVars, faults, named, shown, greply, qjo, syncVars>>

(* The loops read qjo again for every row: a replacement meanwhile mixes two *)
(* lists, unless it comes before the first row and has as many.  The merge   *)
(* trusts its rows: with the mark clear already, nothing repairs stale ones. *)
Merged(c) == IF count[c] \in {0, qjo[c]} THEN {count[c]} ELSE {qjo[c], Torn} \ {0}
Merge(c) ==
  /\ gpc[c] = "merge"
  /\ \E v \in Merged(c) :
       /\ shown' = Set(shown, c, v)
       /\ lost' = Set(lost, c, lost[c] \/ (v # table /\ state[UserOf[c]] = 0))
  /\ GuiGoto(c, "ack_sent")
  /\ UNCHANGED <<table, state, faults, named, count, greply, signals, qjo, qjoflag, syncVars>>

(* The exchange failed: reconnect and send the request again, for ever.      *)
AckLost(c) ==
  /\ gpc[c] = "ack_reply" /\ Fault
  /\ GuiGoto(c, "ack_sent")
  /\ UNCHANGED <<dbVars, named, shown, count, greply, signals, qjo, qjoflag, syncVars>>

RecvAck(c) ==
  /\ gpc[c] = "ack_reply"
  /\ GuiGoto(c, "enable") /\ qjo' = Set(qjo, c, 0)
  /\ UNCHANGED <<dbVars, faults, named, shown, count, greply, signals, qjoflag, syncVars>>

EnableForgotten(c) ==  \* mutant: handleSynData returns without setting qjoflag
  /\ gpc[c] = "enable"
  /\ GuiGoto(c, "idle")
  /\ UNCHANGED <<dbVars, faults, named, shown, count, greply, signals, qjo, qjoflag, syncVars>>
Enable(c) ==
  /\ gpc[c] = "enable"
  /\ GuiGoto(c, "idle") /\ qjoflag' = Set(qjoflag, c, TRUE)
  /\ UNCHANGED <<dbVars, faults, named, shown, count, greply, signals, qjo, syncVars>>

-----------------------------------------------------------------------------
Init ==
  /\ table = 1 /\ state = [u \in Users |-> NoRow]
  /\ lost = [c \in Clients |-> FALSE] /\ faults = 0
  /\ gpc = [c \in Clients |-> "login"] /\ named = [c \in Clients |-> FALSE]
  /\ shown = [c \in Clients |-> 0] /\ count = [c \in Clients |-> 0]
  /\ greply = [c \in Clients |-> NoReply]
  /\ signals = [c \in Clients |-> 0]
  /\ qjo = [c \in Clients |-> 0] /\ qjoflag = [c \in Clients |-> TRUE]
  /\ spc = [c \in Clients |-> "sleep"] /\ sreply = [c \in Clients |-> NoReply]

Server(c) == ServeList(c) \/ ServeTest(c) \/ ServeInsert(c) \/ ServeFetch(c) \/ ServeAck(c)
SyncThread(c) == Poll(c) \/ RecvTest(c) \/ RecvFetch(c) \/ Emit(c)
GuiThread(c) == RecvList(c) \/ HandleSynData(c) \/ Merge(c) \/ RecvAck(c) \/ Enable(c)
Environment(c) ==
  \/ Login(c) \/ Register(c)
  \/ FailTest(c) \/ FailFetch(c) \/ FailAck(c)
  \/ SyncLost(c) \/ ListLost(c) \/ AckLost(c)

Next ==
  \/ EditTable
  \/ \E c \in Clients : Server(c) \/ SyncThread(c) \/ GuiThread(c) \/ Environment(c)

Spec == Init /\ [][Next]_vars

(* The server answers, the poll comes round and the event loop runs; users,  *)
(* the administrator and faults are not obliged to act.                      *)
ServeGui(c)  == ServeList(c) \/ ServeAck(c)
ServeSync(c) == ServeTest(c) \/ ServeInsert(c) \/ ServeFetch(c)
Fairness ==
  \A c \in Clients :
    /\ WF_vars(ServeGui(c)) /\ WF_vars(ServeSync(c))
    /\ WF_vars(SyncThread(c)) /\ WF_vars(GuiThread(c))

FairSpec == Spec /\ Fairness

-----------------------------------------------------------------------------
(* Types.                                                                    *)
TypeOK ==
  /\ table \in Versions \ {0}
  /\ state \in [Users -> {NoRow, 0, 1}] /\ lost \in [Clients -> BOOLEAN]
  /\ faults \in 0..MaxFaults
  /\ gpc \in [Clients -> {"login", "list_sent", "list_reply", "idle", "merge",
                         "ack_sent", "ack_reply", "enable"}]
  /\ named \in [Clients -> BOOLEAN]
  /\ shown \in [Clients -> Versions \cup {Torn}] /\ count \in [Clients -> Versions]
  /\ greply \in [Clients -> Versions \cup {NoReply}]
  /\ signals \in [Clients -> 0..MaxSignals]
  /\ qjo \in [Clients -> Versions] /\ qjoflag \in [Clients -> BOOLEAN]
  /\ spc \in [Clients -> {"sleep", "test_sent", "insert", "test_reply",
                         "fetch_sent", "fetch_reply", "emit"}]
  /\ sreply \in [Clients -> Versions \cup {NoReply, DbError}]

(* Once the administrator stops, every logged-in client has merged the table,*)
(* unless its row was cleared, or inserted as clear, while it did not, or it *)
(* lost its first list, or merged rows of an earlier poll, when the row was  *)
(* clear: a client ends up out of date for good in no other way.             *)
Converges == <>[](\A c \in Clients : named[c] => shown[c] = table \/ lost[c])

(* Where the GUI thread keeps up with the polls, the merge and all it relies *)
(* on (qjo, qjoflag, the signal) take published versions only, and never an  *)
(* older one, whatever the other clients of the account do.                  *)
Keeping == Clients \ Lagging
Widgets == [c \in Keeping |-> shown[c]]
Replica == INSTANCE AppReplica WITH Clients <- Keeping, shown <- Widgets
Forward == Replica!Spec

(* Nor does handleSynData run there on the empty object that an              *)
(* acknowledgement or an error reply leaves in qjo.                          *)
MergesRows ==
  \A c \in Keeping : gpc[c] = "merge" => qjo[c] # 0 /\ count[c] = qjo[c]
=============================================================================
