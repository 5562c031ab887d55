--------------------------- MODULE WebSync_proofs ---------------------------
(***************************************************************************)
(* What holds of the list synchronisation for any clients, users, edits    *)
(* and faults: the types, and, where the GUI thread keeps up, that a       *)
(* client implements AppReplica.  Then, of the merge that WebSync takes in *)
(* one step and the module ListMerge row by row: what it shows, and when   *)
(* that is the whole list.                                                 *)
(***************************************************************************)
EXTENDS WebSync, ListMerge, TLAPS, SequenceTheorems

(* A reply that will be stored is a version; a poll leaves room for the      *)
(* signal it may emit.                                                       *)
Replies(c) ==
  /\ gpc[c] = "list_reply" => greply[c] \in Versions
  /\ spc[c] = "fetch_reply" => sreply[c] \in Versions \cup {DbError}
  /\ spc[c] # "sleep" => signals[c] < MaxSignals
TypeInv == TypeOK /\ \A c \in Clients : Replies(c)

Action(c) == Server(c) \/ SyncThread(c) \/ GuiThread(c) \/ Environment(c)

LEMMA Bounds == MaxEdits \in Nat /\ MaxFaults \in Nat /\ MaxSignals \in Nat \ {0}
BY WSAssumption

LEMMA TypeInit == Init => TypeInv
<1> SUFFICES ASSUME Init PROVE TypeInv
  OBVIOUS
<1> USE Bounds
<1>1. 0 \in Versions /\ 1 \in Versions \ {0} /\ 0 \in 0..MaxSignals /\ 0 \in 0..MaxFaults
  BY DEF Versions
<1>2. TypeOK
  BY <1>1 DEF Init, TypeOK
<1> QED
  BY <1>2 DEF Init, TypeInv, Replies

(* The administrator.                                                        *)
LEMMA TypeEdit == TypeInv /\ EditTable => TypeInv'
<1> SUFFICES ASSUME TypeInv, EditTable PROVE TypeInv'
  OBVIOUS
<1> USE Bounds
<1>1. table' \in Versions \ {0}
  BY DEF TypeInv, TypeOK, EditTable, Versions
<1>2. state' \in [Users -> {NoRow, 0, 1}]
  BY DEF EditTable, Mark
<1>3. lost' \in [Clients -> BOOLEAN]
  BY DEF TypeInv, TypeOK, EditTable
<1> QED
  BY <1>1, <1>2, <1>3 DEF TypeInv, TypeOK, Replies, EditTable, guiVars, syncVars

(* What one client does leaves the others' variables alone.                  *)
LEMMA Elsewhere ==
  ASSUME TypeOK, NEW c \in Clients, NEW d \in Clients, d # c, Action(c)
  PROVE  /\ gpc'[d] = gpc[d] /\ named'[d] = named[d] /\ shown'[d] = shown[d]
         /\ count'[d] = count[d] /\ greply'[d] = greply[d] /\ signals'[d] = signals[d]
         /\ qjo'[d] = qjo[d] /\ qjoflag'[d] = qjoflag[d]
         /\ spc'[d] = spc[d] /\ sreply'[d] = sreply[d]
<1> USE DEF TypeOK, Set, GuiGoto, SyncGoto, guiVars, syncVars
<1>1. CASE Server(c)
  BY <1>1 DEF Server, ServeList, ServeTest, ServeInsert, ServeFetch, ServeAck
<1>2. CASE SyncThread(c)
  BY <1>2 DEF SyncThread, Poll, RecvTest, RecvFetch, Emit
<1>3. CASE GuiThread(c)
  BY <1>3 DEF GuiThread, RecvList, HandleSynData, Merge, RecvAck, Enable
<1>4. CASE Environment(c)
  BY <1>4 DEF Environment, Login, Register, Enter, FailTest, FailFetch, FailAck, SyncLost,
              ListLost, AckLost
<1> QED
  BY <1>1, <1>2, <1>3, <1>4 DEF Action

LEMMA TypeAction ==
  ASSUME TypeInv, NEW c \in Clients, Action(c)
  PROVE  TypeOK' /\ Replies(c)'
<1> USE Bounds DEF TypeInv, TypeOK, Replies, Set, GuiGoto, SyncGoto, guiVars, syncVars, dbVars
<1>u. UserOf[c] \in Users /\ 0 \in Versions /\ 1 \in Versions
  BY WSAssumption DEF Versions
<1>m. Missed(c) \in [Clients -> BOOLEAN]
  BY DEF Missed
<1>f. Fault => faults' \in 0..MaxFaults
  BY DEF Fault
<1>1. CASE ServeList(c) \/ ServeFetch(c)
  BY <1>1, <1>u DEF ServeList, ServeFetch
<1>2. CASE ServeTest(c)
  BY <1>2, <1>u DEF ServeTest
<1>3. CASE ServeInsert(c) \/ ServeAck(c)
  <2>1. state' \in [Users -> {NoRow, 0, 1}]
    BY <1>3, <1>u DEF ServeInsert, ServeAck
  <2>2. lost' \in [Clients -> BOOLEAN]
    BY <1>3, <1>m DEF ServeInsert, ServeAck
  <2>3. CASE ServeInsert(c)
    BY <2>1, <2>2, <2>3 DEF ServeInsert
  <2>4. CASE ServeAck(c)
    BY <2>1, <2>2, <2>4 DEF ServeAck
  <2> QED
    BY <1>3, <2>3, <2>4
<1>4. CASE Poll(c) \/ RecvTest(c)
  BY <1>4 DEF Poll, RecvTest
<1>5. CASE RecvFetch(c)
  BY <1>5, <1>u DEF RecvFetch
<1>6. CASE Emit(c)
  BY <1>6 DEF Emit
<1>7. CASE RecvList(c) \/ RecvAck(c) \/ Enable(c)
  <2>1. CASE RecvList(c)
    BY <2>1 DEF RecvList
  <2>2. CASE RecvAck(c)
    BY <2>2, <1>u DEF RecvAck
  <2>3. CASE Enable(c)
    BY <2>3 DEF Enable
  <2> QED
    BY <1>7, <2>1, <2>2, <2>3
<1>8. CASE HandleSynData(c)
  BY <1>8 DEF HandleSynData
<1>9. CASE Merge(c)
  <2>1. \A v \in Merged(c) : v \in Versions \cup {Torn}
    BY DEF Merged
  <2>2. shown' \in [Clients -> Versions \cup {Torn}]
    BY <1>9, <2>1 DEF Merge
  <2>3. lost' \in [Clients -> BOOLEAN]
    BY <1>9 DEF Merge
  <2> QED
    BY <1>9, <2>2, <2>3 DEF Merge
<1>10. CASE FailTest(c) \/ FailFetch(c) \/ FailAck(c) \/ SyncLost(c) \/ AckLost(c)
  BY <1>10, <1>f DEF FailTest, FailFetch, FailAck, SyncLost, AckLost
<1>11. CASE ListLost(c)
  BY <1>11, <1>f DEF ListLost
<1>12. CASE Login(c) \/ Register(c)
  BY <1>12 DEF Login, Register, Enter
<1> QED
  BY <1>1, <1>2, <1>3, <1>4, <1>5, <1>6, <1>7, <1>8, <1>9, <1>10, <1>11, <1>12
     DEF Action, Server, SyncThread, GuiThread, Environment

LEMMA TypeNext == TypeInv /\ [Next]_vars => TypeInv'
<1> SUFFICES ASSUME TypeInv, [Next]_vars PROVE TypeInv'
  OBVIOUS
<1>1. CASE EditTable
  BY <1>1, TypeEdit
<1>2. ASSUME NEW c \in Clients, Action(c) PROVE TypeInv'
  <2>1. TypeOK' /\ Replies(c)'
    BY <1>2, TypeAction
  <2>2. ASSUME NEW d \in Clients, d # c PROVE Replies(d)'
    BY <1>2, <2>2, Elsewhere DEF TypeInv, Replies
  <2> QED
    BY <2>1, <2>2 DEF TypeInv
<1>3. CASE UNCHANGED vars
  BY <1>3 DEF vars, dbVars, guiVars, syncVars, TypeInv, TypeOK, Replies
<1> QED
  BY <1>1, <1>2, <1>3 DEF Next, Action

(* The types of the variables.                                               *)
THEOREM TypeCorrect == Spec => []TypeOK
<1>1. TypeInv => TypeOK
  BY DEF TypeInv
<1> QED
  BY <1>1, TypeInit, TypeNext, PTL DEF Spec

-----------------------------------------------------------------------------
(* A GUI thread that keeps up is idle, with no signal waiting, whenever a    *)
(* poll is under way: what the poll leaves in qjo stays there until it is    *)
(* merged, and is no older than what is shown.                               *)
Waits(c) == spc[c] = "sleep" /\ signals[c] = 0
Newer(c, v) == v \in 1..table /\ v >= shown[c]
InTurn(c) ==
  /\ shown[c] \in 0..table
  /\ gpc[c] \in {"login", "list_sent", "list_reply"} => Waits(c) /\ shown[c] = 0
  /\ gpc[c] = "list_reply" => greply[c] \in 1..table
  /\ gpc[c] \in {"merge", "ack_sent", "ack_reply", "enable"} => Waits(c)
  /\ gpc[c] = "merge" => count[c] = qjo[c] /\ Newer(c, qjo[c])
  /\ qjoflag[c] <=> gpc[c] \notin {"merge", "ack_sent", "ack_reply", "enable"}
  /\ spc[c] # "sleep" => signals[c] = 0
  /\ spc[c] = "fetch_reply" => sreply[c] = DbError \/ Newer(c, sreply[c])
  /\ spc[c] = "emit" => Newer(c, qjo[c])
  /\ signals[c] > 0 => signals[c] = 1 /\ Newer(c, qjo[c])
TurnInv == \A c \in Keeping : InTurn(c)

LEMMA TurnInit == Init => TurnInv
BY DEF Init, TurnInv, InTurn, Waits, Keeping

LEMMA TurnAction ==
  ASSUME TypeInv, NEW c \in Keeping, InTurn(c), Action(c)
  PROVE  InTurn(c)'
<1> c \in Clients /\ c \notin Lagging
  BY DEF Keeping
<1> USE Bounds DEF TypeInv, TypeOK, InTurn, Waits, Newer, Set, GuiGoto, SyncGoto, guiVars, syncVars,
                   dbVars, Versions
<1>1. CASE ServeList(c)
  BY <1>1 DEF ServeList
<1>2. CASE ServeTest(c) \/ ServeInsert(c) \/ FailTest(c)
  BY <1>2 DEF ServeTest, ServeInsert, FailTest
<1>3. CASE ServeFetch(c) \/ FailFetch(c)
  BY <1>3 DEF ServeFetch, FailFetch
<1>4. CASE ServeAck(c) \/ FailAck(c) \/ AckLost(c)
  BY <1>4 DEF ServeAck, FailAck, AckLost
<1>5. CASE Poll(c) \/ RecvTest(c) \/ SyncLost(c)
  BY <1>5 DEF Poll, RecvTest, SyncLost
<1>6. CASE RecvFetch(c)
  BY <1>6 DEF RecvFetch, DbError
<1>7. CASE Emit(c)
  BY <1>7 DEF Emit
<1>8. CASE RecvList(c) \/ ListLost(c)
  BY <1>8 DEF RecvList, ListLost
<1>9. CASE HandleSynData(c)
  BY <1>9 DEF HandleSynData
<1>10. CASE Merge(c)
  <2>1. count[c] = qjo[c] /\ qjo[c] \in 1..table
    BY <1>10 DEF Merge
  <2>2. shown' = [shown EXCEPT ![c] = qjo[c]] /\ gpc' = [gpc EXCEPT ![c] = "ack_sent"]
    BY <1>10, <2>1 DEF Merge, Merged
  <2>3. shown'[c] = qjo[c] /\ gpc'[c] = "ack_sent" /\ Waits(c)
    BY <1>10, <2>2 DEF Merge
  <2> QED
    BY <1>10, <2>1, <2>3 DEF Merge
<1>11. CASE RecvAck(c) \/ Enable(c)
  BY <1>11 DEF RecvAck, Enable
<1>12. CASE Login(c) \/ Register(c)
  BY <1>12 DEF Login, Register, Enter
<1> QED
  BY <1>1, <1>2, <1>3, <1>4, <1>5, <1>6, <1>7, <1>8, <1>9, <1>10, <1>11, <1>12
     DEF Action, Server, SyncThread, GuiThread, Environment

LEMMA TurnNext == TypeInv /\ TurnInv /\ [Next]_vars => TurnInv'
<1> SUFFICES ASSUME TypeInv, TurnInv, [Next]_vars PROVE TurnInv'
  OBVIOUS
<1>1. CASE EditTable
  BY <1>1, Bounds DEF EditTable, TurnInv, InTurn, Waits, Newer, TypeInv, TypeOK, Versions, guiVars, syncVars,
                      Keeping
<1>2. ASSUME NEW c \in Clients, Action(c) PROVE TurnInv'
  <2>1. c \in Keeping => InTurn(c)'
    BY <1>2, TurnAction DEF TurnInv
  <2>2. table' = table
    BY <1>2 DEF Action, Server, SyncThread, GuiThread, Environment, ServeList, ServeTest, ServeInsert,
                ServeFetch, ServeAck, Poll, RecvTest, RecvFetch, Emit, RecvList, HandleSynData, Merge,
                RecvAck, Enable, Login, Register, Enter, FailTest, FailFetch, FailAck, SyncLost,
                ListLost, AckLost, dbVars
  <2>3. ASSUME NEW d \in Keeping, d # c PROVE InTurn(d)'
    BY <1>2, <2>2, <2>3, Elsewhere DEF TypeInv, TurnInv, InTurn, Waits, Newer, Keeping
  <2> QED
    BY <2>1, <2>3 DEF TurnInv
<1>3. CASE UNCHANGED vars
  BY <1>3 DEF vars, dbVars, guiVars, syncVars, TurnInv, InTurn, Waits, Newer
<1> QED
  BY <1>1, <1>2, <1>3 DEF Next, Action

(* Widgets change when the first list arrives and when rows are merged, each *)
(* time to a version that is published and no older.                         *)
LEMMA ForwardStep ==
  ASSUME TypeInv, TurnInv, [Next]_vars
  PROVE  [Replica!Next]_<<table, Widgets>>
<1> USE DEF TypeInv, TypeOK, TurnInv, InTurn, Newer
<1>1. CASE EditTable
  BY <1>1 DEF EditTable, guiVars, Widgets, Replica!Next, Replica!Edit
<1>2. ASSUME NEW c \in Keeping, RecvList(c) \/ Merge(c) PROVE Replica!Next
  <2>1. c \in Clients
    BY DEF Keeping
  <2>2. table' = table /\ \E v \in shown[c]..table : shown' = [shown EXCEPT ![c] = v]
    <3>1. CASE RecvList(c)
      <4>1. /\ shown[c] = 0 /\ greply[c] \in 0..table /\ table' = table
            /\ shown' = [shown EXCEPT ![c] = greply[c]]
        BY <2>1, <3>1 DEF RecvList, Set, dbVars
      <4> QED
        BY <4>1
    <3>2. CASE Merge(c)
      <4>1. count[c] = qjo[c] /\ qjo[c] \in shown[c]..table
        BY <2>1, <3>2, Bounds DEF Merge, Versions
      <4>2. table' = table /\ shown' = [shown EXCEPT ![c] = qjo[c]]
        BY <3>2, <4>1 DEF Merge, Merged, Set
      <4> QED
        BY <4>1, <4>2
    <3> QED
      BY <1>2, <3>1, <3>2
  <2>3. PICK v \in shown[c]..table : shown' = [shown EXCEPT ![c] = v]
    BY <2>2
  <2>4. Widgets' = [Widgets EXCEPT ![c] = v] /\ Widgets[c] = shown[c]
    BY <2>1, <2>3 DEF Widgets, Keeping
  <2> QED
    BY <2>2, <2>3, <2>4 DEF Replica!Next, Replica!Refresh
<1>3. ASSUME NEW c \in Clients \ Keeping, RecvList(c) \/ Merge(c) PROVE UNCHANGED <<table, Widgets>>
  <2>1. table' = table /\ \E v : shown' = [shown EXCEPT ![c] = v]
    BY <1>3 DEF RecvList, Merge, Set, dbVars
  <2> QED
    BY <2>1 DEF Widgets, Keeping
<1>4. ASSUME NEW c \in Clients, Action(c), ~RecvList(c), ~Merge(c) PROVE UNCHANGED <<table, Widgets>>
  <2>1. UNCHANGED <<table, shown>>
    BY <1>4 DEF Action, Server, SyncThread, GuiThread, Environment, ServeList, ServeTest, ServeInsert,
                ServeFetch, ServeAck, Poll, RecvTest, RecvFetch, Emit, HandleSynData,
                RecvAck, Enable, Login, Register, Enter, FailTest, FailFetch, FailAck, SyncLost,
                ListLost, AckLost, dbVars, guiVars
  <2> QED
    BY <2>1 DEF Widgets
<1>5. CASE UNCHANGED vars
  BY <1>5 DEF vars, dbVars, guiVars, Widgets
<1> QED
  BY <1>1, <1>2, <1>3, <1>4, <1>5 DEF Next, Action, GuiThread

(* Where the GUI thread keeps up, the widgets of a client show published     *)
(* versions only and never an older one, whatever the other clients do.      *)
THEOREM ShowsForward == Spec => Forward
<1>1. Init => TypeInv /\ TurnInv /\ Replica!Init
  BY TypeInit, TurnInit DEF Init, Replica!Init, Widgets, Keeping
<1>2. TypeInv /\ TurnInv /\ [Next]_vars => (TypeInv /\ TurnInv)'
  BY TypeNext, TurnNext
<1>3. TypeInv /\ TurnInv /\ [Next]_vars => [Replica!Next]_<<table, Widgets>>
  BY ForwardStep
<1> QED
  BY <1>1, <1>2, <1>3, PTL DEF Spec, Forward, Replica!Spec

(* Nor does handleSynData run on the empty object there.                     *)
THEOREM MergesSomething == Spec => []MergesRows
<1>1. Init => TypeInv /\ TurnInv
  BY TypeInit, TurnInit
<1>2. TypeInv /\ TurnInv /\ [Next]_vars => (TypeInv /\ TurnInv)'
  BY TypeNext, TurnNext
<1>3. TypeInv /\ TurnInv => MergesRows
  BY DEF TypeInv, TypeOK, TurnInv, InTurn, Newer, MergesRows
<1> QED
  BY <1>1, <1>2, <1>3, PTL DEF Spec

-----------------------------------------------------------------------------
(* Nobody is left behind.  A client that is not up to date has a mark that   *)
(* is not clear, or counts as lost; and its polls are skipped during         *)
(* handleSynData only.                                                       *)
Serving == {"merge", "ack_sent", "ack_reply", "enable"}
Flagged(c) == qjoflag[c] <=> gpc[c] \notin Serving
Marked(c)  == UpToDate(c) \/ lost[c] \/ state[UserOf[c]] # 0
StaleInv == \A c \in Clients : Flagged(c) /\ Marked(c)

LEMMA FlaggedAction ==
  ASSUME TypeOK, NEW c \in Clients, Flagged(c), Action(c)
  PROVE  Flagged(c)'
<1> USE DEF TypeOK, Flagged, Serving, Set, GuiGoto, SyncGoto, guiVars, syncVars
<1>1. CASE Server(c)
  BY <1>1 DEF Server, ServeList, ServeTest, ServeInsert, ServeFetch, ServeAck
<1>2. CASE SyncThread(c)
  BY <1>2 DEF SyncThread, Poll, RecvTest, RecvFetch, Emit
<1>3. CASE GuiThread(c)
  BY <1>3 DEF GuiThread, RecvList, HandleSynData, Merge, RecvAck, Enable
<1>4. CASE Environment(c)
  BY <1>4 DEF Environment, Login, Register, Enter, FailTest, FailFetch, FailAck, SyncLost,
              ListLost, AckLost
<1> QED
  BY <1>1, <1>2, <1>3, <1>4 DEF Action

(* The client that acts stays marked, whatever it does...                    *)
LEMMA MarkedAction ==
  ASSUME TypeOK, NEW c \in Clients, Marked(c), Action(c)
  PROVE  Marked(c)'
<1> UserOf[c] \in Users
  BY WSAssumption
<1> USE DEF TypeOK, Marked, UpToDate, Set, GuiGoto, SyncGoto, guiVars, syncVars, dbVars
<1>1. CASE ServeList(c) \/ ServeTest(c) \/ ServeFetch(c)
  BY <1>1 DEF ServeList, ServeTest, ServeFetch
<1>2. CASE ServeInsert(c) \/ ServeAck(c)
  <2>1. UpToDate(c)' <=> UpToDate(c)
    BY <1>2 DEF ServeInsert, ServeAck
  <2>2. lost' = Missed(c) \/ UNCHANGED <<state, lost>>
    BY <1>2 DEF ServeInsert, ServeAck
  <2>3. CASE lost' = Missed(c)
    <3>1. lost'[c] = (lost[c] \/ ~UpToDate(c))
      BY <2>3 DEF Missed, Sharing
    <3> HIDE DEF UpToDate
    <3> QED
      BY <2>1, <3>1
  <2>4. CASE UNCHANGED <<state, lost>>
    <3> HIDE DEF UpToDate
    <3> QED
      BY <2>1, <2>4
  <2> QED
    BY <2>2, <2>3, <2>4
<1>3. CASE SyncThread(c)
  BY <1>3 DEF SyncThread, Poll, RecvTest, RecvFetch, Emit
<1>4. CASE RecvList(c) \/ HandleSynData(c) \/ RecvAck(c) \/ Enable(c)
  <2>1. CASE RecvList(c)
    BY <2>1 DEF RecvList
  <2>2. CASE HandleSynData(c)
    BY <2>2 DEF HandleSynData
  <2>3. CASE RecvAck(c) \/ Enable(c)
    BY <2>3 DEF RecvAck, Enable
  <2> QED
    BY <1>4, <2>1, <2>2, <2>3
<1>5. CASE Merge(c)
  <2>1. PICK v \in Merged(c) : /\ shown' = [shown EXCEPT ![c] = v]
                               /\ lost' = [lost EXCEPT ![c] = lost[c] \/ (v # table /\ state[UserOf[c]] = 0)]
    BY <1>5 DEF Merge
  <2>2. shown'[c] = v /\ gpc'[c] = "ack_sent" /\ UNCHANGED <<table, state>>
    BY <1>5, <2>1 DEF Merge
  <2>3. CASE v # table /\ state[UserOf[c]] = 0
    <3>1. lost'[c] = TRUE
      BY <2>1, <2>3
    <3> QED
      BY <3>1
  <2>4. CASE v = table \/ state[UserOf[c]] # 0
    BY <2>2, <2>4
  <2> QED
    BY <2>3, <2>4
<1>6. CASE Login(c) \/ Register(c) \/ FailTest(c) \/ FailFetch(c) \/ FailAck(c) \/ SyncLost(c) \/ AckLost(c)
  BY <1>6 DEF Login, Register, Enter, FailTest, FailFetch, FailAck, SyncLost, AckLost
<1>7. CASE ListLost(c)
  BY <1>7 DEF ListLost
<1> QED
  BY <1>1, <1>2, <1>3, <1>4, <1>5, <1>6, <1>7 DEF Action, Server, GuiThread, Environment

(* ... and so do the others: who clears their mark too has missed them.      *)
LEMMA MarkedElsewhere ==
  ASSUME TypeOK, NEW c \in Clients, NEW d \in Clients, d # c, Marked(d), Action(c)
  PROVE  Marked(d)'
<1> UserOf[c] \in Users /\ UserOf[d] \in Users
  BY WSAssumption
<1> USE DEF TypeOK, Marked, Set
<1>1. table' = table
  BY DEF Action, Server, SyncThread, GuiThread, Environment, ServeList, ServeTest, ServeInsert,
         ServeFetch, ServeAck, Poll, RecvTest, RecvFetch, Emit, RecvList, HandleSynData, Merge,
         RecvAck, Enable, Login, Register, Enter, FailTest, FailFetch, FailAck, SyncLost,
         ListLost, AckLost, dbVars
<1>2. UpToDate(d)' <=> UpToDate(d)
  BY <1>1, Elsewhere DEF UpToDate
<1>3. CASE (ServeInsert(c) \/ ServeAck(c)) /\ ~UNCHANGED <<state, lost>>
  <2>1. state' = [state EXCEPT ![UserOf[c]] = 0] /\ lost' = Missed(c)
    BY <1>3 DEF ServeInsert, ServeAck
  <2>2. lost'[d] = (lost[d] \/ (UserOf[d] = UserOf[c] /\ ~UpToDate(d)))
    BY <2>1 DEF Missed, Sharing
  <2>3. UserOf[d] # UserOf[c] => state'[UserOf[d]] = state[UserOf[d]]
    BY <2>1
  <2> QED
    BY <1>2, <2>2, <2>3
<1>4. CASE UNCHANGED <<state, lost>>
  BY <1>2, <1>4
<1>5. CASE ListLost(c) \/ Merge(c)
  <2>1. state' = state /\ lost'[d] = lost[d]
    BY <1>5 DEF ListLost, Merge
  <2> QED
    BY <1>2, <2>1
<1>6. CASE ~(ServeInsert(c) \/ ServeAck(c) \/ ListLost(c) \/ Merge(c))
  <2>1. UNCHANGED <<state, lost>>
    BY <1>6 DEF Action, Server, SyncThread, GuiThread, Environment, ServeList, ServeTest,
         ServeFetch, Poll, RecvTest, RecvFetch, Emit, RecvList, HandleSynData,
         RecvAck, Enable, Login, Register, Enter, FailTest, FailFetch, FailAck, SyncLost, AckLost, dbVars
  <2> QED
    BY <1>4, <2>1
<1> QED
  BY <1>3, <1>4, <1>5, <1>6

LEMMA StaleNext == TypeOK /\ StaleInv /\ [Next]_vars => StaleInv'
<1> SUFFICES ASSUME TypeOK, StaleInv, [Next]_vars PROVE StaleInv'
  OBVIOUS
<1>1. CASE EditTable
  <2> SUFFICES ASSUME NEW c \in Clients PROVE Flagged(c)' /\ Marked(c)'
    BY DEF StaleInv
  <2>1. Flagged(c)'
    BY <1>1 DEF StaleInv, Flagged, EditTable, guiVars
  <2>2. UserOf[c] \in Users /\ state'[UserOf[c]] = IF state[UserOf[c]] = NoRow THEN NoRow ELSE 1
    BY <1>1, WSAssumption DEF EditTable, Mark
  <2> QED
    BY <2>1, <2>2 DEF Marked, NoRow
<1>2. ASSUME NEW c \in Clients, Action(c) PROVE StaleInv'
  <2>1. Flagged(c)' /\ Marked(c)'
    BY <1>2, FlaggedAction, MarkedAction DEF StaleInv
  <2>2. ASSUME NEW d \in Clients, d # c PROVE Flagged(d)' /\ Marked(d)'
    BY <1>2, <2>2, Elsewhere, MarkedElsewhere DEF StaleInv, Flagged
  <2> QED
    BY <2>1, <2>2 DEF StaleInv
<1>3. CASE UNCHANGED vars
  BY <1>3 DEF vars, dbVars, guiVars, syncVars, StaleInv, Flagged, Marked, UpToDate
<1> QED
  BY <1>1, <1>2, <1>3 DEF Next, Action

(* What Converges needs of every state: a client that is at rest shows the   *)
(* table, or its next poll is not skipped and finds that the mark is not     *)
(* clear, or it is lost in one of the ways of WebSync.                       *)
AtRest(c) == gpc[c] = "idle" /\ signals[c] = 0 /\ spc[c] = "sleep"
NoneLeftBehind ==
  \A c \in Clients : AtRest(c) /\ ~lost[c] => shown[c] = table \/ (qjoflag[c] /\ state[UserOf[c]] # 0)

THEOREM StaleIsPolled == Spec => []NoneLeftBehind
<1>1. Init => TypeInv /\ StaleInv
  <2>1. Init => StaleInv
    BY DEF Init, StaleInv, Flagged, Serving, Marked, UpToDate
  <2> QED
    BY <2>1, TypeInit
<1>2. TypeInv /\ StaleInv /\ [Next]_vars => (TypeInv /\ StaleInv)'
  BY TypeNext, StaleNext DEF TypeInv
<1>3. StaleInv => NoneLeftBehind
  BY DEF StaleInv, Flagged, Serving, Marked, UpToDate, AtRest, NoneLeftBehind
<1> QED
  BY <1>1, <1>2, <1>3, PTL DEF Spec

-----------------------------------------------------------------------------
(* The merge, ListMerge, for any names, number of rows and changes.          *)

(* The types; a walk does not pass the end of the widgets.                   *)
Values == Names \cup {Empty}
MergeTypes ==
  /\ tableRows \in Seq(Names) /\ qjoRows \in Seq(Names)
  /\ vApW \in Seq(Values) /\ was \in Seq(Values)
  /\ pc \in {"idle", "signal", "walk", "create", "drop", "ack"}
  /\ torn \in BOOLEAN
  /\ qjoCount \in Nat /\ i \in Nat /\ it \in Nat \ {0}
  /\ pc \in {"walk", "drop"} => it <= Len(vApW) + 1

(* The first n widgets show the n rows that end with the one at hand.        *)
Shows(n) == n <= i /\ n <= Len(vApW) /\ \A j \in 1..n : vApW[j] = qjoRows[(i - n) + j]

(* What is shown during a merge whose rows nobody replaces: the rows that    *)
(* end with the one at hand, and some widget once all rows are through.      *)
Merging == pc \in {"walk", "create", "drop", "ack"} /\ ~torn
EndInv ==
  Merging =>
    /\ qjoCount = Len(qjoRows) /\ i <= qjoCount
    /\ pc \in {"walk", "drop"} => Shows(it - 1) /\ (i = qjoCount /\ i > 0 => it > 1)
    /\ pc \in {"create", "ack"} => Shows(Len(vApW)) /\ (i = qjoCount /\ i > 0 => vApW # <<>>)
    /\ pc \in {"drop", "ack"} => i = qjoCount

(* The walk is intact while it has only deleted widgets before the first     *)
(* row's; then as many widgets as rows lie behind it.  Once it has gone back *)
(* it is behind for good.                                                    *)
Intact ==
  \E d \in 0..Len(was) :
    /\ Len(vApW) = Len(was) - d
    /\ \A j \in 1..Len(vApW) : vApW[j] = was[d + j]
    /\ \A j \in 1..d : was[j] # qjoRows[1]
Alike == Begins(Remains, qjoRows)
Behind(n) == n < i /\ ~Alike
WalkInv ==
  Merging /\ qjoRows # <<>> /\ Distinct(was) =>
    /\ pc = "walk" => (it = i + 1 /\ Intact) \/ Behind(it - 1)
    /\ pc = "drop" => (it = i + 1 /\ Alike) \/ Behind(it - 1)
    /\ pc \in {"create", "ack"} => (Len(vApW) = i /\ Alike) \/ Behind(Len(vApW))
MergeInv == MergeTypes /\ EndInv /\ WalkInv

(* Prefixes and suffixes, element by element.                                *)
LEMMA PrefixChar ==
  ASSUME NEW S, NEW s \in Seq(S), NEW t \in Seq(S)
  PROVE  IsPrefix(s, t) <=> Len(s) <= Len(t) /\ \A j \in 1..Len(s) : s[j] = t[j]
<1>1. Len(s) \in Nat /\ Len(t) \in Nat
  OBVIOUS
<1>2. SubSeq(s, 1, Len(s)) = s
  BY SubSeqFull
<1>3. CASE Len(s) <= Len(t)
  <2>1. \A j \in 1..Len(s) : t[j] \in S
    BY <1>1, <1>3, ElementOfSeq
  <2> DEFINE u == SubSeq(t, 1, Len(s))
  <2>2. u \in Seq(S) /\ Len(u) = Len(s) /\ \A j \in 1..Len(s) : u[j] = t[j]
    BY <1>1, <2>1, SubSeqProperties
  <2>3. (\A j \in 1..Len(s) : s[j] = t[j]) => s = u
    BY <2>2, SeqEqual
  <2> HIDE DEF u
  <2>4. s = u <=> \A j \in 1..Len(s) : s[j] = t[j]
    BY <2>2, <2>3
  <2> QED
    BY <1>2, <1>3, <2>4 DEF IsPrefix, u
<1> QED
  BY <1>3 DEF IsPrefix

(* Reversing keeps the length and counts from the other end.                 *)
LEMMA ReverseProps ==
  ASSUME NEW S, NEW s \in Seq(S)
  PROVE  /\ Reverse(s) \in Seq(S) /\ Len(Reverse(s)) = Len(s)
         /\ \A j \in 1..Len(s) : Reverse(s)[j] = s[(Len(s) - j) + 1]
<1>1. Len(s) \in Nat /\ \A j \in 1..Len(s) : s[(Len(s) - j) + 1] \in S
  BY ElementOfSeq
<1> DEFINE n == Len(s)
           e(j) == s[(n - j) + 1]
<1>2. [j \in 1..n |-> e(j)] \in [1..n -> S]
  BY <1>1
<1>3. [j \in 1..n |-> e(j)] \in Seq(S)
  BY <1>1, <1>2
<1>4. Len([j \in 1..n |-> e(j)]) = n
  BY <1>1
<1> QED
  BY <1>3, <1>4 DEF Reverse

(* A suffix agrees with the end, position by position.                       *)
LEMMA SuffixIf ==
  ASSUME NEW S, NEW s \in Seq(S), NEW t \in Seq(S), Len(s) <= Len(t),
         \A j \in 1..Len(s) : s[j] = t[(Len(t) - Len(s)) + j]
  PROVE  IsSuffix(s, t)
<1> DEFINE r == Reverse(s)  q == Reverse(t)
<1>1. r \in Seq(S) /\ Len(r) = Len(s) /\ \A j \in 1..Len(s) : r[j] = s[(Len(s) - j) + 1]
  BY ReverseProps
<1>2. q \in Seq(S) /\ Len(q) = Len(t) /\ \A j \in 1..Len(t) : q[j] = t[(Len(t) - j) + 1]
  BY ReverseProps
<1> HIDE DEF r, q
<1>3. ASSUME NEW j \in 1..Len(s) PROVE r[j] = q[j]
  <2>1. Len(s) \in Nat /\ Len(t) \in Nat
    OBVIOUS
  <2>2. (Len(s) - j) + 1 \in 1..Len(s) /\ j \in 1..Len(t)
    BY <2>1
  <2>3. (Len(t) - Len(s)) + ((Len(s) - j) + 1) = (Len(t) - j) + 1
    BY <2>1
  <2> QED
    BY <1>1, <1>2, <2>2, <2>3
<1> QED
  BY <1>1, <1>2, <1>3, PrefixChar DEF IsSuffix, r, q

(* Taking out one widget.                                                    *)
LEMMA RemoveProps ==
  ASSUME NEW S, NEW s \in Seq(S), NEW k \in 1..Len(s)
  PROVE  /\ RemoveAt(s, k) \in Seq(S) /\ Len(RemoveAt(s, k)) = Len(s) - 1
         /\ \A j \in 1..(k - 1) : RemoveAt(s, k)[j] = s[j]
         /\ \A j \in k..(Len(s) - 1) : RemoveAt(s, k)[j] = s[j + 1]
<1> DEFINE l == SubSeq(s, 1, k - 1)  r == SubSeq(s, k + 1, Len(s))
<1>1. Len(s) \in Nat /\ k \in Nat /\ 1 <= k /\ k <= Len(s) /\ \A j \in 1..Len(s) : s[j] \in S
  BY ElementOfSeq
<1>2. l \in Seq(S) /\ Len(l) = k - 1 /\ \A j \in 1..(k - 1) : l[j] = s[j]
  <2>1. \A j \in 1..(k - 1) : s[j] \in S
    BY <1>1
  <2> QED
    BY <1>1, <2>1, SubSeqProperties
<1>3. r \in Seq(S) /\ Len(r) = Len(s) - k /\ \A j \in 1..(Len(s) - k) : r[j] = s[k + j]
  <2>1. \A j \in (k + 1)..Len(s) : s[j] \in S
    BY <1>1
  <2>2. /\ r \in Seq(S) /\ Len(r) = IF k + 1 <= Len(s) THEN Len(s) - (k + 1) + 1 ELSE 0
        /\ \A j \in 1..(Len(s) - (k + 1) + 1) : r[j] = s[k + 1 + j - 1]
    BY <1>1, <2>1, SubSeqProperties
  <2> HIDE DEF r
  <2> QED
    BY <1>1, <2>2
<1> HIDE DEF l, r
<1>4. /\ l \o r \in Seq(S) /\ Len(l \o r) = Len(l) + Len(r)
      /\ \A j \in 1..(Len(l) + Len(r)) : (l \o r)[j] = IF j <= Len(l) THEN l[j] ELSE r[j - Len(l)]
  BY <1>2, <1>3, ConcatProperties
<1>5. RemoveAt(s, k) = l \o r
  BY DEF RemoveAt, l, r
<1>6. \A j \in 1..(k - 1) : (l \o r)[j] = s[j]
  BY <1>1, <1>2, <1>3, <1>4
<1>7. ASSUME NEW j \in k..(Len(s) - 1) PROVE (l \o r)[j] = s[j + 1]
  <2>1. j - Len(l) = j - (k - 1) /\ j - (k - 1) \in 1..(Len(s) - k) /\ ~ j <= Len(l) /\ j \in 1..(Len(l) + Len(r))
    BY <1>1, <1>2, <1>3
  <2>2. k + (j - (k - 1)) = j + 1
    BY <1>1
  <2> QED
    BY <1>3, <1>4, <2>1, <2>2
<1>8. Len(l \o r) = Len(s) - 1
  BY <1>1, <1>2, <1>3, <1>4
<1> QED
  BY <1>4, <1>5, <1>6, <1>7, <1>8

-----------------------------------------------------------------------------
(* The types.                                                                *)
LEMMA MergeTypesInit == MergeInit => MergeTypes
<1> SUFFICES ASSUME MergeInit PROVE MergeTypes
  OBVIOUS
<1>1. PICK n \in 0..MaxRows : tableRows \in [1..n -> Names]
  BY DEF MergeInit, Tables
<1>2. n \in Nat
  BY LMAssumption
<1>3. tableRows \in Seq(Names)
  BY <1>1, <1>2
<1>4. vApW \in Seq(Values)
  BY <1>3, SeqMonotonic DEF MergeInit, Values
<1>5. <<>> \in Seq(Names) /\ <<>> \in Seq(Values)
  BY EmptySeq
<1>6. qjoRows \in Seq(Names) /\ was \in Seq(Values)
  BY <1>5 DEF MergeInit
<1>7. /\ pc \in {"idle", "signal", "walk", "create", "drop", "ack"} /\ pc \notin {"walk", "drop"}
  BY DEF MergeInit
<1>8. torn \in BOOLEAN
  BY DEF MergeInit
<1>9. qjoCount \in Nat /\ i \in Nat /\ it \in Nat \ {0}
  BY DEF MergeInit
<1> QED
  BY <1>3, <1>4, <1>6, <1>7, <1>8, <1>9 DEF MergeTypes

LEMMA MergeTypesNext == MergeTypes /\ [MergeNext]_mergeVars => MergeTypes'
<1> SUFFICES ASSUME MergeTypes, [MergeNext]_mergeVars PROVE MergeTypes'
  OBVIOUS
<1>0. Len(vApW) \in Nat /\ Len(qjoRows) \in Nat /\ Len(tableRows) \in Nat
  BY DEF MergeTypes
<1>1. CASE EditRows
  <2>1. tableRows' \in Seq(Names)
    <3>1. ASSUME NEW n \in Names PROVE Append(tableRows, n) \in Seq(Names)
      BY DEF MergeTypes
    <3>2. ASSUME NEW k \in 1..Len(tableRows) PROVE RemoveAt(tableRows, k) \in Seq(Names)
      BY RemoveProps DEF MergeTypes
    <3>3. ASSUME NEW k \in 1..Len(tableRows), NEW n \in Names PROVE ReplaceAt(tableRows, k, n) \in Seq(Names)
      BY ExceptSeq DEF MergeTypes, ReplaceAt
    <3> QED
      BY <1>1, <3>1, <3>2, <3>3 DEF EditRows
  <2> QED
    BY <1>1, <2>1 DEF MergeTypes, EditRows, walkVars
<1>2. CASE Fetch
  BY <1>2 DEF MergeTypes, Fetch
<1>3. CASE BeginWalk
  <2>1. 1 <= Len(vApW) + 1 /\ 1 \in Nat \ {0}
    BY <1>0
  <2> QED
    BY <1>0, <1>3, <2>1 DEF MergeTypes, BeginWalk
<1>4. CASE Keep
  BY <1>0, <1>4 DEF MergeTypes, Keep, Walking
<1>5. CASE Delete
  <2>1. it \in 1..Len(vApW)
    BY <1>0, <1>5 DEF MergeTypes, Delete, Walking
  <2>2. RemoveAt(vApW, it) \in Seq(Values) /\ Len(RemoveAt(vApW, it)) = Len(vApW) - 1
    BY <2>1, RemoveProps DEF MergeTypes
  <2> QED
    BY <1>0, <1>5, <2>1, <2>2 DEF MergeTypes, Delete, Walking
<1>6. CASE EndWalk
  BY <1>0, <1>6 DEF MergeTypes, EndWalk, walkVars
<1>7. CASE Create
  <2>1. Row(i) \in Values
    BY <1>0, ElementOfSeq DEF MergeTypes, Row, Values
  <2>2. CASE i < qjoCount
    <3>1. Append(vApW, Row(i)) \in Seq(Values)
      BY <2>1 DEF MergeTypes
    <3>2. i + 1 \in Nat
      BY DEF MergeTypes
    <3> QED
      BY <1>7, <2>2, <3>1, <3>2 DEF MergeTypes, Create
  <2>3. CASE ~(i < qjoCount)
    BY <1>7, <2>3 DEF MergeTypes, Create
  <2> QED
    BY <2>2, <2>3
<1>8. CASE Drop
  <2>1. it - 1 \in Int /\ \A j \in 1..(it - 1) : vApW[j] \in Values
    BY <1>0, <1>8, ElementOfSeq DEF MergeTypes, Drop
  <2>2. SubSeq(vApW, 1, it - 1) \in Seq(Values)
    BY <2>1, SubSeqProperties
  <2> QED
    BY <1>8, <2>2 DEF MergeTypes, Drop, walkVars
<1>9. CASE AckMerge
  BY <1>9 DEF MergeTypes, AckMerge, walkVars
<1>10. CASE UNCHANGED mergeVars
  BY <1>10 DEF MergeTypes, mergeVars, walkVars
<1> QED
  BY <1>1, <1>2, <1>3, <1>4, <1>5, <1>6, <1>7, <1>8, <1>9, <1>10 DEF MergeNext, MergeThread

-----------------------------------------------------------------------------
(* What a merge shows.  Where none is under way, or qjo was replaced, there  *)
(* is nothing to show.                                                       *)
LEMMA EndNext == MergeTypes /\ EndInv /\ [MergeNext]_mergeVars => EndInv'
<1> SUFFICES ASSUME MergeTypes, EndInv, [MergeNext]_mergeVars PROVE EndInv'
  OBVIOUS
<1>0. Len(vApW) \in Nat /\ Len(qjoRows) \in Nat
  BY DEF MergeTypes
<1>1. CASE EditRows
  BY <1>1 DEF EndInv, Merging, Shows, EditRows, walkVars
<1>2. CASE Fetch
  BY <1>2 DEF EndInv, Merging, Fetch
<1>3. CASE BeginWalk
  BY <1>0, <1>3 DEF EndInv, Merging, Shows, BeginWalk
<1>4. CASE Keep
  <2> SUFFICES ASSUME Merging' PROVE EndInv'
    BY DEF EndInv
  <2>1. pc = "walk" /\ pc' = pc /\ Merging /\ vApW[it] = qjoRows[i + 1] /\ i < Len(qjoRows) /\ it <= Len(vApW)
    BY <1>4 DEF EndInv, Merging, Keep, Walking, Row
  <2>2. it - 1 <= i /\ \A j \in 1..(it - 1) : vApW[j] = qjoRows[(i - (it - 1)) + j]
    BY <2>1 DEF EndInv, Shows
  <2>3. ASSUME NEW j \in 1..it PROVE vApW[j] = qjoRows[((i + 1) - it) + j]
    <3>1. CASE j = it
      <4>1. ((i + 1) - it) + j = i + 1
        BY <3>1 DEF MergeTypes
      <4> QED
        BY <2>1, <3>1, <4>1
    <3>2. CASE j # it
      <4>1. j \in 1..(it - 1) /\ (i - (it - 1)) + j = ((i + 1) - it) + j
        BY <3>2 DEF MergeTypes
      <4> QED
        BY <2>2, <4>1
    <3> QED
      BY <3>1, <3>2
  <2>4. (it + 1) - 1 = it /\ it > 0
    BY DEF MergeTypes
  <2>5. Shows(it - 1)'
    BY <1>0, <1>4, <2>1, <2>2, <2>3, <2>4 DEF Shows, Keep, MergeTypes
  <2> QED
    BY <1>0, <1>4, <2>1, <2>4, <2>5 DEF EndInv, Keep, MergeTypes
<1>5. CASE Delete
  <2> SUFFICES ASSUME Merging' PROVE EndInv'
    BY DEF EndInv
  <2>1. pc = "walk" /\ pc' = pc /\ Merging /\ i < qjoCount /\ it \in 1..Len(vApW)
    BY <1>0, <1>5 DEF Merging, Delete, Walking, MergeTypes
  <2>2. RemoveAt(vApW, it) \in Seq(Values) /\ Len(RemoveAt(vApW, it)) = Len(vApW) - 1
    BY <2>1, RemoveProps DEF MergeTypes
  <2>3. Shows(it - 1)'
    BY <1>0, <1>5, <2>1, <2>2 DEF Shows, Delete, MergeTypes
  <2> QED
    BY <1>5, <2>1, <2>3 DEF EndInv, Delete, MergeTypes
<1>6. CASE EndWalk
  <2> SUFFICES ASSUME Merging' PROVE EndInv'
    BY DEF EndInv
  <2>1. /\ pc = "walk" /\ Merging /\ vApW' = vApW /\ qjoRows' = qjoRows
        /\ qjoCount' = qjoCount /\ i' = i /\ it' = it
    BY <1>6 DEF Merging, EndWalk, walkVars
  <2>2. qjoCount = Len(qjoRows) /\ i <= qjoCount /\ Shows(it - 1) /\ (i = qjoCount /\ i > 0 => it > 1)
    BY <2>1 DEF EndInv
  <2>3. CASE i < qjoCount
    <3>1. it - 1 = Len(vApW) /\ pc' = "create"
      BY <1>0, <1>6, <2>3 DEF EndWalk, Walking, MergeTypes
    <3>2. Shows(Len(vApW))'
      BY <2>1, <2>2, <3>1 DEF Shows
    <3> QED
      BY <2>1, <2>2, <2>3, <3>1, <3>2 DEF EndInv, MergeTypes
  <2>4. CASE ~(i < qjoCount)
    <3>1. i = qjoCount /\ pc' = "drop"
      BY <1>6, <2>2, <2>4 DEF EndWalk, MergeTypes
    <3>2. Shows(it - 1)'
      BY <2>1, <2>2 DEF Shows
    <3> QED
      BY <2>1, <2>2, <3>1, <3>2 DEF EndInv
  <2> QED
    BY <2>3, <2>4
<1>7. CASE Create
  <2> SUFFICES ASSUME Merging' PROVE EndInv'
    BY DEF EndInv
  <2>1. pc = "create" /\ Merging /\ qjoRows' = qjoRows /\ qjoCount' = qjoCount /\ it' = it
    BY <1>7 DEF Merging, Create
  <2>2. qjoCount = Len(qjoRows) /\ i <= qjoCount /\ Shows(Len(vApW)) /\ (i = qjoCount /\ i > 0 => vApW # <<>>)
    BY <2>1 DEF EndInv
  <2>3. CASE i < qjoCount
    <3> DEFINE w == Append(vApW, Row(i))
    <3>1. vApW' = w /\ i' = i + 1 /\ pc' = pc
      BY <1>7, <2>3 DEF Create
    <3>2. Row(i) = qjoRows[i + 1] /\ Row(i) \in Values
      BY <1>0, <2>2, <2>3, ElementOfSeq DEF Row, MergeTypes, Values
    <3>3. /\ w \in Seq(Values) /\ Len(w) = Len(vApW) + 1 /\ w[Len(vApW) + 1] = qjoRows[i + 1]
          /\ \A j \in 1..Len(vApW) : w[j] = vApW[j]
      BY <3>2 DEF MergeTypes
    <3>4. ASSUME NEW j \in 1..Len(w) PROVE w[j] = qjoRows[((i + 1) - Len(w)) + j]
      <4>1. CASE j = Len(vApW) + 1
        <5>1. ((i + 1) - Len(w)) + j = i + 1
          BY <1>0, <3>3, <4>1 DEF MergeTypes
        <5> QED
          BY <3>3, <4>1, <5>1
      <4>2. CASE j # Len(vApW) + 1
        <5>1. j \in 1..Len(vApW) /\ ((i + 1) - Len(w)) + j = (i - Len(vApW)) + j
          BY <1>0, <3>3, <4>2 DEF MergeTypes
        <5> QED
          BY <2>2, <3>3, <5>1 DEF Shows
      <4> QED
        BY <4>1, <4>2
    <3>5. Len(w) <= i + 1 /\ w # <<>>
      <4>1. Len(vApW) <= i /\ Len(w) # 0
        BY <1>0, <2>2, <3>3 DEF Shows
      <4>2. Len(<<>>) = 0
        BY EmptySeq
      <4> HIDE DEF w
      <4> QED
        BY <1>0, <3>3, <4>1, <4>2 DEF MergeTypes
    <3> HIDE DEF w
    <3>6. Shows(Len(vApW))'
      BY <2>1, <3>1, <3>3, <3>4, <3>5 DEF Shows
    <3> QED
      BY <1>0, <2>1, <2>2, <2>3, <3>1, <3>5, <3>6 DEF EndInv, MergeTypes
  <2>4. CASE ~(i < qjoCount)
    <3>1. vApW' = vApW /\ i' = i /\ pc' = "ack" /\ i = qjoCount
      BY <1>7, <2>2, <2>4 DEF Create, MergeTypes
    <3>2. Shows(Len(vApW))'
      BY <2>1, <2>2, <3>1 DEF Shows
    <3> QED
      BY <2>1, <2>2, <3>1, <3>2 DEF EndInv
  <2> QED
    BY <2>3, <2>4
<1>8. CASE Drop
  <2> SUFFICES ASSUME Merging' PROVE EndInv'
    BY DEF EndInv
  <2>1. /\ pc = "drop" /\ Merging /\ pc' = "ack" /\ qjoRows' = qjoRows
        /\ qjoCount' = qjoCount /\ i' = i /\ it' = it
    BY <1>8 DEF Merging, Drop, walkVars
  <2>2. qjoCount = Len(qjoRows) /\ i = qjoCount /\ Shows(it - 1) /\ (i > 0 => it > 1)
    BY <2>1 DEF EndInv
  <2> DEFINE w == SubSeq(vApW, 1, it - 1)
  <2>3. it - 1 \in Int /\ it - 1 >= 0 /\ it - 1 <= Len(vApW) /\ \A j \in 1..(it - 1) : vApW[j] \in Values
    BY <1>0, <2>1, ElementOfSeq DEF MergeTypes
  <2>4. w \in Seq(Values) /\ Len(w) = it - 1 /\ \A j \in 1..(it - 1) : w[j] = vApW[j]
    BY <2>3, SubSeqProperties DEF MergeTypes
  <2>5. vApW' = w
    BY <1>8 DEF Drop
  <2> HIDE DEF w
  <2>6. i > 0 => w # <<>>
    BY <2>2, <2>4 DEF MergeTypes
  <2>7. Shows(Len(vApW))'
    <3>1. Len(w) <= i /\ Len(w) = it - 1 /\ \A j \in 1..Len(w) : w[j] = qjoRows[(i - Len(w)) + j]
      BY <2>2, <2>4 DEF Shows
    <3>2. vApW' = w /\ i' = i /\ qjoRows' = qjoRows /\ Len(w) <= Len(w)
      BY <2>1, <2>4, <2>5
    <3>3. /\ Len(vApW') <= i' /\ Len(vApW') <= Len(vApW')
          /\ \A j \in 1..Len(vApW') : vApW'[j] = qjoRows'[(i' - Len(vApW')) + j]
      BY <3>1, <3>2, Zenon
    <3> QED
      BY <3>3, Zenon DEF Shows
  <2> QED
    BY <2>1, <2>2, <2>5, <2>6, <2>7 DEF EndInv, MergeTypes
<1>9. CASE AckMerge
  BY <1>9 DEF EndInv, Merging, AckMerge
<1>10. CASE UNCHANGED mergeVars
  BY <1>10 DEF EndInv, Merging, Shows, mergeVars, walkVars
<1> QED
  BY <1>1, <1>2, <1>3, <1>4, <1>5, <1>6, <1>7, <1>8, <1>9, <1>10 DEF MergeNext, MergeThread

-----------------------------------------------------------------------------
(* Which merges show the whole list.  While the walk is intact, what remains *)
(* of the widgets is what was said to remain.                                *)
LEMMA RemainsOf ==
  ASSUME MergeTypes, Distinct(was), Intact
  PROVE  /\ Remains \in Seq(Values)
         /\ Len(vApW) = 0 => Remains = <<>>
         /\ Len(vApW) > 0 /\ vApW[1] = qjoRows[1] => Remains = vApW
<1>1. PICK d \in 0..Len(was) :
        /\ Len(vApW) = Len(was) - d
        /\ \A j \in 1..Len(vApW) : vApW[j] = was[d + j]
        /\ \A j \in 1..d : was[j] # qjoRows[1]
  BY DEF Intact
<1> DEFINE at == FirstAt(was, qjoRows[1])
<1>2. Len(was) \in Nat /\ Len(vApW) \in Nat
  BY DEF MergeTypes
<1>3. ASSUME NEW k \in 1..Len(was)
      PROVE  /\ SubSeq(was, k, Len(was)) \in Seq(Values)
             /\ Len(SubSeq(was, k, Len(was))) = Len(was) - k + 1
             /\ \A j \in 1..(Len(was) - k + 1) : SubSeq(was, k, Len(was))[j] = was[k + j - 1]
  <2>1. \A j \in k..Len(was) : was[j] \in Values
    BY <1>2, ElementOfSeq DEF MergeTypes
  <2> QED
    BY <1>2, <2>1, SubSeqProperties
<1>4. \A k \in at : k \in 1..Len(was) /\ was[k] = qjoRows[1]
  BY DEF FirstAt
<1>5. Remains = IF at = {} THEN <<>> ELSE SubSeq(was, CHOOSE k \in at : TRUE, Len(was))
  BY DEF Remains
<1>6. Remains \in Seq(Values)
  <2>1. CASE at = {}
    BY <1>5, <2>1, EmptySeq
  <2>2. CASE at # {}
    <3>1. (CHOOSE k \in at : TRUE) \in at
      BY <2>2
    <3> HIDE DEF at
    <3> QED
      BY <1>3, <1>4, <1>5, <2>2, <3>1
  <2> QED
    BY <2>1, <2>2
<1>7. ASSUME Len(vApW) = 0 PROVE Remains = <<>>
  <2>1. d = Len(was)
    BY <1>1, <1>2, <1>7
  <2>2. at = {}
    BY <1>1, <1>4, <2>1
  <2> QED
    BY <1>5, <2>2
<1>8. ASSUME Len(vApW) > 0, vApW[1] = qjoRows[1] PROVE Remains = vApW
  <2>1. d + 1 \in 1..Len(was) /\ was[d + 1] = qjoRows[1] /\ 1 \in 1..Len(vApW)
    BY <1>1, <1>2, <1>8
  <2>2. at = {d + 1}
    BY <1>2, <1>4, <2>1 DEF FirstAt, Distinct
  <2>3. Remains = SubSeq(was, d + 1, Len(was))
    BY <1>5, <2>2
  <2>4. Len(Remains) = Len(vApW) /\ \A j \in 1..Len(vApW) : Remains[j] = vApW[j]
    <3>1. Len(Remains) = Len(was) - (d + 1) + 1 /\ Len(was) - (d + 1) + 1 = Len(vApW)
      BY <1>1, <1>2, <1>3, <2>1, <2>3
    <3>2. ASSUME NEW j \in 1..Len(vApW) PROVE Remains[j] = vApW[j]
      <4>1. (d + 1) + j - 1 = d + j
        BY <1>2
      <4> QED
        BY <1>1, <1>3, <2>1, <2>3, <3>1, <4>1
    <3> QED
      BY <3>1, <3>2
  <2> QED
    BY <1>6, <2>4, SeqEqual DEF MergeTypes
<1> QED
  BY <1>6, <1>7, <1>8

(* Whether they begin alike is settled when the walk begins.                 *)
LEMMA Kept == qjoRows' = qjoRows /\ was' = was => (Alike' <=> Alike)
<1> SUFFICES ASSUME qjoRows' = qjoRows, was' = was PROVE Alike' <=> Alike
  OBVIOUS
<1>1. Remains' = Remains
  BY DEF Remains, FirstAt
<1> QED
  BY <1>1 DEF Alike, Begins

(* They begin alike when no position within both tells them apart.           *)
LEMMA AlikeChar ==
  ASSUME MergeTypes, Remains \in Seq(Values)
  PROVE  /\ (\A j \in 1..Len(Remains) : j <= Len(qjoRows) => Remains[j] = qjoRows[j]) => Alike
         /\ Alike => \A j \in 1..Len(Remains) : j <= Len(qjoRows) => Remains[j] = qjoRows[j]
<1>1. qjoRows \in Seq(Values) /\ Len(qjoRows) \in Nat /\ Len(Remains) \in Nat
  BY SeqMonotonic DEF MergeTypes, Values
<1>2. IsPrefix(Remains, qjoRows) <=>
        /\ Len(Remains) <= Len(qjoRows)
        /\ \A j \in 1..Len(Remains) : Remains[j] = qjoRows[j]
  BY <1>1, PrefixChar
<1>3. IsPrefix(qjoRows, Remains) <=>
        /\ Len(qjoRows) <= Len(Remains)
        /\ \A j \in 1..Len(qjoRows) : qjoRows[j] = Remains[j]
  BY <1>1, PrefixChar
<1> QED
  BY <1>1, <1>2, <1>3 DEF Alike, Begins

(* Every step of a walk leaves it intact or behind, and behind for good.     *)
LEMMA WalkNext == MergeTypes /\ EndInv /\ WalkInv /\ [MergeNext]_mergeVars => WalkInv'
<1> SUFFICES ASSUME MergeTypes, EndInv, WalkInv, [MergeNext]_mergeVars,
                    Merging', (qjoRows # <<>>)', Distinct(was)'
             PROVE  WalkInv'
  BY DEF WalkInv
<1>0. Len(vApW) \in Nat /\ Len(qjoRows) \in Nat /\ Len(was) \in Nat
  BY DEF MergeTypes
<1>1. CASE EditRows
  <2>1. /\ UNCHANGED <<qjoRows, vApW, pc, qjoCount, i, it, was, torn>>
        /\ Merging /\ qjoRows # <<>> /\ Distinct(was)
        /\ (Alike' <=> Alike)
    BY <1>1, Kept DEF EditRows, walkVars, Merging, Distinct
  <2> QED
    BY <2>1 DEF WalkInv, Merging, Intact, Behind
<1>2. CASE Fetch
  BY <1>2 DEF Merging, Fetch
<1>3. CASE BeginWalk
  <2>1. pc' = "walk" /\ it' = 1 /\ i' = 0 /\ was' = vApW /\ vApW' = vApW /\ qjoRows' = qjoRows
    BY <1>3 DEF BeginWalk
  <2> DEFINE n == Len(vApW)
             Gone(d) == /\ n = n - d /\ \A j \in 1..n : vApW[j] = vApW[d + j]
                        /\ \A j \in 1..d : vApW[j] # qjoRows[1]
  <2>2. n \in Nat
    BY <1>0
  <2> HIDE DEF n
  <2>3. 0 \in 0..n /\ Gone(0)
    <3>1. 0 \in 0..n /\ n = n - 0 /\ 1..0 = {}
      BY <2>2
    <3>2. \A j \in 1..n : 0 + j = j
      BY <2>2
    <3> QED
      BY <3>1, <3>2
  <2>4. Intact'
    <3>1. \E d \in 0..n : Gone(d)
      BY <2>3
    <3> QED
      BY <2>1, <3>1, Zenon DEF Intact, n
  <2> QED
    BY <2>1, <2>4 DEF WalkInv
<1>4. CASE Keep
  <2>1. /\ pc = "walk" /\ pc' = pc /\ Merging /\ UNCHANGED <<vApW, qjoRows, was>>
        /\ i' = i + 1 /\ it' = it + 1 /\ qjoRows # <<>> /\ Distinct(was)
    BY <1>4 DEF Keep, Walking, Merging, Distinct
  <2>2. (it = i + 1 /\ Intact) \/ Behind(it - 1)
    BY <2>1 DEF WalkInv
  <2>3. CASE it = i + 1 /\ Intact
    <3>1. it' = i' + 1 /\ Intact'
      BY <2>1, <2>3 DEF Intact
    <3> QED
      BY <2>1, <3>1 DEF WalkInv
  <2>4. CASE Behind(it - 1)
    <3>1. Behind(it - 1)'
      BY <2>1, <2>4, Kept DEF Behind, MergeTypes
    <3> QED
      BY <2>1, <3>1 DEF WalkInv
  <2> QED
    BY <2>2, <2>3, <2>4
<1>5. CASE Delete
  <2>1. /\ pc = "walk" /\ pc' = pc /\ Merging /\ UNCHANGED <<qjoRows, was, i, qjoCount>> /\ it' = 1
        /\ vApW' = RemoveAt(vApW, it) /\ qjoRows # <<>> /\ Distinct(was)
        /\ i < qjoCount /\ qjoCount = Len(qjoRows) /\ it \in 1..Len(vApW) /\ vApW[it] # qjoRows[i + 1]
        /\ Shows(it - 1)
    BY <1>0, <1>5 DEF Delete, Walking, Merging, Distinct, EndInv, Row, MergeTypes
  <2>2. (it = i + 1 /\ Intact) \/ Behind(it - 1)
    BY <2>1 DEF WalkInv
  <2>3. CASE it = i + 1 /\ Intact /\ i = 0
    <3>1. PICK d \in 0..Len(was) :
            /\ Len(vApW) = Len(was) - d
            /\ \A j \in 1..Len(vApW) : vApW[j] = was[d + j]
            /\ \A j \in 1..d : was[j] # qjoRows[1]
      BY <2>3 DEF Intact
    <3> DEFINE w == RemoveAt(vApW, 1)
    <3>2. 1 \in 1..Len(vApW) /\ Len(w) = Len(vApW) - 1 /\ \A j \in 1..(Len(vApW) - 1) : w[j] = vApW[j + 1]
      <4>1. 1 \in 1..Len(vApW) /\ vApW \in Seq(Values)
        BY <2>1, <2>3 DEF MergeTypes
      <4> QED
        BY <4>1, RemoveProps
    <3> HIDE DEF w
    <3>3. d + 1 \in 0..Len(was) /\ Len(w) = Len(was) - (d + 1)
      BY <1>0, <3>1, <3>2
    <3>4. ASSUME NEW j \in 1..Len(w) PROVE w[j] = was[(d + 1) + j]
      <4>1. j + 1 \in 1..Len(vApW) /\ j \in 1..(Len(vApW) - 1) /\ d + (j + 1) = (d + 1) + j
        BY <1>0, <3>2
      <4> QED
        BY <3>1, <3>2, <4>1
    <3>5. ASSUME NEW j \in 1..(d + 1) PROVE was[j] # qjoRows[1]
      <4>1. CASE j = d + 1
        BY <2>1, <2>3, <3>1, <3>2, <4>1
      <4>2. CASE j # d + 1
        BY <3>1, <4>2
      <4> QED
        BY <4>1, <4>2
    <3>6. vApW' = w
      BY <2>1, <2>3 DEF w
    <3>7. Intact'
      BY <2>1, <3>3, <3>4, <3>5, <3>6 DEF Intact
    <3> QED
      BY <2>1, <2>3, <3>7 DEF WalkInv
  <2>4. CASE it = i + 1 /\ Intact /\ i # 0
    <3>1. i > 0 /\ vApW[1] = qjoRows[1] /\ Len(vApW) > 0
      <4>1. i > 0 /\ 1 \in 1..(it - 1) /\ (i - (it - 1)) + 1 = 1
        BY <2>4 DEF MergeTypes
      <4> QED
        BY <1>0, <2>1, <4>1 DEF Shows
    <3>2. Remains = vApW
      BY <2>1, <2>4, <3>1, RemainsOf
    <3>3. ~Alike
      <4>1. it \in 1..Len(Remains) /\ it <= Len(qjoRows) /\ Remains[it] # qjoRows[it] /\ Remains \in Seq(Values)
        BY <2>1, <2>4, <3>2 DEF MergeTypes
      <4> QED
        BY <4>1, AlikeChar
    <3>4. Behind(it - 1)'
      BY <2>1, <3>1, <3>3, Kept DEF Behind
    <3> QED
      BY <2>1, <3>4 DEF WalkInv
  <2>5. CASE Behind(it - 1)
    <3>1. Behind(it - 1)'
      BY <2>1, <2>5, Kept DEF Behind, MergeTypes
    <3> QED
      BY <2>1, <3>1 DEF WalkInv
  <2> QED
    BY <2>2, <2>3, <2>4, <2>5
<1>6. CASE EndWalk
  <2>1. /\ pc = "walk" /\ Merging /\ UNCHANGED <<qjoRows, was, i, it, vApW, qjoCount>>
        /\ qjoRows # <<>> /\ Distinct(was)
        /\ qjoCount = Len(qjoRows) /\ i <= qjoCount /\ Shows(it - 1) /\ it <= Len(vApW) + 1
    BY <1>6 DEF EndWalk, walkVars, Merging, Distinct, EndInv, MergeTypes
  <2>2. (it = i + 1 /\ Intact) \/ Behind(it - 1)
    BY <2>1 DEF WalkInv
  <2>3. \/ pc' = "create" /\ i < qjoCount /\ it - 1 = Len(vApW)
        \/ pc' = "drop" /\ i = qjoCount
    BY <1>0, <1>6, <2>1 DEF EndWalk, Walking, MergeTypes
  <2>4. CASE it = i + 1 /\ Intact
    <3>1. \A j \in 1..i : vApW[j] = qjoRows[j] /\ i <= Len(vApW)
      <4>1. i = it - 1 /\ i - i = 0 /\ \A j \in 1..i : 0 + j = j
        BY <2>4 DEF MergeTypes
      <4> QED
        BY <2>1, <4>1 DEF Shows
    <3>2. Alike
      <4>1. CASE Len(vApW) = 0
        <5>1. Remains = <<>> /\ Remains \in Seq(Values) /\ Len(Remains) = 0
          BY <2>1, <2>4, <4>1, RemainsOf, EmptySeq
        <5> QED
          BY <5>1, AlikeChar
      <4>2. CASE Len(vApW) > 0
        <5>1. i > 0 /\ (i = Len(vApW) \/ i = Len(qjoRows))
          <6>1. Len(qjoRows) # 0
            BY <1>0, <2>1, EmptySeq DEF MergeTypes
          <6> QED
            BY <1>0, <2>1, <2>3, <2>4, <4>2, <6>1 DEF MergeTypes
        <5>2. vApW[1] = qjoRows[1]
          BY <3>1, <5>1 DEF MergeTypes
        <5>3. Remains = vApW /\ Remains \in Seq(Values)
          BY <2>1, <2>4, <4>2, <5>2, RemainsOf
        <5>4. \A j \in 1..Len(Remains) : j <= Len(qjoRows) => Remains[j] = qjoRows[j]
          BY <1>0, <3>1, <5>1, <5>3 DEF MergeTypes
        <5> QED
          BY <5>3, <5>4, AlikeChar
      <4> QED
        BY <1>0, <4>1, <4>2
    <3>3. Alike'
      BY <2>1, <3>2, Kept
    <3> QED
      BY <1>0, <2>1, <2>3, <2>4, <3>3 DEF WalkInv, MergeTypes
  <2>5. CASE Behind(it - 1)
    <3>1. Behind(it - 1)' /\ (it - 1 = Len(vApW) => Behind(Len(vApW))')
      BY <2>1, <2>5, Kept DEF Behind
    <3> QED
      BY <2>3, <3>1 DEF WalkInv
  <2> QED
    BY <2>2, <2>4, <2>5
<1>7. CASE Create
  <2>1. /\ pc = "create" /\ Merging /\ UNCHANGED <<qjoRows, was, it, qjoCount>>
        /\ qjoRows # <<>> /\ Distinct(was)
    BY <1>7 DEF Create, Merging, Distinct
  <2>2. (Len(vApW) = i /\ Alike) \/ Behind(Len(vApW))
    BY <2>1 DEF WalkInv
  <2>3. pc' \in {"create", "ack"}
    BY <1>7 DEF Create
  <2>4. \/ Len(vApW') = Len(vApW) + 1 /\ i' = i + 1
        \/ vApW' = vApW /\ i' = i
    <3>1. Row(i) \in Values
      BY <1>0, ElementOfSeq DEF MergeTypes, Row, Values
    <3>2. Len(Append(vApW, Row(i))) = Len(vApW) + 1
      BY <3>1 DEF MergeTypes
    <3> QED
      BY <1>7, <3>2 DEF Create
  <2>5. (Len(vApW') = i' /\ Alike') \/ (Len(vApW') < i' /\ ~Alike')
    BY <1>0, <2>1, <2>2, <2>4, Kept DEF Behind, MergeTypes
  <2> QED
    BY <2>3, <2>5 DEF WalkInv, Behind
<1>8. CASE Drop
  <2>1. /\ pc = "drop" /\ pc' = "ack" /\ Merging /\ UNCHANGED <<qjoRows, was, i, it, qjoCount>>
        /\ qjoRows # <<>> /\ Distinct(was)
    BY <1>8 DEF Drop, walkVars, Merging, Distinct
  <2>2. (it = i + 1 /\ Alike) \/ Behind(it - 1)
    BY <2>1 DEF WalkInv
  <2>3. Len(vApW') = it - 1
    <3>1. it - 1 \in Int /\ it - 1 >= 0 /\ \A j \in 1..(it - 1) : vApW[j] \in Values
      BY <1>0, <2>1, ElementOfSeq DEF MergeTypes
    <3>2. Len(SubSeq(vApW, 1, it - 1)) = it - 1
      BY <3>1, SubSeqProperties
    <3> QED
      BY <1>8, <3>2 DEF Drop
  <2>4. (Len(vApW') = i' /\ Alike') \/ (Len(vApW') < i' /\ ~Alike')
    BY <2>1, <2>2, <2>3, Kept DEF Behind, MergeTypes
  <2> QED
    BY <2>1, <2>4 DEF WalkInv, Behind
<1>9. CASE AckMerge
  BY <1>9 DEF Merging, AckMerge
<1>10. CASE UNCHANGED mergeVars
  <2>1. /\ UNCHANGED <<qjoRows, vApW, pc, qjoCount, i, it, was, torn>>
        /\ Merging /\ qjoRows # <<>> /\ Distinct(was)
        /\ (Alike' <=> Alike)
    BY <1>10, Kept DEF mergeVars, walkVars, Merging, Distinct
  <2> QED
    BY <2>1 DEF WalkInv, Merging, Intact, Behind
<1> QED
  BY <1>1, <1>2, <1>3, <1>4, <1>5, <1>6, <1>7, <1>8, <1>9, <1>10 DEF MergeNext, MergeThread

-----------------------------------------------------------------------------
(* Between merges there is nothing to show.                                  *)
LEMMA MergeInvInit == MergeInit => MergeInv
<1> SUFFICES ASSUME MergeInit PROVE MergeInv
  OBVIOUS
<1>1. MergeTypes
  BY MergeTypesInit
<1>2. ~Merging
  BY DEF MergeInit, Merging
<1> QED
  BY <1>1, <1>2 DEF MergeInv, EndInv, WalkInv

(* The invariant of the walk, for any names, rows and changes.               *)
THEOREM MergeInvariant == MergeSpec => []MergeInv
<1>1. MergeInit => MergeInv
  BY MergeInvInit
<1>2. MergeInv /\ [MergeNext]_mergeVars => MergeInv'
  BY MergeTypesNext, EndNext, WalkNext DEF MergeInv
<1> QED
  BY <1>1, <1>2, PTL DEF MergeSpec

(* When the merge is done, the row at hand is the last.                      *)
LEMMA ShownIsEnd == MergeInv => ShowsEnd
<1> SUFFICES ASSUME MergeInv, WalkDone PROVE IsSuffix(vApW, qjoRows) /\ (qjoRows # <<>> => vApW # <<>>)
  BY DEF ShowsEnd
<1>1. MergeTypes /\ i = Len(qjoRows) /\ Shows(Len(vApW)) /\ (i > 0 => vApW # <<>>)
  BY DEF WalkDone, MergeInv, EndInv, Merging
<1>2. qjoRows \in Seq(Values) /\ vApW \in Seq(Values) /\ Len(qjoRows) \in Nat
  BY <1>1, SeqMonotonic DEF MergeTypes, Values
<1>3. IsSuffix(vApW, qjoRows)
  BY <1>1, <1>2, SuffixIf DEF Shows
<1>4. qjoRows # <<>> => Len(qjoRows) > 0
  BY <1>2, EmptySeq
<1> QED
  BY <1>1, <1>3, <1>4

(* ShowsEnd: what a merge shows is the end of the rows fetched, with the     *)
(* newest among it.                                                          *)
THEOREM AlwaysShowsEnd == MergeSpec => []ShowsEnd
BY MergeInvariant, ShownIsEnd, PTL

(* An intact merge has a widget for each row, one that is behind has fewer.  *)
LEMMA WholeIff == MergeInv => WholeWhen
<1> SUFFICES ASSUME MergeInv, WalkDone, qjoRows # <<>>, Distinct(qjoRows), Distinct(was)
             PROVE  vApW = qjoRows <=> Alike
  BY DEF WholeWhen, Alike
<1>1. MergeTypes /\ i = Len(qjoRows) /\ Shows(Len(vApW)) /\ ((Len(vApW) = i /\ Alike) \/ Behind(Len(vApW)))
  BY DEF WalkDone, MergeInv, EndInv, WalkInv, Merging
<1>2. qjoRows \in Seq(Values) /\ vApW \in Seq(Values) /\ Len(qjoRows) \in Nat
  BY <1>1, SeqMonotonic DEF MergeTypes, Values
<1>3. CASE Len(vApW) = i /\ Alike
  <2>1. \A j \in 1..Len(vApW) : vApW[j] = qjoRows[(i - Len(vApW)) + j] /\ (i - Len(vApW)) + j = j
    BY <1>1, <1>2, <1>3 DEF Shows
  <2>2. vApW = qjoRows
    BY <1>1, <1>2, <1>3, <2>1, SeqEqual
  <2> QED
    BY <1>3, <2>2
<1>4. CASE Behind(Len(vApW))
  BY <1>1, <1>2, <1>4 DEF Behind
<1> QED
  BY <1>1, <1>3, <1>4

(* WholeWhen: for distinct names a merge shows the whole list when what      *)
(* remains of the widgets and the rows begin alike, and only then.           *)
THEOREM AlwaysWholeWhen == MergeSpec => []WholeWhen
BY MergeInvariant, WholeIff, PTL

-----------------------------------------------------------------------------
(* handleSynData runs out of turns.  Each turn of the walk, one that takes   *)
(* the iterator back included, uses up a row or a widget, and nothing done   *)
(* to qjo or the table meanwhile gives one back: after BeginWalk the slot    *)
(* ends in at most Len(vApW) + Len(qjoRows) + 3 turns.                       *)
InSlot == pc \in {"walk", "create", "drop", "ack"}
TurnsLeft ==
  CASE pc = "walk"   -> Len(vApW) + (qjoCount - i) + 3
    [] pc = "create" -> (qjoCount - i) + 2
    [] pc = "drop"   -> 2
    [] pc = "ack"    -> 1
    [] OTHER         -> 0
UsesTurn == InSlot => IF MergeThread THEN TurnsLeft' < TurnsLeft ELSE UNCHANGED <<pc, TurnsLeft>>
RowsAhead == MergeTypes /\ i <= qjoCount

LEMMA RowsAheadNext == RowsAhead /\ [MergeNext]_mergeVars => RowsAhead'
<1> SUFFICES ASSUME RowsAhead, [MergeNext]_mergeVars PROVE (i <= qjoCount)'
  BY MergeTypesNext DEF RowsAhead
<1>1. CASE BeginWalk
  BY <1>1 DEF BeginWalk, RowsAhead, MergeTypes
<1>2. CASE Keep \/ Create
  BY <1>2 DEF Keep, Create, Walking, RowsAhead, MergeTypes
<1>3. CASE UNCHANGED <<i, qjoCount>>
  BY <1>3 DEF RowsAhead
<1> QED
  BY <1>1, <1>2, <1>3 DEF MergeNext, MergeThread, EditRows, Fetch, Delete, EndWalk, Drop, AckMerge,
                          walkVars, mergeVars

LEMMA TurnsAre ==
  /\ pc = "walk"   => TurnsLeft = Len(vApW) + (qjoCount - i) + 3
  /\ pc = "create" => TurnsLeft = (qjoCount - i) + 2
  /\ pc = "drop"   => TurnsLeft = 2
  /\ pc = "ack"    => TurnsLeft = 1
  /\ pc = "idle"   => TurnsLeft = 0
BY DEF TurnsLeft

LEMMA TurnTaken == ASSUME RowsAhead, RowsAhead', MergeThread, InSlot PROVE TurnsLeft' < TurnsLeft
<1>n. /\ Len(vApW) \in Nat /\ qjoCount \in Nat /\ i \in Nat /\ i <= qjoCount
      /\ Len(vApW') \in Nat /\ qjoCount' \in Nat /\ i' \in Nat /\ i' <= qjoCount'
  <2>1. vApW \in Seq(Values) /\ vApW' \in Seq(Values)
    BY DEF RowsAhead, MergeTypes
  <2>2. Len(vApW) \in Nat /\ Len(vApW') \in Nat
    BY <2>1
  <2> QED
    BY <2>2 DEF RowsAhead, MergeTypes
<1>t. /\ pc' = "walk"   => TurnsLeft' = Len(vApW') + (qjoCount' - i') + 3
      /\ pc' = "create" => TurnsLeft' = (qjoCount' - i') + 2
      /\ pc' = "drop"   => TurnsLeft' = 2
      /\ pc' = "ack"    => TurnsLeft' = 1
      /\ pc' = "idle"   => TurnsLeft' = 0
  BY DEF TurnsLeft
<1>1. CASE Keep
  <2>1. pc = "walk" /\ pc' = "walk" /\ UNCHANGED <<vApW, qjoCount>> /\ i' = i + 1
    BY <1>1 DEF Keep, Walking
  <2> QED
    BY <2>1, <1>n, <1>t, TurnsAre
<1>2. CASE Delete
  <2>1. vApW \in Seq(Values) /\ it \in Nat \ {0} /\ it <= Len(vApW)
    BY <1>2 DEF RowsAhead, MergeTypes, Delete, Walking
  <2>2. Len(vApW') = Len(vApW) - 1
    <3>1. it \in 1..Len(vApW)
      BY <2>1, <1>n
    <3>2. Len(RemoveAt(vApW, it)) = Len(vApW) - 1
      BY <2>1, <3>1, RemoveProps
    <3> QED
      BY <1>2, <3>2 DEF Delete
  <2>3. pc = "walk" /\ pc' = "walk" /\ UNCHANGED <<qjoCount, i>>
    BY <1>2 DEF Delete, Walking
  <2> QED
    BY <2>2, <2>3, <1>n, <1>t, TurnsAre
<1>3. CASE EndWalk
  <2>1. pc = "walk" /\ pc' \in {"create", "drop"} /\ UNCHANGED <<vApW, qjoCount, i>>
    BY <1>3 DEF EndWalk, walkVars
  <2> QED
    BY <2>1, <1>n, <1>t, TurnsAre
<1>4. CASE Create
  <2>1. /\ pc = "create" /\ UNCHANGED qjoCount
        /\ (pc' = "create" /\ i' = i + 1) \/ (pc' = "ack" /\ i' = i)
    BY <1>4 DEF Create
  <2> QED
    BY <2>1, <1>n, <1>t, TurnsAre
<1>5. CASE Drop \/ AckMerge
  <2>1. (pc = "drop" /\ pc' = "ack") \/ (pc = "ack" /\ pc' = "idle")
    BY <1>5 DEF Drop, AckMerge
  <2> QED
    BY <2>1, <1>t, TurnsAre
<1> QED
  BY <1>1, <1>2, <1>3, <1>4, <1>5 DEF MergeThread, BeginWalk, InSlot

LEMMA TurnUsed == ASSUME RowsAhead, RowsAhead', [MergeNext]_mergeVars, InSlot PROVE UsesTurn
<1>1. ASSUME ~MergeThread PROVE UNCHANGED <<pc, TurnsLeft>>
  <2>1. UNCHANGED <<pc, vApW, qjoCount, i>>
    BY <1>1 DEF MergeNext, EditRows, Fetch, InSlot, walkVars, mergeVars
  <2> QED
    BY <2>1 DEF TurnsLeft
<1> QED
  BY <1>1, TurnTaken DEF UsesTurn

THEOREM WalkRunsOut == MergeSpec => [](TurnsLeft \in Nat) /\ [][UsesTurn]_mergeVars
<1>1. MergeInit => RowsAhead
  BY MergeTypesInit DEF MergeInit, RowsAhead
<1>2. RowsAhead => TurnsLeft \in Nat
  <2> SUFFICES ASSUME RowsAhead PROVE TurnsLeft \in Nat
    OBVIOUS
  <2>1. Len(vApW) \in Nat /\ qjoCount - i \in Nat
    BY DEF RowsAhead, MergeTypes
  <2> QED
    BY <2>1 DEF TurnsLeft
<1>3. RowsAhead /\ RowsAhead' /\ [MergeNext]_mergeVars => [UsesTurn]_mergeVars
  BY TurnUsed DEF UsesTurn
<1> QED
  BY <1>1, <1>2, <1>3, RowsAheadNext, PTL DEF MergeSpec
=============================================================================
