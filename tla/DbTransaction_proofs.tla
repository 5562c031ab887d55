------------------------ MODULE DbTransaction_proofs ------------------------
(* Theorems about DbTransaction, for any handlers, messages and bounds that  *)
(* satisfy its assumptions.                                                  *)
EXTENDS DbTransaction, TLAPS

-----------------------------------------------------------------------------
(* The flag and the session.  SessionAgrees is inductive: whatever clears    *)
(* m_transaction_open also sets autocommit, or loses the session.            *)
LEMMA AgreesNext == SessionAgrees /\ [Next]_vars => SessionAgrees'
<1> SUFFICES ASSUME SessionAgrees, [Next]_vars PROVE SessionAgrees'
  OBVIOUS
<1> USE DEF SessionAgrees, Session, NoSession
<1>1. CASE UNCHANGED vars
  BY <1>1 DEF vars, server
<1>2. ASSUME NEW k \in Messages, Take(k) PROVE SessionAgrees'
  BY <1>2 DEF Take, server
<1>3. CASE Drop
  BY <1>3 DEF Drop
<1>4. CASE Connect \/ ScriptError
  BY <1>4 DEF Connect, ScriptError, server
<1>5. CASE Begin
  BY <1>5 DEF Begin
<1>6. Executed \/ NotExecuted \/ Refusal => (~open => autocommit' /\ work' = {})
  <2>1. CASE open
    BY <2>1
  <2>2. CASE ~open
    <3>1. autocommit /\ work = {}
      BY <2>2
    <3> QED
      BY <3>1 DEF Executed, NotExecuted, Refusal
  <2> QED
    BY <2>1, <2>2
<1>7. CASE Query \/ Ping \/ Retry
  BY <1>6, <1>7 DEF Query, Ping, Retry
<1>8. CASE Commit \/ Restore \/ RollBack
  BY <1>6, <1>8 DEF Commit, Restore, RollBack
<1> QED
  BY <1>1, <1>2, <1>3, <1>4, <1>5, <1>7, <1>8 DEF Next, Thread

(* A statement sent while no transaction is open commits by itself, whatever *)
(* losses, refusals and Lua errors came before it.                           *)
THEOREM FlagAgrees == Spec => []SessionAgrees
<1>1. Init => SessionAgrees
  BY DEF Init, SessionAgrees
<1> QED
  BY <1>1, AgreesNext, PTL DEF Spec

-----------------------------------------------------------------------------
(* Where the thread is.                                                      *)
Phases == {"idle", "connect", "begin", "query", "ping", "retry", "commit",
           "abandon", "unwind", "rollback", "raise"}
Busy == phase # "idle"
ControlInv ==
  /\ now \in 0..MaxRequests
  /\ message \in [Requests -> Messages \cup {"none"}]
  /\ answer \in [Requests -> {"none", "ok", "error"}]
  /\ phase \in Phases
  /\ \A r \in Requests : r > now => answer[r] = "none"
  /\ ~Busy => step = 0
  /\ Busy => /\ now # 0 /\ answer[now] = "none"
             /\ message[now] \in Messages
             /\ step \in 1..Len(Script[message[now]])
  /\ phase = "raise" => statement.op = "raise"

(* What a step of the thread does to these variables.                        *)
Moves ==
  \/ \E p \in Phases \ {"idle", "raise", "connect"} : GoTo(p)
  \/ GoTo(FirstCall(statement, open))
  \/ \E a \in {"ok", "error"} : Answer(a)
  \/ /\ step # Len(Script[message[now]]) /\ step' = step + 1
     /\ phase' = FirstCall(Script[message[now]][step + 1], open')
     /\ UNCHANGED <<now, message, answer>>

LEMMA StatementIs == ControlInv /\ Busy => statement \in Statements
<1> SUFFICES ASSUME ControlInv, Busy PROVE statement \in Statements
  OBVIOUS
<1>1. message[now] \in Messages /\ step \in 1..Len(Script[message[now]])
  BY DEF ControlInv
<1>2. Script[message[now]] \in Seq(Statements)
  BY <1>1, ScriptAssumption
<1> QED
  BY <1>1, <1>2 DEF statement

LEMMA ReturnsMoves == ASSUME NEW result, Returns(result) PROVE Moves
<1>1. "rollback" \in Phases \ {"idle", "raise", "connect"}
  BY DEF Phases
<1> QED
  BY <1>1 DEF Returns, Moves

LEMMA ThreadMoves == Thread => Moves /\ Busy
<1> SUFFICES ASSUME Thread PROVE Moves /\ Busy
  OBVIOUS
<1>1. \A p \in {"query", "ping", "retry", "commit", "abandon", "unwind"} : GoTo(p) => Moves
  BY DEF Moves, Phases
<1>2. Done => Moves
  BY <1>1, ReturnsMoves DEF Done
<1>3. CASE Connect
  BY <1>3 DEF Connect, Moves, Busy
<1>4. CASE Begin
  BY <1>1, <1>4, ReturnsMoves DEF Begin, Busy
<1>5. CASE Query
  BY <1>1, <1>2, <1>5 DEF Query, Busy
<1>6. CASE Ping
  BY <1>1, <1>6, ReturnsMoves DEF Ping, Busy
<1>7. CASE Retry
  BY <1>1, <1>2, <1>7, ReturnsMoves DEF Retry, Busy
<1>8. CASE Commit
  BY <1>1, <1>8, ReturnsMoves DEF Commit, Busy
<1>9. CASE Restore
  BY <1>9, ReturnsMoves DEF Restore, Busy
<1>10. CASE RollBack \/ ScriptError
  BY <1>10 DEF RollBack, ScriptError, Moves, Busy
<1> QED
  BY <1>3, <1>4, <1>5, <1>6, <1>7, <1>8, <1>9, <1>10 DEF Thread

LEMMA FirstCallIs ==
  ASSUME NEW s, NEW o
  PROVE  /\ FirstCall(s, o) \in Phases \ {"idle"}
         /\ FirstCall(s, o) = "raise" => s.op = "raise"
BY DEF FirstCall, Phases

LEMMA ControlMoves == ControlInv /\ Busy /\ Moves => ControlInv'
<1> SUFFICES ASSUME ControlInv, Busy, Moves PROVE ControlInv'
  OBVIOUS
<1>1. now \in Requests
  BY BoundAssumption DEF ControlInv, Requests
<1>2. CASE \E p \in Phases \ {"idle", "raise", "connect"} : GoTo(p)
  BY <1>2 DEF ControlInv, GoTo, Busy, statement
<1>3. CASE GoTo(FirstCall(statement, open))
  <2> DEFINE p == FirstCall(statement, open)
  <2>1. p \in Phases \ {"idle"} /\ (p = "raise" => statement.op = "raise")
    BY FirstCallIs
  <2>2. phase' = p /\ UNCHANGED <<now, message, step, answer>>
    BY <1>3 DEF GoTo
  <2> HIDE DEF p
  <2> QED
    BY <2>1, <2>2 DEF ControlInv, Busy, statement
<1>4. ASSUME NEW a \in {"ok", "error"}, Answer(a) PROVE ControlInv'
  BY <1>1, <1>4, BoundAssumption DEF ControlInv, Answer, Busy, Phases, Requests
<1>5. CASE /\ step # Len(Script[message[now]]) /\ step' = step + 1
           /\ phase' = FirstCall(Script[message[now]][step + 1], open')
           /\ UNCHANGED <<now, message, answer>>
  <2> DEFINE s == Script[message[now]][step + 1]
  <2>1. phase' \in Phases \ {"idle"} /\ (phase' = "raise" => s.op = "raise")
    BY <1>5, FirstCallIs
  <2>2. statement' = s
    BY <1>5 DEF statement
  <2>3. Len(Script[message[now]]) \in Nat
    BY ScriptAssumption DEF ControlInv, Busy
  <2>4. step' \in 1..Len(Script[message[now]])
    BY <1>5, <2>3 DEF ControlInv, Busy
  <2> HIDE DEF s
  <2> QED
    BY <1>5, <2>1, <2>2, <2>4 DEF ControlInv, Busy
<1> QED
  BY <1>2, <1>3, <1>4, <1>5 DEF Moves

LEMMA ControlNext == ControlInv /\ [Next]_vars => ControlInv'
<1> SUFFICES ASSUME ControlInv, [Next]_vars PROVE ControlInv'
  OBVIOUS
<1>1. CASE UNCHANGED vars \/ Drop
  BY <1>1 DEF vars, Drop, ControlInv, Busy, statement
<1>2. ASSUME NEW k \in Messages, Take(k) PROVE ControlInv'
  <2>1. now + 1 \in Requests /\ now' = now + 1 /\ step' = 1
    BY <1>2, BoundAssumption DEF Take, ControlInv, Requests
  <2>2. message' = [message EXCEPT ![now + 1] = k] /\ UNCHANGED answer
    BY <1>2 DEF Take
  <2>3. message'[now'] = k /\ message' \in [Requests -> Messages \cup {"none"}]
    BY <2>1, <2>2 DEF ControlInv
  <2>4. Script[k] \in Seq(Statements) /\ Script[k] # <<>>
    BY ScriptAssumption
  <2>5. 1 \in 1..Len(Script[k])
    BY <2>4
  <2>6. statement' = Script[k][1]
    BY <2>1, <2>3 DEF statement
  <2>7. /\ phase' \in Phases \ {"idle"}
        /\ phase' = "raise" => Script[k][1].op = "raise"
    <3>1. phase' = "connect" \/ phase' = FirstCall(Script[k][1], open)
      BY <1>2 DEF Take
    <3> QED
      BY <3>1, FirstCallIs DEF Phases
  <2>8. answer[now + 1] = "none" /\ \A r \in Requests : r > now + 1 => answer[r] = "none"
    BY <2>1, BoundAssumption DEF ControlInv, Requests
  <2> QED
    BY <2>1, <2>2, <2>3, <2>5, <2>6, <2>7, <2>8, BoundAssumption DEF ControlInv, Busy, Requests
<1>3. CASE Thread
  BY <1>3, ThreadMoves, ControlMoves
<1> QED
  BY <1>1, <1>2, <1>3 DEF Next

LEMMA ControlInit == Init => ControlInv
BY BoundAssumption DEF Init, ControlInv, Busy, Requests, Phases
-----------------------------------------------------------------------------
(* What a step may do to the connection, to what is stored and to the faults *)
(* met: the session goes on, with at most the statement under way added to   *)
(* what it holds back, or it is gone; only what it held back, or that        *)
(* statement, is stored.                                                     *)
row == <<now, step>>
Lives ==
  \/ link' = "up" /\ autocommit' \in BOOLEAN /\ work' \subseteq work \cup {row}
  \/ link' \in {"lost", "refusing"} /\ autocommit' = TRUE /\ work' = {}
  \/ link' \in {link, "up"} /\ UNCHANGED <<autocommit, work>>
Keeps ==
  /\ stored' \subseteq stored \cup work \cup {row} /\ stored \subseteq stored'
  /\ again' \subseteq again \cup stored
Blames == Calm \/ \E f \in Faults : Fault(f)

ServerInv ==
  /\ link \in {"none", "up", "lost", "refusing"}
  /\ autocommit \in BOOLEAN /\ open \in BOOLEAN
  /\ link # "up" => autocommit /\ work = {}
  /\ phase = "connect" => link # "up"
  /\ work \subseteq (1..now) \X Nat /\ stored \subseteq (1..now) \X Nat
  /\ again \subseteq stored
  /\ faults \in Nat /\ abandoned \subseteq Requests
  /\ met \in [Requests -> SUBSET (Faults \cup Leftovers)]

LEMMA LibraryServes ==
  ASSUME ServerInv, Executed \/ NotExecuted \/ Refusal
  PROVE  Lives /\ Keeps /\ Blames
<1> USE DEF ServerInv, Lives, Keeps, Blames, Session, NoSession, Store, StoresNone, row, Faults
<1>1. CASE Executed
  BY <1>1 DEF Executed
<1>2. CASE NotExecuted
  BY <1>2 DEF NotExecuted
<1>3. CASE Refusal
  BY <1>3 DEF Refusal
<1> QED
  BY <1>1, <1>2, <1>3

LEMMA ThreadServes ==
  ASSUME ServerInv, Thread
  PROVE  Lives /\ Keeps /\ Blames /\ open' \in BOOLEAN
<1> USE DEF ServerInv
<1>1. CASE Connect \/ ScriptError
  BY <1>1 DEF Connect, ScriptError, Lives, Keeps, Blames, StoresNone, Calm, Faults, server
<1>2. CASE Begin
  BY <1>2 DEF Begin, Lives, Keeps, Blames, StoresNone, Session, NoSession, Faults
<1>3. CASE Query
  <2>1. CASE Executed \/ NotExecuted
    BY <1>3, <2>1, LibraryServes DEF Query
  <2>2. CASE Fault("lost") /\ NoSession({}) /\ StoresNone
    BY <1>3, <2>2 DEF Query, Lives, Keeps, Blames, StoresNone, NoSession, Faults
  <2> QED
    BY <1>3, <2>1, <2>2 DEF Query
<1>4. CASE Ping
  <2>1. CASE Refusal
    BY <1>4, <2>1, LibraryServes DEF Ping
  <2>2. CASE ~Refusal
    BY <1>4, <2>2 DEF Ping, Lives, Keeps, Blames, StoresNone, Session, NoSession, Faults
  <2> QED
    BY <2>1, <2>2
<1>5. CASE Retry
  BY <1>5, LibraryServes DEF Retry
<1>6. CASE Commit
  <2>1. CASE Refusal
    BY <1>6, <2>1, LibraryServes DEF Commit
  <2>2. CASE ~Refusal
    BY <1>6, <2>2 DEF Commit, Lives, Keeps, Blames, Store, StoresNone, Session, NoSession, Faults
  <2> QED
    BY <2>1, <2>2
<1>7. CASE Restore
  BY <1>7 DEF Restore, Lives, Keeps, Blames, StoresNone, Session, NoSession, Faults
<1>8. CASE RollBack
  <2>1. CASE Refusal
    BY <1>8, <2>1, LibraryServes DEF RollBack
  <2>2. CASE ~Refusal
    BY <1>8, <2>2 DEF RollBack, Lives, Keeps, Blames, StoresNone, Session, NoSession, Faults
  <2> QED
    BY <2>1, <2>2
<1> QED
  BY <1>1, <1>2, <1>3, <1>4, <1>5, <1>6, <1>7, <1>8 DEF Thread

(* Faults are only added, to the request under way.                          *)
LEMMA BlamesAdds ==
  ASSUME ServerInv, now \in Requests, Blames
  PROVE  /\ faults' \in Nat /\ met' \in [Requests -> SUBSET (Faults \cup Leftovers)]
         /\ \A r \in Requests : met[r] \subseteq met'[r]
<1> USE DEF ServerInv
<1>1. CASE Calm
  BY <1>1 DEF Calm
<1>2. ASSUME NEW f \in Faults, Fault(f)
      PROVE  /\ faults' \in Nat /\ met' \in [Requests -> SUBSET (Faults \cup Leftovers)]
             /\ \A r \in Requests : met[r] \subseteq met'[r]
  <2>1. met' = [met EXCEPT ![now] = met[now] \cup {f}] /\ faults' \in {faults, faults + 1}
    BY <1>2 DEF Fault
  <2>2. met[now] \cup {f} \in SUBSET (Faults \cup Leftovers)
    OBVIOUS
  <2> QED
    BY <2>1, <2>2
<1> QED
  BY <1>1, <1>2 DEF Blames

LEMMA NowStays == Moves => now' = now /\ message' = message
BY DEF Moves, GoTo, Answer

LEMMA BusyNow == ControlInv /\ Busy => now \in Requests /\ now \in 1..now /\ step \in Nat
<1> SUFFICES ASSUME ControlInv, Busy
             PROVE  now \in Requests /\ now \in 1..now /\ step \in Nat
  OBVIOUS
<1> QED
  BY BoundAssumption DEF ControlInv, Requests

LEMMA ServerNext == ControlInv /\ ServerInv /\ [Next]_vars => ServerInv'
<1> SUFFICES ASSUME ControlInv, ServerInv, [Next]_vars PROVE ServerInv'
  OBVIOUS
<1>1. CASE UNCHANGED vars
  BY <1>1 DEF vars, server, ServerInv
<1>2. ASSUME NEW k \in Messages, Take(k) PROVE ServerInv'
  <2>1. now \in Nat /\ now' = now + 1 /\ UNCHANGED <<server, open, abandoned, faults>>
    BY <1>2, BoundAssumption DEF Take, ControlInv
  <2>2. (1..now) \X Nat \subseteq (1..now') \X Nat
    BY <2>1
  <2>3. phase' = "connect" => link = "none"
    BY <1>2 DEF Take, FirstCall
  <2>4. met' \in [Requests -> SUBSET (Faults \cup Leftovers)]
    BY <1>2 DEF Take, ServerInv, Leftovers
  <2> QED
    BY <2>1, <2>2, <2>3, <2>4 DEF ServerInv, server
<1>3. CASE Drop
  <2>1. faults' \in Nat /\ met' \in [Requests -> SUBSET (Faults \cup Leftovers)]
    <3>1. CASE phase = "idle"
      BY <1>3, <3>1 DEF Drop, ServerInv
    <3>2. CASE phase # "idle"
      BY <1>3, <3>2, BusyNow, BlamesAdds DEF Drop, Busy, Blames, Faults
    <3> QED
      BY <3>1, <3>2
  <2> QED
    BY <1>3, <2>1 DEF Drop, ServerInv, NoSession, StoresNone
<1>4. CASE Thread
  <2>1. Lives /\ Keeps /\ Blames /\ open' \in BOOLEAN /\ Moves /\ Busy
    BY <1>4, ThreadServes, ThreadMoves
  <2>2. now' = now /\ row \in (1..now) \X Nat /\ now \in Requests
    BY <2>1, NowStays, BusyNow DEF row
  <2>3. faults' \in Nat /\ met' \in [Requests -> SUBSET (Faults \cup Leftovers)]
    BY <2>1, <2>2, BlamesAdds
  <2>4. phase' # "connect"
    BY <2>1 DEF Moves, GoTo, Answer, FirstCall
  <2>5. abandoned' \subseteq Requests
    BY <1>4, <2>2 DEF Thread, Connect, Begin, Query, Ping, Retry, Commit, Restore, RollBack,
                     ScriptError, ServerInv
  <2>6. work' \subseteq (1..now) \X Nat /\ stored' \subseteq (1..now) \X Nat
    BY <2>1, <2>2 DEF Lives, Keeps, ServerInv
  <2>7. again' \subseteq stored'
    BY <2>1 DEF Keeps, ServerInv
  <2>8. /\ link' \in {"none", "up", "lost", "refusing"} /\ autocommit' \in BOOLEAN
        /\ link' # "up" => autocommit' /\ work' = {}
    <3>1. CASE link' \in {link, "up"} /\ UNCHANGED <<autocommit, work>>
      <4>1. autocommit' = autocommit /\ work' = work /\ link' \in {link, "up"}
        BY <3>1
      <4> QED
        BY <4>1 DEF ServerInv
    <3>2. CASE link' = "up" /\ autocommit' \in BOOLEAN
      BY <3>2
    <3>3. CASE link' \in {"lost", "refusing"} /\ autocommit' = TRUE /\ work' = {}
      BY <3>3
    <3> QED
      BY <2>1, <3>1, <3>2, <3>3 DEF Lives
  <2> QED
    BY <2>1, <2>2, <2>3, <2>4, <2>5, <2>6, <2>7, <2>8 DEF ServerInv
<1> QED
  BY <1>1, <1>2, <1>3, <1>4 DEF Next

LEMMA ServerInit == Init => ServerInv
<1> SUFFICES ASSUME Init PROVE ServerInv
  OBVIOUS
<1>1. met \in [Requests -> SUBSET (Faults \cup Leftovers)]
  BY DEF Init
<1> QED
  BY <1>1 DEF Init, ServerInv

LEMMA Inv == Spec => [](ControlInv /\ ServerInv)
<1>1. Init => ControlInv /\ ServerInv
  BY ControlInit, ServerInit
<1>2. ControlInv /\ ServerInv /\ [Next]_vars => (ControlInv /\ ServerInv)'
  BY ControlNext, ServerNext
<1> QED
  BY <1>1, <1>2, PTL DEF Spec

(* The types of the variables, and: a connection that is not up has nothing  *)
(* uncommitted left for the session after it.                                *)
THEOREM TypeCorrect == Spec => []TypeOK
<1>1. ControlInv /\ ServerInv => TypeOK
  <2> SUFFICES ASSUME ControlInv, ServerInv PROVE TypeOK
    OBVIOUS
  <2>1. step \in Nat
    BY DEF ControlInv
  <2> QED
    BY <2>1 DEF ControlInv, ServerInv, TypeOK, Phases
<1> QED
  BY <1>1, Inv, PTL
-----------------------------------------------------------------------------
(* What a request answered with an error leaves behind: nothing, unless its  *)
(* handler was ended by a Lua error.  While it runs, the session holds back  *)
(* none of the statements still to come.                                     *)
Left(r) == Rows(r, Parts(message[r])) \cap work
LeftInv ==
  /\ \A i \in Nat : Busy /\ <<now, i>> \in work => i <= step
  /\ \A r \in Requests : answer[r] = "error" /\ ~Raises(message[r]) => Left(r) = {}

LEMMA ReturnsError ==
  ASSUME NEW result, Returns(result), answer[now] = "none", answer'[now] = "error",
         ControlInv, Busy
  PROVE  ~Passes(result) /\ ~statement.undo
<1>1. answer' # answer
  OBVIOUS
<1>2. ~GoTo("rollback")
  BY <1>1 DEF GoTo
<1>3. CASE Passes(result)
  <2>1. Answer("ok")
    BY <1>1, <1>3 DEF Returns
  <2>2. answer'[now] = "ok"
    BY <2>1, BusyNow DEF Answer, ControlInv
  <2> QED
    BY <2>2
<1> QED
  BY <1>1, <1>2, <1>3 DEF Returns

(* The statement whose failure is answered without a rollback is the first   *)
(* of its transaction, or has lost the session, or was rolled back by        *)
(* exe_sql_transaction.                                                      *)
LEMMA PlainFirst ==
  ASSUME ControlInv, Busy, statement.op = "plain", ~statement.undo,
         NEW i \in Parts(message[now])
  PROVE  i >= step
<1> DEFINE k == message[now]
<1>1. k \in Messages /\ step \in 1..Len(Script[k]) /\ Len(Script[k]) \in Nat
  BY ScriptAssumption DEF ControlInv
<1>2. i \in 1..Len(Script[k]) /\ Script[k][i].op = "trans"
  BY DEF Parts, Written
<1>3. ~(i \in 1..(step - 1))
  BY <1>1, <1>2, UndoAssumption DEF statement
<1> QED
  BY <1>1, <1>2, <1>3

LEMMA ErrorClears ==
  ASSUME ControlInv, ServerInv, LeftInv, Thread, answer'[now] = "error",
         ~Raises(message[now])
  PROVE  Rows(now, Parts(message[now])) \cap work' = {}
<1>1. Busy /\ Moves /\ answer[now] = "none" /\ answer' # answer
  BY ThreadMoves DEF ControlInv
<1>2. \A p : ~GoTo(p)
  BY <1>1 DEF GoTo
<1>3. ~Returns("good")
  BY <1>1, ReturnsError DEF Passes
<1>4. ~Done
  BY <1>2, <1>3 DEF Done
<1>5. CASE Connect
  BY <1>2, <1>5 DEF Connect, ServerInv
<1>6. CASE Begin
  BY <1>2, <1>6 DEF Begin, NoSession
<1>7. CASE Query
  BY <1>2, <1>4, <1>7 DEF Query
<1>8. CASE Ping
  BY <1>2, <1>8 DEF Ping, NoSession, Refusal
<1>9. CASE Retry
  <2>1. statement.op # "trans" /\ Returns("positive") /\ (NotExecuted \/ Refusal)
    BY <1>2, <1>4, <1>9 DEF Retry
  <2>2. ~statement.undo
    BY <2>1, <1>1, ReturnsError
  <2>3. statement.op = "plain"
    <3>1. statement.op \in {"plain", "trans", "raise"}
      BY <1>1, StatementIs DEF Statements
    <3>2. statement.op # "raise"
      BY <1>1, ScriptAssumption DEF Raises, statement, ControlInv
    <3> QED
      BY <2>1, <3>1, <3>2
  <2>4. work' \subseteq work
    BY <2>1 DEF NotExecuted, Refusal, Session, NoSession
  <2>5. ASSUME NEW i \in Parts(message[now]), <<now, i>> \in work PROVE FALSE
    <3>1. i \in Nat /\ step \in Nat
      BY <1>1, BusyNow, <2>5 DEF ServerInv
    <3>2. i <= step
      BY <1>1, <2>5, <3>1 DEF LeftInv
    <3>3. i = step
      BY <1>1, <2>2, <2>3, <3>1, <3>2, PlainFirst
    <3>4. Script[message[now]][i].op = "trans"
      BY DEF Parts
    <3> QED
      BY <2>1, <3>3, <3>4 DEF statement
  <2> QED
    BY <2>4, <2>5 DEF Rows
<1>10. CASE Commit
  BY <1>2, <1>3, <1>10 DEF Commit
<1>11. CASE Restore
  BY <1>11 DEF Restore, Session, NoSession
<1>12. CASE RollBack
  BY <1>12 DEF RollBack, Session, NoSession, Refusal
<1>13. CASE ScriptError
  <2>1. statement.op = "raise"
    BY <1>13 DEF ScriptError, ControlInv
  <2> QED
    BY <1>1, <2>1, ScriptAssumption DEF Raises, statement, ControlInv
<1> QED
  BY <1>5, <1>6, <1>7, <1>8, <1>9, <1>10, <1>11, <1>12, <1>13 DEF Thread

LEMMA LeftNext == ControlInv /\ ServerInv /\ LeftInv /\ [Next]_vars => LeftInv'
<1> SUFFICES ASSUME ControlInv, ServerInv, LeftInv, [Next]_vars PROVE LeftInv'
  OBVIOUS
<1>1. CASE UNCHANGED vars
  BY <1>1 DEF vars, server, LeftInv, Left, Busy
<1>2. ASSUME NEW k \in Messages, Take(k) PROVE LeftInv'
  <2>1. now \in Nat /\ now' = now + 1 /\ work' = work /\ answer' = answer
    BY <1>2, BoundAssumption DEF Take, ControlInv, server
  <2>2. \A i \in Nat : <<now', i>> \notin work'
    BY <2>1 DEF ServerInv
  <2>3. ASSUME NEW r \in Requests, answer[r] = "error" PROVE message'[r] = message[r]
    <3>1. r # now + 1
      BY <2>1, <2>3, BoundAssumption DEF ControlInv, Requests
    <3> QED
      BY <1>2, <3>1 DEF Take, ControlInv
  <2> QED
    BY <2>1, <2>2, <2>3 DEF LeftInv, Left
<1>3. CASE Drop
  BY <1>3 DEF Drop, NoSession, LeftInv, Left, Busy
<1>4. CASE Thread
  <2>1. Lives /\ Moves /\ Busy
    BY <1>4, ThreadServes, ThreadMoves
  <2>2. now' = now /\ message' = message /\ now \in Requests /\ step \in Nat
    BY <2>1, NowStays, BusyNow
  <2>3. work' \subseteq work \cup {row}
    BY <2>1 DEF Lives
  <2>4. Busy' => step' \in {step, step + 1}
    BY <2>1 DEF Moves, GoTo, Answer, Busy
  <2>5. \A i \in Nat : Busy' /\ <<now', i>> \in work' => i <= step'
    BY <2>1, <2>2, <2>3, <2>4 DEF LeftInv, row
  <2>6. ASSUME NEW r \in Requests, r # now PROVE answer'[r] = answer[r]
    BY <2>1, <2>6 DEF Moves, GoTo, Answer, ControlInv
  <2>7. ASSUME NEW r \in Requests, answer'[r] = "error", ~Raises(message[r]) PROVE Left(r)' = {}
    <3>1. CASE r = now
      BY <1>4, <2>2, <2>7, <3>1, ErrorClears DEF Left
    <3>2. CASE r # now
      BY <2>2, <2>3, <2>6, <2>7, <3>2 DEF LeftInv, Left, Rows, row
    <3> QED
      BY <3>1, <3>2
  <2> QED
    BY <2>2, <2>5, <2>7 DEF LeftInv
<1> QED
  BY <1>1, <1>2, <1>3, <1>4 DEF Next

(* No later commit on the connection stores what a request answered with an  *)
(* error left behind, as long as its handler was not ended by a Lua error.   *)
THEOREM ErrorsLeaveNothing == Spec => FailedStaysOut
<1> DEFINE Late(r) == Rows(r, Parts(message[r])) \cap (stored' \ stored)
<1>1. Init => LeftInv
  BY DEF Init, LeftInv, Left
<1>2. ControlInv /\ ServerInv /\ LeftInv /\ [Next]_vars =>
        [\A r \in Requests : answer[r] = "error" /\ ~Raises(message[r]) => Late(r) = {}]_vars
  <2> SUFFICES ASSUME ControlInv, ServerInv, LeftInv, Next,
                      NEW r \in Requests, answer[r] = "error", ~Raises(message[r])
               PROVE  Late(r) = {}
    OBVIOUS
  <2>1. CASE Thread
    <3>1. Keeps /\ answer[now] = "none"
      BY <2>1, ThreadServes, ThreadMoves DEF ControlInv
    <3> QED
      BY <3>1 DEF Keeps, LeftInv, Left, Rows, row
  <2>2. CASE ~Thread
    <3>1. stored' = stored
      BY <2>2 DEF Next, Take, Drop, StoresNone, server
    <3> QED
      BY <3>1
  <2> QED
    BY <2>1, <2>2
<1> QED
  BY <1>1, <1>2, LeftNext, Inv, PTL DEF Spec, FailedStaysOut
-----------------------------------------------------------------------------
(* An error has a fault of its own request behind it.  A request that is in  *)
(* trouble has met one, and so has one whose connection is closed when it    *)
(* comes to its commit, although a call before "set names" may find the      *)
(* connection closed without any.                                            *)
Blamed(r) == met[r] \cap Faults # {}
Troubled == phase \in {"ping", "retry", "abandon", "unwind", "rollback"}
CauseInv ==
  /\ Troubled => Blamed(now)
  /\ phase = "commit" /\ link # "up" => Blamed(now)
  /\ ErrorHasCause

(* A call that went well.                                                    *)
Fine == answer'[now] # "error" /\ ~Troubled' /\ (phase' = "commit" => link' = "up")

LEMMA FaultBlames ==
  ASSUME ServerInv, now \in Requests, NEW f \in Faults, Fault(f)
  PROVE  met'[now] \cap Faults # {}
<1>1. met' = [met EXCEPT ![now] = met[now] \cup {f}]
  BY DEF Fault
<1>2. f \in met'[now]
  BY <1>1 DEF ServerInv
<1> QED
  BY <1>2

LEMMA PassFine ==
  ASSUME ControlInv, Busy, Returns("good")
  PROVE  Fine
<1>1. CASE step = Len(Script[message[now]])
  <2>1. Answer("ok")
    BY <1>1 DEF Returns, Passes
  <2> QED
    BY <2>1, BusyNow DEF Answer, ControlInv, Fine, Troubled
<1>2. CASE step # Len(Script[message[now]])
  BY <1>2 DEF Returns, Passes, FirstCall, ControlInv, Fine, Troubled
<1> QED
  BY <1>1, <1>2

LEMMA ThreadBlames ==
  ASSUME ControlInv, ServerInv, CauseInv, Thread
  PROVE  \/ met'[now] \cap Faults # {}
         \/ Fine
         \/ Raises(message[now]) /\ phase' = "idle"
<1> DEFINE Marked == met'[now] \cap Faults # {}
<1>1. Busy /\ Moves /\ answer[now] = "none" /\ now \in Requests
  BY ThreadMoves, BusyNow DEF ControlInv
<1>2. \A f \in Faults : Fault(f) => Marked
  BY <1>1, FaultBlames
<1>3. met[now] \subseteq met'[now]
  BY <1>1, ThreadServes, BlamesAdds
<1>4. CASE Troubled
  BY <1>3, <1>4 DEF CauseInv, Blamed
<1>5. \A p \in {"query", "begin", "raise"} : GoTo(p) => Fine
  BY <1>1 DEF GoTo, Fine, Troubled
<1>6. CASE Connect
  <2>1. CASE GoTo(FirstCall(statement, open))
    BY <1>5, <2>1 DEF FirstCall
  <2> QED
    BY <1>2, <1>6, <2>1 DEF Connect, Faults
<1>7. CASE Begin
  BY <1>2, <1>5, <1>7 DEF Begin, Faults
<1>8. NotExecuted => Marked
  BY <1>2 DEF NotExecuted, Faults
<1>9. CASE Query
  <2>1. CASE Executed /\ Done
    <3>1. CASE GoTo("commit")
      BY <1>1, <2>1, <3>1 DEF GoTo, Fine, Troubled, Executed, Session
    <3> QED
      BY <1>1, <2>1, <3>1, PassFine DEF Done
  <2> QED
    BY <1>2, <1>8, <1>9, <2>1 DEF Query, Faults
<1>10. CASE Commit
  <2>1. CASE Returns("good")
    BY <1>1, <2>1, PassFine
  <2>2. CASE Refusal
    BY <1>3, <1>10, <2>2 DEF Commit, Refusal, CauseInv, Blamed
  <2> QED
    BY <1>2, <1>10, <2>1, <2>2 DEF Commit, Faults
<1>11. CASE ScriptError
  <2>1. statement.op = "raise"
    BY <1>11 DEF ScriptError, ControlInv
  <2>2. phase' = "idle"
    BY <1>11 DEF ScriptError, Answer
  <2> QED
    BY <1>1, <2>1, <2>2, ScriptAssumption DEF Raises, statement, ControlInv
<1>12. CASE Ping \/ Retry \/ Restore \/ RollBack
  BY <1>4, <1>12 DEF Ping, Retry, Restore, RollBack, Troubled
<1> QED
  BY <1>6, <1>7, <1>9, <1>10, <1>11, <1>12 DEF Thread

LEMMA CauseNext == ControlInv /\ ServerInv /\ CauseInv /\ [Next]_vars => CauseInv'
<1> SUFFICES ASSUME ControlInv, ServerInv, CauseInv, [Next]_vars PROVE CauseInv'
  OBVIOUS
<1>1. CASE UNCHANGED vars
  BY <1>1 DEF vars, server, CauseInv, ErrorHasCause, Answered, Blamed, Troubled
<1>2. ASSUME NEW k \in Messages, Take(k) PROVE CauseInv'
  <2>1. ~Troubled' /\ phase' # "commit" /\ answer' = answer
    BY <1>2 DEF Take, FirstCall, Troubled
  <2>2. ASSUME NEW r \in Requests, answer[r] = "error"
        PROVE message'[r] = message[r] /\ met'[r] = met[r]
    <3>1. r # now + 1
      BY <1>2, <2>2, BoundAssumption DEF Take, ControlInv, Requests
    <3> QED
      BY <1>2, <3>1 DEF Take, ControlInv, ServerInv
  <2> QED
    BY <2>1, <2>2 DEF CauseInv, ErrorHasCause, Answered
<1>3. CASE Drop
  <2>1. CASE phase = "idle"
    BY <1>3, <2>1 DEF Drop, CauseInv, ErrorHasCause, Answered, Blamed, Troubled
  <2>2. CASE phase # "idle"
    <3>1. now \in Requests /\ Fault("lost") /\ "lost" \in Faults
      BY <1>3, <2>2, BusyNow DEF Drop, Busy, Faults
    <3>2. met'[now] \cap Faults # {}
      BY <3>1, FaultBlames
    <3>3. \A r \in Requests : met[r] \subseteq met'[r]
      BY <3>1, BlamesAdds DEF Blames
    <3> QED
      BY <1>3, <3>2, <3>3 DEF Drop, CauseInv, ErrorHasCause, Answered, Blamed, Troubled
  <2> QED
    BY <2>1, <2>2
<1>4. CASE Thread
  <2>1. Blames /\ Moves /\ Busy
    BY <1>4, ThreadServes, ThreadMoves
  <2>2. now' = now /\ message' = message /\ now \in Requests
    BY <2>1, NowStays, BusyNow
  <2>3. \A r \in Requests : met[r] \subseteq met'[r]
    BY <2>1, <2>2, BlamesAdds
  <2>4. ASSUME NEW r \in Requests, r # now PROVE answer'[r] = answer[r]
    BY <2>1, <2>4 DEF Moves, GoTo, Answer, ControlInv
  <2>5. ErrorHasCause'
    <3> SUFFICES ASSUME NEW r \in Requests, answer'[r] = "error", ~Raises(message[r])
                 PROVE  met'[r] \cap Faults # {}
      BY <2>2 DEF ErrorHasCause, Answered
    <3>1. CASE r = now
      BY <1>4, <3>1, ThreadBlames DEF Fine
    <3>2. CASE r # now
      BY <2>3, <2>4, <3>2 DEF CauseInv, ErrorHasCause, Answered
    <3> QED
      BY <3>1, <3>2
  <2>6. (Troubled => Blamed(now))' /\ (phase = "commit" /\ link # "up" => Blamed(now))'
    BY <1>4, <2>2, ThreadBlames DEF Fine, Blamed, Troubled
  <2> QED
    BY <2>5, <2>6 DEF CauseInv
<1> QED
  BY <1>1, <1>2, <1>3, <1>4 DEF Next

(* Nobody is answered an error for a connection lost before his message, or  *)
(* for anything another request met; only for a fault of his own or a Lua    *)
(* error.                                                                    *)
THEOREM ErrorsHaveCauses == Spec => []ErrorHasCause
<1>1. Init => CauseInv
  BY DEF Init, CauseInv, ErrorHasCause, Answered, Troubled
<1>2. CauseInv => ErrorHasCause
  BY DEF CauseInv
<1> QED
  BY <1>1, <1>2, CauseNext, Inv, PTL DEF Spec
-----------------------------------------------------------------------------
(* All or nothing.  As long as the server only refuses statements, and the   *)
(* request found nothing stale, its transaction is open in the session from  *)
(* its first statement on, the session holds back every statement it has     *)
(* executed, and none of them is stored; a statement that is refused twice   *)
(* ends the request.                                                         *)
Sound(r) == met[r] \subseteq {"refused", "joined"} /\ Careful(message[r]) /\ Ends(message[r])
Sending == {"query", "ping", "retry", "commit"}
Ongoing ==
  /\ open => ~autocommit
  /\ phase = "begin" => ~open
  /\ phase \in Sending /\ statement.op = "trans" => open
  /\ phase \in Sending \cup {"connect", "begin"} =>
        \A i \in Parts(message[now]) : i < step => <<now, i>> \in work
  /\ phase = "commit" /\ step \in Parts(message[now]) => row \in work
  /\ \A i \in Parts(message[now]) : <<now, i>> \notin stored
Outcome(r) ==
  /\ answer[r] = "ok" => Rows(r, Parts(message[r])) \subseteq stored
  /\ answer[r] = "error" => Rows(r, Parts(message[r])) \cap (stored \cup work) = {}
KindInv ==
  /\ phase \in {"commit", "abandon", "unwind"} => statement.op = "trans"
  /\ phase = "commit" => statement.commit
AtomInv ==
  /\ KindInv
  /\ Busy /\ Sound(now) => Ongoing
  /\ \A r \in Requests : Sound(r) => Outcome(r)

LEMMA KindNext == ControlInv /\ KindInv /\ [Next]_vars => KindInv'
<1> SUFFICES ASSUME ControlInv, KindInv, [Next]_vars PROVE KindInv'
  OBVIOUS
<1> DEFINE Late == {"commit", "abandon", "unwind"}
<1>1. CASE UNCHANGED vars \/ Drop
  BY <1>1 DEF vars, Drop, KindInv, statement
<1>2. ASSUME NEW k \in Messages, Take(k) PROVE KindInv'
  BY <1>2 DEF Take, FirstCall, KindInv
<1>3. ASSUME NEW result, Returns(result) PROVE phase' \notin Late
  BY <1>3 DEF Returns, GoTo, Answer, FirstCall
<1>4. \A p : GoTo(p) => phase' = p /\ statement' = statement
  BY DEF GoTo, statement
<1>5. Done => phase' \notin Late \/ (phase' = "commit" /\ KindInv')
  BY <1>3, <1>4 DEF Done, KindInv
<1>6. CASE Query
  BY <1>4, <1>5, <1>6 DEF Query, KindInv
<1>7. CASE Retry
  BY <1>3, <1>4, <1>5, <1>7 DEF Retry, KindInv
<1>8. CASE Commit
  BY <1>3, <1>4, <1>8 DEF Commit, KindInv
<1>9. CASE Connect \/ RollBack \/ ScriptError
  BY <1>9 DEF Connect, RollBack, ScriptError, GoTo, Answer, FirstCall, KindInv
<1>10. CASE Begin
  <2>1. GoTo("query") \/ Returns("negative")
    BY <1>10 DEF Begin
  <2> QED
    BY <1>3, <1>4, <2>1 DEF KindInv
<1>11. CASE Ping
  <2>1. Returns(Failure) => phase' \notin Late
    BY DEF Returns, GoTo, Answer, FirstCall
  <2> QED
    BY <1>4, <1>11, <2>1 DEF Ping, KindInv
<1>12. CASE Restore
  BY <1>3, <1>12 DEF Restore, KindInv
<1> QED
  BY <1>1, <1>2, <1>6, <1>7, <1>8, <1>9, <1>10, <1>11, <1>12 DEF Next, Thread

(* A statement that passed and is not the last goes on to the next one.      *)
LEMMA PassGoesOn ==
  ASSUME ControlInv, Busy, NEW result, Returns(result), Passes(result),
         Ends(message[now]), ~(statement.op = "trans" /\ statement.commit)
  PROVE  /\ step' = step + 1 /\ UNCHANGED <<now, message, answer>>
         /\ phase' = FirstCall(statement', open') /\ phase' # "idle"
<1>1. step # Len(Script[message[now]])
  BY DEF Ends, ControlInv, statement
<1>2. /\ step' = step + 1 /\ UNCHANGED <<now, message, answer>>
      /\ phase' = FirstCall(Script[message[now]][step + 1], open')
  BY <1>1 DEF Returns
<1> QED
  BY <1>2, FirstCallIs DEF statement

LEMMA Advanced ==
  ASSUME ControlInv, Busy, Ongoing, NEW result, Returns(result), Passes(result),
         Ends(message[now]), ~(statement.op = "trans" /\ statement.commit),
         phase \in Sending, open' => ~autocommit', work \subseteq work',
         statement.op = "trans" /\ statement.writes => row \in work',
         \A i \in Parts(message[now]) : <<now, i>> \notin stored'
  PROVE  Busy' /\ Ongoing'
<1>1. /\ step' = step + 1 /\ UNCHANGED <<now, message>> /\ Busy'
      /\ phase' = FirstCall(statement', open')
  BY PassGoesOn DEF Busy
<1>2. phase' \in Sending /\ statement'.op = "trans" => open'
  BY <1>1 DEF FirstCall, Sending
<1>3. phase' # "commit" /\ (phase' = "begin" => ~open')
  BY <1>1 DEF FirstCall
<1>4. ASSUME NEW i \in Parts(message[now]), i < step + 1 PROVE <<now, i>> \in work'
  <2>1. i \in Nat /\ step \in Nat
    BY BusyNow DEF Parts, Written
  <2>2. CASE i < step
    BY <2>2 DEF Ongoing
  <2>3. CASE i = step
    BY <2>3 DEF Parts, Written, statement, row
  <2> QED
    BY <1>4, <2>1, <2>2, <2>3
<1> QED
  BY <1>1, <1>2, <1>3, <1>4 DEF Ongoing

(* One that failed ends the request, at once or after a rollback.            *)
LEMMA FailsOut ==
  ASSUME ControlInv, Busy, Ongoing, NEW result, Returns(result), ~Passes(result),
         open' => ~autocommit', stored' = stored
  PROVE  /\ Busy' => Ongoing'
         /\ ~Busy' => answer'[now] = "error"
<1>1. CASE GoTo("rollback")
  BY <1>1 DEF GoTo, Ongoing, Busy, Sending
<1>2. CASE Answer("error")
  BY <1>2, BusyNow DEF Answer, Busy, ControlInv
<1> QED
  BY <1>1, <1>2 DEF Returns

(* A step of the thread, while the request has met nothing but refusals.     *)
LEMMA AtomThread ==
  ASSUME ControlInv, ServerInv, SessionAgrees, KindInv, Ongoing, Thread,
         met'[now] \subseteq {"refused", "joined"},
         Careful(message[now]), Ends(message[now])
  PROVE  /\ Busy' => Ongoing'
         /\ answer'[now] = "ok" => Rows(now, Parts(message[now])) \subseteq stored'
         /\ answer'[now] = "error" => Rows(now, Parts(message[now])) \cap stored' = {}
<1> DEFINE k == message[now]
           I == Parts(k)
           Good == /\ Busy' => Ongoing'
                   /\ answer'[now] = "ok" => Rows(now, I) \subseteq stored'
                   /\ answer'[now] = "error" => Rows(now, I) \cap stored' = {}
<1> SUFFICES Good
  OBVIOUS
<1>1. Busy /\ answer[now] = "none" /\ now \in Requests /\ statement \in Statements
  BY ThreadMoves, BusyNow, StatementIs DEF ControlInv
<1>2. \A f \in Faults \ {"refused"} : ~Fault(f)
  <2> SUFFICES ASSUME NEW f \in Faults \ {"refused"}, Fault(f) PROVE FALSE
    OBVIOUS
  <2>1. met' = [met EXCEPT ![now] = met[now] \cup {f}]
    BY DEF Fault
  <2>2. f \in met'[now]
    BY <1>1, <2>1 DEF ServerInv
  <2> QED
    BY <2>2 DEF Faults
<1>3. ~Fault("lost") /\ ~Fault("victim") /\ ~Fault("unreachable")
  BY <1>2 DEF Faults
<1>4. statement.op # "raise" /\ (statement.op = "trans" => statement.test = "zero")
  BY <1>1 DEF Ends, Careful, statement, ControlInv
<1>5. open => link = "up"
  BY DEF Ongoing, ServerInv
<1>6. open => ~autocommit
  BY DEF Ongoing
<1>7. \A i \in I : <<now, i>> \notin stored
  BY DEF Ongoing
<1>8. ASSUME NEW result, Returns(result), ~Passes(result), open' => ~autocommit', stored' = stored
      PROVE  Good
  <2>1. (Busy' => Ongoing') /\ (~Busy' => answer'[now] = "error")
    BY <1>1, <1>8, FailsOut
  <2>2. answer'[now] # "ok"
    BY <1>1, <1>8 DEF Returns, GoTo, Answer, ControlInv
  <2> QED
    BY <1>7, <1>8, <2>1, <2>2 DEF Rows
<1>9. ASSUME NEW result, Returns(result), Passes(result),
             ~(statement.op = "trans" /\ statement.commit), phase \in Sending,
             open' => ~autocommit', work \subseteq work',
             statement.op = "trans" /\ statement.writes => row \in work',
             \A i \in I : <<now, i>> \notin stored'
      PROVE  Good
  <2>1. Ongoing'
    BY <1>1, <1>9, Advanced
  <2>2. answer' = answer
    BY <1>1, <1>9, PassGoesOn
  <2> QED
    BY <1>1, <2>1, <2>2
<1>10. ASSUME NEW p, p # "idle", GoTo(p), stored' = stored, Ongoing' PROVE Good
  BY <1>1, <1>10 DEF GoTo
<1>11. ASSUME Executed, Done, phase \in {"query", "retry"}, open' = open PROVE Good
  <2>1. statement.op = "trans" => ~autocommit
    BY <1>6, <1>11 DEF Ongoing, Sending
  <2>2. /\ work \subseteq work' /\ autocommit' = autocommit
        /\ statement.op = "trans" /\ statement.writes => row \in work'
    BY <2>1, <1>11 DEF Executed, Session, row
  <2>3. ASSUME NEW i \in I PROVE <<now, i>> \notin stored'
    <3>1. CASE autocommit
      <4>1. i # step
        BY <2>1, <3>1 DEF Parts, statement
      <4> QED
        BY <1>7, <1>11, <3>1, <4>1 DEF Executed, Store
    <3>2. CASE ~autocommit
      BY <1>7, <1>11, <3>2 DEF Executed, StoresNone
    <3> QED
      BY <3>1, <3>2
  <2>4. CASE statement.op = "trans" /\ statement.commit
    <3>1. GoTo("commit")
      BY <1>11, <2>4 DEF Done
    <3>2. statement' = statement
      BY <3>1 DEF GoTo, statement
    <3>3. step \in I => row \in work'
      BY <2>2, <2>4 DEF Parts, Written, statement
    <3>4. \A i \in I : i < step => <<now, i>> \in work'
      BY <1>11, <2>2 DEF Ongoing, Sending
    <3>5. open
      BY <1>11, <2>4 DEF Ongoing, Sending
    <3>6. Ongoing'
      BY <1>6, <1>11, <2>2, <2>3, <3>1, <3>2, <3>3, <3>4, <3>5 DEF GoTo, Ongoing, Sending, row
    <3> QED
      BY <1>1, <3>1, <3>6 DEF GoTo
  <2>5. CASE ~(statement.op = "trans" /\ statement.commit)
    <3>1. Returns("good")
      BY <1>11, <2>5 DEF Done
    <3>2. Passes("good")
      BY DEF Passes
    <3> QED
      BY <1>6, <1>9, <1>11, <2>2, <2>3, <2>5, <3>1, <3>2 DEF Sending
  <2> QED
    BY <2>4, <2>5
<1>12. NotExecuted => UNCHANGED <<autocommit, work, stored>>
  BY <1>3 DEF NotExecuted, Session, StoresNone
<1>13. CASE Connect
  <2>1. GoTo(FirstCall(statement, open)) /\ UNCHANGED <<open, autocommit, work, stored>>
    BY <1>3, <1>13 DEF Connect, StoresNone
  <2>2. phase' = FirstCall(statement, open) /\ statement' = statement
    BY <2>1 DEF GoTo, statement
  <2>3. /\ phase' # "commit" /\ (phase' = "begin" => ~open)
        /\ phase' \in Sending /\ statement.op = "trans" => open
    BY <2>2 DEF FirstCall, Sending
  <2>4. \A i \in I : i < step => <<now, i>> \in work
    BY <1>13 DEF Connect, Ongoing
  <2>5. Ongoing'
    BY <1>6, <1>7, <2>1, <2>2, <2>3, <2>4 DEF Ongoing, GoTo
  <2> QED
    BY <1>1, <2>1, <2>5 DEF GoTo
<1>14. CASE Begin
  <2>1. GoTo("query") /\ open' /\ ~autocommit' /\ stored' = stored /\ work' = {}
    BY <1>3, <1>14 DEF Begin, Session, StoresNone
  <2>2. ~open /\ work = {}
    BY <1>14 DEF Begin, Ongoing, SessionAgrees
  <2>3. \A i \in I : ~(i < step)
    BY <1>14, <2>2 DEF Begin, Ongoing
  <2>4. Ongoing'
    BY <1>7, <2>1, <2>3 DEF GoTo, Ongoing, Sending
  <2> QED
    BY <1>10, <2>1, <2>4
<1>15. CASE Query
  <2>1. CASE Executed /\ Done
    BY <1>11, <1>15, <2>1 DEF Query
  <2>2. CASE NotExecuted /\ GoTo("ping")
    <3>1. UNCHANGED <<open, autocommit, work, stored>>
      BY <1>12, <1>15, <2>2 DEF Query
    <3>2. Ongoing'
      BY <1>15, <2>2, <3>1 DEF Query, GoTo, Ongoing, Sending, statement
    <3> QED
      BY <1>10, <2>2, <3>1, <3>2
  <2> QED
    BY <1>3, <1>15, <2>1, <2>2 DEF Query
<1>16. ASSUME phase \in Sending, Refusal, open' = open PROVE statement.op = "plain" /\ work = {} /\ ~open
  <2>1. ~open
    BY <1>5, <1>16 DEF Refusal
  <2> QED
    BY <1>1, <1>4, <1>16, <2>1 DEF Ongoing, SessionAgrees, Statements
(* A plain statement that failed, in a session that holds nothing back or    *)
(* still does.                                                               *)
<1>17. ASSUME phase \in Sending, statement.op = "plain", Returns("positive"),
              UNCHANGED <<open, stored>>, open => ~autocommit', work \subseteq work'
       PROVE  Good
  <2>1. CASE Passes("positive")
    BY <1>7, <1>9, <1>17, <2>1
  <2>2. CASE ~Passes("positive")
    BY <1>8, <1>17, <2>2
  <2> QED
    BY <2>1, <2>2
<1>18. CASE Ping
  <2>1. CASE Session(autocommit, work) /\ GoTo("retry")
    <3>1. UNCHANGED <<open, autocommit, work, stored>>
      BY <1>18, <2>1 DEF Ping, Session, StoresNone
    <3>2. Ongoing'
      BY <1>18, <2>1, <3>1 DEF Ping, GoTo, Ongoing, Sending, statement
    <3> QED
      BY <1>10, <2>1, <3>1, <3>2
  <2>2. CASE Refusal /\ Returns(Failure)
    <3>1. statement.op = "plain" /\ work = {} /\ ~open
      BY <1>16, <1>18, <2>2 DEF Ping, Sending
    <3>2. Returns("positive")
      BY <2>2, <3>1 DEF Failure
    <3> QED
      BY <1>17, <1>18, <3>1, <3>2 DEF Ping, Sending, StoresNone
  <2> QED
    BY <1>3, <1>18, <2>1, <2>2 DEF Ping
<1>20. CASE Retry
  <2>1. CASE Executed /\ Done
    BY <1>11, <1>20, <2>1 DEF Retry
  <2>2. CASE Refusal
    <3>1. statement.op = "plain" /\ work = {} /\ ~open
      BY <1>16, <1>20, <2>2 DEF Retry, Sending
    <3>2. Returns("positive")
      BY <1>20, <2>2, <3>1 DEF Retry, Refusal
    <3> QED
      BY <1>17, <1>20, <2>2, <3>1, <3>2 DEF Retry, Sending, Refusal, StoresNone
  <2>3. CASE NotExecuted /\ statement.op = "trans" /\ GoTo("abandon")
    <3>1. UNCHANGED <<open, autocommit, work, stored>>
      BY <1>12, <1>20, <2>3 DEF Retry
    <3>2. Ongoing'
      BY <2>3, <3>1 DEF GoTo, Ongoing, Sending
    <3> QED
      BY <1>10, <2>3, <3>1, <3>2
  <2>4. CASE NotExecuted /\ statement.op = "plain" /\ Returns("positive")
    BY <1>6, <1>12, <1>17, <1>20, <2>4 DEF Retry, Sending
  <2> QED
    BY <1>1, <1>4, <1>20, <2>1, <2>2, <2>3, <2>4 DEF Retry, Statements
<1>21. CASE Commit
  <2>1. statement.op = "trans" /\ statement.commit /\ open /\ link = "up"
    BY <1>5, <1>21 DEF Commit, KindInv, Ongoing, Sending
  <2>2. step = Len(Script[k])
    BY <1>1, <2>1 DEF Ends, ControlInv, statement
  <2>3. CASE Store(work) /\ Returns("good")
    <3>1. Answer("ok")
      BY <2>2, <2>3 DEF Returns, Passes
    <3>2. \A i \in I : i \in Nat /\ (i < step \/ i = step)
      BY <1>1, <2>2, BusyNow DEF Parts, Written
    <3>3. \A i \in I : <<now, i>> \in work
      BY <1>21, <3>2 DEF Commit, Ongoing, Sending, row
    <3>4. Rows(now, I) \subseteq stored'
      BY <2>3, <3>3 DEF Rows, Store
    <3>5. ~Busy' /\ answer'[now] = "ok"
      BY <1>1, <3>1 DEF Answer, Busy, ControlInv
    <3> QED
      BY <3>4, <3>5
  <2>4. CASE Session(autocommit, work) /\ StoresNone /\ GoTo("unwind")
    <3>1. UNCHANGED <<open, autocommit, work, stored>>
      BY <1>6, <1>21, <2>1, <2>4 DEF Commit, Session, StoresNone
    <3>2. Ongoing'
      BY <2>4, <3>1 DEF GoTo, Ongoing, Sending
    <3> QED
      BY <1>10, <2>4, <3>1, <3>2
  <2> QED
    BY <1>3, <1>21, <2>1, <2>3, <2>4 DEF Commit, Refusal
<1>22. CASE Restore
  <2>1. statement.op = "trans" /\ ~open' /\ stored' = stored
    BY <1>22 DEF Restore, KindInv, StoresNone
  <2>2. ~Passes("positive") /\ ~Passes("negative")
    BY <1>4, <2>1 DEF Passes
  <2>3. CASE phase = "abandon"
    BY <1>8, <1>22, <2>1, <2>2, <2>3 DEF Restore
  <2>4. CASE phase # "abandon"
    BY <1>8, <1>22, <2>1, <2>2, <2>4 DEF Restore
  <2> QED
    BY <2>3, <2>4
<1>23. CASE RollBack
  <2>1. Answer("error") /\ stored' = stored
    BY <1>23 DEF RollBack, StoresNone
  <2>2. ~Busy' /\ answer'[now] = "error"
    BY <1>1, <2>1 DEF Answer, Busy, ControlInv
  <2> QED
    BY <1>7, <2>1, <2>2 DEF Rows
<1>19. CASE ScriptError
  BY <1>4, <1>19 DEF ScriptError, ControlInv
<1> QED
  BY <1>13, <1>14, <1>15, <1>18, <1>19, <1>20, <1>21, <1>22, <1>23 DEF Thread

LEMMA AtomNext ==
  ControlInv /\ ServerInv /\ SessionAgrees /\ LeftInv /\ AtomInv /\ [Next]_vars => AtomInv'
<1> SUFFICES ASSUME ControlInv, ServerInv, SessionAgrees, LeftInv, AtomInv, [Next]_vars
             PROVE  AtomInv'
  OBVIOUS
<1>1. KindInv'
  BY KindNext DEF AtomInv
<1>2. CASE UNCHANGED vars
  BY <1>1, <1>2 DEF vars, server, AtomInv, Busy, Sound, Ongoing, Outcome, statement, row
<1>3. ASSUME NEW k \in Messages, Take(k) PROVE AtomInv'
  <2>1. /\ now \in Nat /\ now + 1 \in Requests /\ now' = now + 1 /\ step' = 1
        /\ UNCHANGED <<server, open, answer>>
    BY <1>3, BoundAssumption DEF Take, ControlInv, Requests
  <2>2. ASSUME NEW r \in Requests, r # now + 1
        PROVE  message'[r] = message[r] /\ met'[r] = met[r]
    BY <1>3, <2>2 DEF Take, ControlInv, ServerInv
  <2>3. answer[now + 1] = "none"
    BY <2>1, BoundAssumption DEF ControlInv, Requests
  <2>4. ASSUME NEW r \in Requests, Sound(r)' PROVE Outcome(r)'
    <3>1. CASE r = now + 1
      BY <2>1, <2>3, <3>1 DEF Outcome
    <3>2. CASE r # now + 1
      BY <2>1, <2>2, <2>4, <3>2 DEF AtomInv, Outcome, Sound, server
    <3> QED
      BY <3>1, <3>2
  <2>5. ASSUME Sound(now)' PROVE Ongoing'
    <3>1. met'[now'] = IF ~open THEN {} ELSE IF autocommit THEN {"stale"} ELSE {"joined"}
      BY <1>3, <2>1 DEF Take, ServerInv
    <3>2. open => ~autocommit
      BY <2>5, <3>1 DEF Sound
    <3>3. message'[now'] = k /\ statement' = Script[k][1]
      BY <1>3, <2>1 DEF Take, ControlInv, statement
    <3>4. phase' = "connect" \/ phase' = FirstCall(Script[k][1], open)
      BY <1>3 DEF Take
    <3>5. \A i \in Nat : <<now', i>> \notin stored'
      BY <2>1 DEF ServerInv, server
    <3>6. \A i \in Parts(k) : i \in Nat /\ ~(i < 1)
      BY ScriptAssumption DEF Parts, Written
    <3>7. UNCHANGED <<open, autocommit, work>>
      BY <2>1 DEF server
    <3> QED
      BY <2>1, <3>2, <3>3, <3>4, <3>5, <3>6, <3>7 DEF Ongoing, FirstCall, Sending
  <2> QED
    BY <1>1, <2>4, <2>5 DEF AtomInv
<1>4. CASE Drop
  <2>1. /\ UNCHANGED <<open, phase, now, message, step, answer, stored>> /\ work' = {}
    BY <1>4 DEF Drop, NoSession, StoresNone
  <2>2. ~Busy => met' = met
    BY <1>4 DEF Drop, Busy
  <2>3. Busy => Fault("lost")
    BY <1>4 DEF Drop, Busy
  <2>4. ASSUME Busy PROVE /\ ~Sound(now)'
                         /\ \A r \in Requests : met[r] \subseteq met'[r]
    <3>1. now \in Requests /\ "lost" \in Faults /\ Blames
      BY <2>3, <2>4, BusyNow DEF Blames, Faults
    <3>2. met' = [met EXCEPT ![now] = met[now] \cup {"lost"}]
      BY <2>3, <2>4 DEF Fault
    <3>3. "lost" \in met'[now]
      BY <3>1, <3>2 DEF ServerInv
    <3> QED
      BY <2>1, <3>1, <3>3, BlamesAdds DEF Sound
  <2>5. ASSUME NEW r \in Requests, Sound(r)' PROVE Sound(r)
    BY <2>1, <2>2, <2>4, <2>5 DEF Sound
  <2>6. ASSUME NEW r \in Requests, Outcome(r) PROVE Outcome(r)'
    BY <2>1, <2>6 DEF Outcome
  <2>7. ~(Busy' /\ Sound(now)')
    BY <2>1, <2>4 DEF Busy
  <2> QED
    BY <1>1, <2>5, <2>6, <2>7 DEF AtomInv
<1>5. CASE Thread
  <2>1. Lives /\ Keeps /\ Blames /\ Moves /\ Busy
    BY <1>5, ThreadServes, ThreadMoves
  <2>2. now' = now /\ message' = message /\ now \in Requests
    BY <2>1, NowStays, BusyNow
  <2>3. \A r \in Requests : met[r] \subseteq met'[r]
    BY <2>1, <2>2, BlamesAdds
  <2>4. ASSUME NEW r \in Requests, Sound(r)' PROVE Sound(r)
    BY <2>2, <2>3, <2>4 DEF Sound
  <2>5. ASSUME NEW r \in Requests, r # now, Outcome(r) PROVE Outcome(r)'
    <3>1. answer'[r] = answer[r]
      BY <2>1, <2>5 DEF Moves, GoTo, Answer, ControlInv
    <3>2. Rows(r, Parts(message[r])) \cap {row} = {}
      BY <2>5 DEF Rows, row
    <3>3. work' \subseteq work \cup {row}
      BY <2>1 DEF Lives
    <3> QED
      BY <2>1, <2>2, <2>5, <3>1, <3>2, <3>3 DEF Outcome, Keeps
  <2>6. ASSUME Sound(now)' PROVE (Busy' => Ongoing') /\ Outcome(now)'
    <3>1. Sound(now)
      BY <2>2, <2>4, <2>6
    <3>2. met'[now] \subseteq {"refused", "joined"} /\ Careful(message[now]) /\ Ends(message[now])
      BY <2>2, <2>6 DEF Sound
    <3>3. Ongoing /\ KindInv
      BY <2>1, <3>1 DEF AtomInv
    <3>4. ~Raises(message[now])
      BY <3>2 DEF Ends, Raises
    <3> QED
      BY <1>5, <2>2, <3>2, <3>3, <3>4, AtomThread, ErrorClears DEF Outcome
  <2> QED
    BY <1>1, <2>2, <2>4, <2>5, <2>6 DEF AtomInv
<1> QED
  BY <1>2, <1>3, <1>4, <1>5 DEF Next

(* A handler that tests for zero and commits with its last statement is      *)
(* answered truthfully when the server refuses any of its statements, its    *)
(* commit included, whatever earlier requests left open.                     *)
THEOREM CarefulAtomic == Spec => []CarefulWhole
<1>1. Init => AtomInv /\ LeftInv
  BY DEF Init, AtomInv, KindInv, Busy, Outcome, LeftInv, Left
<1>2. AtomInv => CarefulWhole
  BY DEF AtomInv, Sound, Outcome, CarefulWhole, Answered
<1> QED
  BY <1>1, <1>2, AtomNext, LeftNext, FlagAgrees, Inv, PTL DEF Spec
-----------------------------------------------------------------------------
(* Executed twice.  A statement under way has not been executed in its       *)
(* session, and is stored only if the reply to its first attempt was lost;   *)
(* those to come are neither.  Within a transaction that found nothing left  *)
(* over, a statement commits by itself only after the session was lost, so   *)
(* that it takes another loss to store it unnoticed.                         *)
Clean(r) == met[r] \cap Leftovers = {}
Told(w) ==
  /\ "lost" \in met[w[1]]
  /\ w[2] \in Parts(message[w[1]]) /\ Clean(w[1]) => faults >= 2
Unsent == {"connect", "begin", "query", "raise"}
RepeatInv ==
  /\ autocommit => work = {}
  /\ Busy => \A j \in Nat : j > step => <<now, j>> \notin stored \cup work
  /\ phase \in Unsent => row \notin stored \cup work
  /\ phase \in {"ping", "retry"} => row \notin work /\ (row \in stored => Told(row))
  /\ phase \in {"query", "ping", "retry"} /\ statement.op = "trans" => open
  /\ Busy /\ open /\ autocommit /\ Clean(now) => faults >= 1
  /\ \A w \in again \cup (work \cap stored) : Told(w)

(* What is known of a statement stays so.                                    *)
LEMMA BlameTold ==
  ASSUME ControlInv, ServerInv, Busy, Blames, now' = now, message' = message,
         NEW w, w[1] \in Requests, Told(w)
  PROVE  Told(w)'
<1>1. now \in Requests
  BY BusyNow
<1>2. met[w[1]] \subseteq met'[w[1]]
  BY <1>1, BlamesAdds
<1>3. faults \in Nat /\ faults' \in Nat /\ faults' >= faults
  <2>1. CASE Calm
    BY <2>1 DEF Calm, ServerInv
  <2>2. ASSUME NEW f \in Faults, Fault(f) PROVE faults \in Nat /\ faults' \in Nat /\ faults' >= faults
    BY <2>2 DEF Fault, ServerInv
  <2> QED
    BY <2>1, <2>2 DEF Blames
<1>4. Clean(w[1])' => Clean(w[1])
  BY <1>2 DEF Clean
<1> QED
  BY <1>2, <1>3, <1>4 DEF Told

LEMMA TakeTold ==
  ASSUME ControlInv, ServerInv, NEW k \in Messages, Take(k),
         NEW w, w[1] \in 1..now, Told(w)
  PROVE  Told(w)'
<1>1. w[1] # now + 1 /\ w[1] \in Requests
  BY BoundAssumption DEF ControlInv, Requests
<1>2. met'[w[1]] = met[w[1]] /\ message'[w[1]] = message[w[1]] /\ faults' = faults
  BY <1>1 DEF Take, ControlInv, ServerInv
<1> QED
  BY <1>2 DEF Told, Clean

LEMMA AgainIn ==
  ASSUME ServerInv, now \in 0..MaxRequests, NEW w \in again \cup (work \cap stored)
  PROVE  w[1] \in 1..now /\ w[1] \in Requests
<1>1. w \in (1..now) \X Nat
  BY DEF ServerInv
<1> QED
  BY <1>1, BoundAssumption DEF Requests

(* A loss counts.                                                            *)
LEMMA LossTold ==
  ASSUME ControlInv, ServerInv, RepeatInv, phase \in {"query", "retry"}, autocommit,
         Fault("lost"), now' = now, message' = message
  PROVE  \A w \in {row} : Told(w)'
<1> SUFFICES ASSUME NEW w, w = row PROVE Told(w)'
  OBVIOUS
<1>1. now \in Requests /\ Busy /\ step \in Nat /\ w[1] = now /\ w[2] = step
  BY BusyNow DEF Busy, row
<1>2. met' = [met EXCEPT ![now] = met[now] \cup {"lost"}] /\ faults' = faults + 1
  BY DEF Fault
<1>3. met'[now] = met[now] \cup {"lost"}
  BY <1>1, <1>2 DEF ServerInv
<1>4. ASSUME step \in Parts(message[now]), Clean(now)' PROVE faults' >= 2
  <2>1. statement.op = "trans"
    BY <1>4 DEF Parts, statement
  <2>2. met[now] \cap Leftovers = {}
    BY <1>3, <1>4 DEF Clean
  <2>3. faults >= 1 /\ faults \in Nat
    BY <1>1, <2>1, <2>2 DEF RepeatInv, ServerInv, Clean
  <2> QED
    BY <1>2, <2>3
<1>5. Parts(message[now])' = Parts(message[now])
  BY DEF Parts, Written
<1> QED
  BY <1>1, <1>3, <1>4, <1>5 DEF Told, Clean

(* One attempt.                                                              *)
LEMMA AttemptTold ==
  ASSUME ControlInv, ServerInv, RepeatInv, phase \in {"query", "retry"},
         Executed \/ NotExecuted, now' = now, message' = message
  PROVE  /\ \A w \in again' \cup (work' \cap stored') : Told(w)'
         /\ autocommit' => work' = {}
         /\ NotExecuted => \A w \in {row} : w \notin work' /\ (w \in stored' => Told(w)')
<1>1. Busy /\ Blames
  BY LibraryServes DEF Busy
<1>2. now \in Requests
  BY <1>1, BusyNow
<1>3. \A w \in again \cup (work \cap stored) : Told(w)'
  <2> SUFFICES ASSUME NEW w \in again \cup (work \cap stored) PROVE Told(w)'
    OBVIOUS
  <2>1. w[1] \in Requests
    BY AgainIn DEF ControlInv
  <2> QED
    BY <1>1, <2>1, BlameTold DEF RepeatInv
<1>4. \A w \in {row} : w \notin work /\ (w \in stored => Told(w)')
  <2> SUFFICES ASSUME NEW w, w = row PROVE w \notin work /\ (w \in stored => Told(w)')
    OBVIOUS
  <2>1. row \notin work /\ (row \in stored => Told(row))
    BY DEF RepeatInv, Unsent
  <2>2. w[1] \in Requests
    BY <1>2 DEF row
  <2> QED
    BY <1>1, <2>1, <2>2, BlameTold
<1>5. autocommit => work = {}
  BY DEF RepeatInv
<1>6. ASSUME Executed
      PROVE  /\ \A w \in again' \cup (work' \cap stored') : Told(w)'
             /\ autocommit' => work' = {}
  <2>1. CASE autocommit
    <3>1. work' = {} /\ stored' \subseteq stored \cup {row} /\ again' \subseteq again \cup (stored \cap {row})
      BY <1>5, <1>6, <2>1 DEF Executed, Session, Store, row
    <3> QED
      BY <1>3, <1>4, <1>6, <2>1, <3>1 DEF Executed, Session
  <2>2. CASE ~autocommit
    <3>1. work' \subseteq work \cup {row} /\ UNCHANGED <<stored, again, autocommit>>
      BY <1>6, <2>2 DEF Executed, Session, StoresNone, row
    <3> QED
      BY <1>3, <1>4, <1>6, <2>2, <3>1 DEF Executed
  <2> QED
    BY <2>1, <2>2
<1>7. CASE NotExecuted
  <2>1. autocommit' => work' = {}
    BY <1>5, <1>7 DEF NotExecuted, Session, NoSession
  <2>2. CASE UNCHANGED <<stored, again>> /\ work' \subseteq work
    BY <1>3, <1>4, <2>1, <2>2
  <2>3. CASE autocommit /\ Fault("lost") /\ work' = {} /\ Store({row})
    <3>1. \A w \in {row} : Told(w)'
      BY <2>3, LossTold
    <3> QED
      BY <1>3, <2>3, <3>1 DEF Store
  <2> QED
    BY <1>7, <2>1, <2>2, <2>3 DEF NotExecuted, Session, NoSession, StoresNone, row
<1> QED
  BY <1>6, <1>7

(* Where a result leads: out of the request, or to the next statement.       *)
Onward ==
  \/ phase' \in {"idle", "rollback"}
  \/ /\ step' = step + 1 /\ UNCHANGED <<now, message>>
     /\ phase' = FirstCall(statement', open')
LEMMA ReturnsOnward == ASSUME NEW result, Returns(result) PROVE Onward
<1>1. CASE step' = step + 1 /\ UNCHANGED <<now, message, answer>>
           /\ phase' = FirstCall(Script[message[now]][step + 1], open')
  BY <1>1 DEF Onward, statement
<1> QED
  BY <1>1 DEF Returns, GoTo, Answer, Onward

LEMMA DoneOnward == Done => Onward \/ (GoTo("commit") /\ phase' = "commit")
BY ReturnsOnward DEF Done, GoTo

(* What the connection holds, after any step of the thread.                  *)
LEMMA ThreadTold ==
  ASSUME ControlInv, ServerInv, RepeatInv, Thread
  PROVE  /\ \A w \in again' \cup (work' \cap stored') : Told(w)'
         /\ autocommit' => work' = {}
<1>1. Busy /\ Blames /\ now' = now /\ message' = message
  BY ThreadServes, ThreadMoves, NowStays
<1>2. \A w \in again \cup (work \cap stored) : Told(w)'
  <2> SUFFICES ASSUME NEW w \in again \cup (work \cap stored) PROVE Told(w)'
    OBVIOUS
  <2>1. w[1] \in Requests
    BY AgainIn DEF ControlInv
  <2> QED
    BY <1>1, <2>1, BlameTold DEF RepeatInv
<1>3. autocommit => work = {}
  BY DEF RepeatInv
<1>4. ASSUME UNCHANGED <<stored, again>>, work' \subseteq work, autocommit' => autocommit \/ work' = {}
      PROVE  /\ \A w \in again' \cup (work' \cap stored') : Told(w)'
             /\ autocommit' => work' = {}
  BY <1>2, <1>3, <1>4
<1>5. CASE Connect \/ Begin \/ ScriptError \/ Restore
  BY <1>4, <1>5 DEF Connect, Begin, ScriptError, Restore, Session, NoSession, StoresNone, server
<1>6. CASE Refusal /\ Thread
  BY <1>4, <1>6 DEF Refusal, NoSession, StoresNone
<1>7. CASE (Ping \/ RollBack) /\ ~Refusal
  BY <1>4, <1>7 DEF Ping, RollBack, Session, NoSession, StoresNone
<1>8. CASE Query
  <2>1. CASE Executed \/ NotExecuted
    BY <1>1, <1>8, <2>1, AttemptTold DEF Query
  <2>2. CASE NoSession({}) /\ StoresNone
    BY <1>4, <2>2 DEF NoSession, StoresNone
  <2> QED
    BY <1>8, <2>1, <2>2 DEF Query
<1>9. CASE Retry
  BY <1>1, <1>6, <1>9, AttemptTold DEF Retry
<1>10. CASE Commit /\ ~Refusal
  <2>1. CASE Store(work) /\ work' = {}
    BY <1>2, <2>1 DEF Store
  <2>2. CASE UNCHANGED <<stored, again>> /\ (work' = {} \/ (work' = work /\ autocommit' = autocommit))
    BY <1>4, <2>2
  <2> QED
    BY <1>10, <2>1, <2>2 DEF Commit, Session, NoSession, StoresNone
<1> QED
  BY <1>5, <1>6, <1>7, <1>8, <1>9, <1>10 DEF Thread

(* The statement under way, after any step of the thread.                    *)
LEMMA ThreadUnsent ==
  ASSUME ControlInv, ServerInv, RepeatInv, Thread
  PROVE  /\ Busy' => \A j \in Nat : j > step' => <<now', j>> \notin stored' \cup work'
         /\ phase' \in Unsent => row' \notin stored' \cup work'
<1>1. Busy /\ Lives /\ Keeps /\ Moves /\ now' = now /\ step \in Nat
  BY ThreadServes, ThreadMoves, NowStays, BusyNow
<1>2. \A j \in Nat : j > step => <<now, j>> \notin stored' \cup work'
  BY <1>1 DEF RepeatInv, Lives, Keeps, row
<1>3. step' \in {0, step, step + 1} /\ (Busy' => step' \in {step, step + 1})
  BY <1>1 DEF Moves, GoTo, Answer, Busy
<1>4. Busy' => \A j \in Nat : j > step' => <<now', j>> \notin stored' \cup work'
  BY <1>1, <1>2, <1>3
<1>5. ASSUME Onward, phase' \in Unsent PROVE row' \notin stored' \cup work'
  <2>1. step' = step + 1
    BY <1>5 DEF Onward, Unsent
  <2>2. <<now, step + 1>> \notin stored' \cup work'
    BY <1>1, <1>2
  <2> QED
    BY <1>1, <2>1, <2>2 DEF row
<1>6. ASSUME NEW p, GoTo(p), phase \in Unsent, stored' = stored, work' \subseteq work
      PROVE  row' \notin stored' \cup work'
  BY <1>6 DEF GoTo, RepeatInv, row
<1>7. ASSUME NEW p, GoTo(p), p \notin Unsent PROVE phase' \notin Unsent
  BY <1>7 DEF GoTo
<1>8. ASSUME NEW a, Answer(a) PROVE phase' \notin Unsent
  BY <1>8 DEF Answer, Unsent
<1>9. CASE Connect
  BY <1>4, <1>6, <1>8, <1>9 DEF Connect, StoresNone, Unsent
<1>10. CASE Begin
  BY <1>4, <1>5, <1>6, <1>10, ReturnsOnward DEF Begin, StoresNone, Session, Unsent
<1>11. CASE Query
  BY <1>4, <1>5, <1>7, <1>11, DoneOnward DEF Query, Unsent
<1>12. CASE Ping \/ Commit
  BY <1>4, <1>5, <1>7, <1>12, ReturnsOnward DEF Ping, Commit, Unsent
<1>13. CASE Retry
  BY <1>4, <1>5, <1>7, <1>13, DoneOnward, ReturnsOnward DEF Retry, Unsent
<1>14. CASE Restore
  BY <1>4, <1>5, <1>14, ReturnsOnward DEF Restore
<1>15. CASE RollBack \/ ScriptError
  BY <1>4, <1>8, <1>15 DEF RollBack, ScriptError
<1> QED
  BY <1>9, <1>10, <1>11, <1>12, <1>13, <1>14, <1>15 DEF Thread

LEMMA ThreadTried ==
  ASSUME ControlInv, ServerInv, RepeatInv, Thread
  PROVE  /\ phase' \in {"ping", "retry"} => row' \notin work' /\ (row' \in stored' => Told(row)')
         /\ phase' \in {"query", "ping", "retry"} /\ statement'.op = "trans" => open'
<1>1. Busy /\ Blames /\ now' = now /\ message' = message /\ now \in Requests
  BY ThreadServes, ThreadMoves, NowStays, BusyNow
<1>2. row[1] \in Requests
  BY <1>1 DEF row
<1> DEFINE Tried == row' \notin work' /\ (row' \in stored' => Told(row)')
           Opened == phase' \in {"query", "ping", "retry"} /\ statement'.op = "trans" => open'
           Good == (phase' \in {"ping", "retry"} => Tried) /\ Opened
<1> SUFFICES Good
  OBVIOUS
<1>3. Onward => Good
  BY DEF Onward, FirstCall
<1>4. ASSUME NEW a, Answer(a) PROVE Good
  BY <1>4 DEF Answer
<1>5. ASSUME NEW p, GoTo(p), p \notin {"query", "ping", "retry"} PROVE Good
  BY <1>5 DEF GoTo
<1>6. ASSUME NEW p, GoTo(p) PROVE phase' = p /\ row' = row /\ statement' = statement
  BY <1>6 DEF GoTo, row, statement
<1>7. CASE Connect
  <2>1. CASE GoTo(FirstCall(statement, open))
    BY <1>6, <1>7, <2>1 DEF Connect, FirstCall
  <2> QED
    BY <1>4, <1>7, <2>1 DEF Connect
<1>8. CASE Begin
  <2>1. CASE GoTo("query") /\ open'
    BY <1>6, <2>1
  <2> QED
    BY <1>3, <1>8, <2>1, ReturnsOnward DEF Begin
<1>9. CASE Query
  <2>1. ASSUME GoTo("ping"), \A w \in {row} : w \notin work' /\ (w \in stored' => Told(w)') PROVE Good
    <3>1. Tried
      BY <1>6, <2>1 DEF Told
    <3>2. Opened
      BY <1>6, <1>9, <2>1 DEF Query, RepeatInv
    <3> QED
      BY <3>1, <3>2
  <2>2. CASE NotExecuted /\ GoTo("ping")
    BY <1>1, <1>9, <2>1, <2>2, AttemptTold DEF Query
  <2>3. CASE NoSession({}) /\ StoresNone /\ GoTo("ping")
    <3>1. row \notin stored
      BY <1>9 DEF Query, RepeatInv, Unsent
    <3> QED
      BY <2>1, <2>3, <3>1 DEF NoSession, StoresNone
  <2> QED
    BY <1>3, <1>5, <1>9, <2>2, <2>3, DoneOnward DEF Query
<1>10. CASE Ping
  <2>1. CASE Session(autocommit, work) /\ GoTo("retry")
    <3>1. row \notin work /\ (row \in stored => Told(row))
      BY <1>10 DEF Ping, RepeatInv
    <3>2. \A w \in {row} : Told(w) => Told(w)'
      BY <1>1, <1>2, BlameTold
    <3>3. Tried
      BY <1>6, <1>10, <2>1, <3>1, <3>2 DEF Ping, Session, StoresNone, Told
    <3>4. Opened
      BY <1>6, <1>10, <2>1 DEF Ping, RepeatInv
    <3> QED
      BY <3>3, <3>4
  <2> QED
    BY <1>3, <1>10, <2>1, ReturnsOnward DEF Ping
<1>11. CASE Retry
  BY <1>3, <1>5, <1>11, DoneOnward, ReturnsOnward DEF Retry
<1>12. CASE Commit
  BY <1>3, <1>5, <1>12, ReturnsOnward DEF Commit
<1>13. CASE Restore
  BY <1>3, <1>13, ReturnsOnward DEF Restore
<1>14. CASE RollBack \/ ScriptError
  BY <1>4, <1>14 DEF RollBack, ScriptError
<1> QED
  BY <1>7, <1>8, <1>9, <1>10, <1>11, <1>12, <1>13, <1>14 DEF Thread

(* Without a fault no session is lost, and a transaction is open.            *)
LEMMA ThreadCounts ==
  ASSUME ControlInv, ServerInv, RepeatInv, Thread
  PROVE  open' /\ autocommit' /\ Clean(now)' => faults' >= 1
<1>1. Busy /\ Blames /\ now' = now /\ now \in Requests /\ faults \in Nat
  BY ThreadServes, ThreadMoves, NowStays, BusyNow DEF ServerInv
<1>2. faults' \in Nat /\ met[now] \subseteq met'[now]
  BY <1>1, BlamesAdds
<1>3. Clean(now)' => Clean(now)
  BY <1>1, <1>2 DEF Clean
<1>4. ASSUME open' => open, autocommit' => autocommit
      PROVE  open' /\ autocommit' /\ Clean(now)' => faults' >= 1
  <2>1. faults >= 1 => faults' >= 1
    BY <1>1 DEF Blames, Calm, Fault
  <2> QED
    BY <1>1, <1>3, <1>4, <2>1 DEF RepeatInv
<1>5. ASSUME NEW f \in {"lost", "victim", "unreachable"}, Fault(f) PROVE faults' >= 1
  BY <1>1, <1>5 DEF Fault
<1>6. CASE Refusal /\ open' = open
  BY <1>4, <1>6 DEF Refusal, ServerInv
<1>7. CASE Connect \/ ScriptError
  BY <1>4, <1>7 DEF Connect, ScriptError, server
<1>8. CASE Begin
  BY <1>5, <1>8 DEF Begin, Session
<1>9. ASSUME Executed \/ NotExecuted, open' = open
      PROVE  open' /\ autocommit' /\ Clean(now)' => faults' >= 1
  <2>1. CASE autocommit' = autocommit
    BY <1>4, <1>9, <2>1
  <2>2. CASE autocommit' # autocommit
    BY <1>5, <1>9, <2>2 DEF Executed, NotExecuted, Session
  <2> QED
    BY <2>1, <2>2
<1>10. CASE Query
  BY <1>5, <1>9, <1>10 DEF Query
<1>11. CASE Retry
  BY <1>6, <1>9, <1>11 DEF Retry
<1>12. CASE Ping \/ RollBack
  <2>1. CASE Session(autocommit, work) \/ Session(autocommit, {})
    BY <1>4, <1>12, <2>1 DEF Session, Ping, RollBack
  <2> QED
    BY <1>5, <1>6, <1>12, <2>1 DEF Ping, RollBack
<1>13. CASE Commit
  <2>1. CASE Session(autocommit, work) /\ open' = open
    BY <1>4, <2>1 DEF Session
  <2> QED
    BY <1>5, <1>6, <1>13, <2>1 DEF Commit
<1>14. CASE Restore
  BY <1>14 DEF Restore
<1> QED
  BY <1>7, <1>8, <1>10, <1>11, <1>12, <1>13, <1>14 DEF Thread

LEMMA RepeatNext == ControlInv /\ ServerInv /\ RepeatInv /\ [Next]_vars => RepeatInv'
<1> SUFFICES ASSUME ControlInv, ServerInv, RepeatInv, [Next]_vars PROVE RepeatInv'
  OBVIOUS
<1>1. CASE UNCHANGED vars
  BY <1>1 DEF vars, server, RepeatInv, Busy, row, statement, Told, Clean
<1>2. ASSUME NEW k \in Messages, Take(k) PROVE RepeatInv'
  <2>1. /\ now \in Nat /\ now' = now + 1 /\ now + 1 \in Requests
        /\ UNCHANGED <<autocommit, work, stored, again, open>>
    BY <1>2, BoundAssumption DEF Take, ControlInv, server, Requests
  <2>2. \A j : <<now', j>> \notin stored' \cup work'
    BY <2>1 DEF ServerInv
  <2>3. phase' \in {"connect", "begin", "query", "raise"}
    BY <1>2 DEF Take, FirstCall
  <2>4. phase' = "query" /\ statement'.op = "trans" => open'
    <3>1. message'[now'] = k /\ step' = 1
      BY <1>2, <2>1 DEF Take, ControlInv
    <3>2. statement' = Script[k][1]
      BY <3>1 DEF statement
    <3> QED
      BY <1>2, <2>1, <3>2 DEF Take, FirstCall
  <2>5. open' /\ autocommit' => ~Clean(now)'
    <3>1. open /\ autocommit => met'[now + 1] = {"stale"}
      BY <1>2, <2>1 DEF Take, ServerInv
    <3> QED
      BY <2>1, <3>1 DEF Clean, Leftovers
  <2>6. \A w \in again' \cup (work' \cap stored') : Told(w)'
    <3> SUFFICES ASSUME NEW w \in again \cup (work \cap stored) PROVE Told(w)'
      BY <2>1
    <3>1. w[1] \in 1..now
      BY AgainIn DEF ControlInv
    <3> QED
      BY <1>2, <3>1, TakeTold DEF RepeatInv
  <2> QED
    BY <2>1, <2>2, <2>3, <2>4, <2>5, <2>6 DEF RepeatInv, row
<1>3. CASE Drop
  <2>1. /\ UNCHANGED <<open, phase, now, message, step, stored, again>> /\ work' = {}
    BY <1>3 DEF Drop, NoSession, StoresNone
  <2>2. ASSUME NEW w, w[1] \in Requests, Told(w) PROVE Told(w)'
    <3>1. CASE Busy
      BY <1>3, <2>1, <2>2, <3>1, BlameTold DEF Drop, Busy, Blames, Faults
    <3>2. CASE ~Busy
      <4>1. met' = met /\ faults' = faults + 1 /\ faults \in Nat
        BY <1>3, <3>2 DEF Drop, Busy, ServerInv
      <4> QED
        BY <2>1, <2>2, <4>1 DEF Told, Clean
    <3> QED
      BY <3>1, <3>2
  <2>3. \A w \in again \cup (work \cap stored) : Told(w)'
    BY <2>2, AgainIn DEF RepeatInv, ControlInv
  <2>4. Busy => faults' >= 1
    BY <1>3 DEF Drop, Busy, Fault, ServerInv
  <2>5. ASSUME phase \in {"ping", "retry"} PROVE \A w \in {row} : w \in stored' => Told(w)'
    <3> SUFFICES ASSUME NEW w, w = row, w \in stored PROVE Told(w)'
      BY <2>1
    <3>1. Told(w)
      BY <2>5 DEF RepeatInv
    <3>2. w[1] \in Requests
      BY <2>5, BusyNow DEF Busy, row
    <3> QED
      BY <2>2, <3>1, <3>2
  <2>6. row' = row /\ statement' = statement
    BY <2>1 DEF row, statement
  <2>7. phase' \in {"ping", "retry"} => row' \notin work' /\ (row' \in stored' => Told(row)')
    BY <2>1, <2>5, <2>6 DEF Told
  <2> QED
    BY <2>1, <2>3, <2>4, <2>6, <2>7 DEF RepeatInv, Busy
<1>4. CASE Thread
  <2>1. Busy
    BY <1>4, ThreadMoves
  <2> QED
    BY <1>4, ThreadTold, ThreadUnsent, ThreadTried, ThreadCounts DEF RepeatInv
<1> QED
  BY <1>2, <1>1, <1>3, <1>4 DEF Next

(* The retry executes a statement a second time only after its first reply   *)
(* was lost, and one of a transaction that found nothing left over only      *)
(* after two losses.                                                         *)
THEOREM RepeatsNeedLoss == Spec => []OnlyLossRepeats
<1>1. Init => RepeatInv
  BY DEF Init, RepeatInv, Busy, Unsent
<1>2. RepeatInv => OnlyLossRepeats
  BY DEF RepeatInv, OnlyLossRepeats, Told, Clean
<1> QED
  BY <1>1, <1>2, RepeatNext, Inv, PTL DEF Spec
-----------------------------------------------------------------------------
(* What a success may lack.  The statements a running request has executed   *)
(* and lost are the first of its transaction: a session that ends, or ends a *)
(* deadlock, takes all it held back, and while it holds statements back none *)
(* of the transaction is stored.                                             *)
Ahead == {"connect", "begin", "query", "ping", "retry", "commit"}
Running == phase \in Ahead /\ now \notin abandoned /\ Ends(message[now])
Lacks(i) ==
  /\ i \in Written(message[now]) /\ <<now, i>> \notin stored \cup work
  /\ i < step \/ (phase = "commit" /\ i = step)
Op(i) == Script[message[now]][i].op
HeadNow ==
  /\ \A i \in Written(message[now]) : "joined" \notin met[now] =>
        (Lacks(i) \/ <<now, i>> \in work => i \in Parts(message[now]))
  /\ \A i \in Written(message[now]) : Lacks(i) =>
        /\ met[now] \cap {"lost", "victim"} # {}
        /\ \A j \in Parts(message[now]) : j < i => <<now, j>> \notin stored \cup work
        /\ i = step => link = "refusing"
  /\ \A i \in Written(message[now]), j \in Parts(message[now]) :
        <<now, i>> \in work /\ j < i => <<now, j>> \notin stored
  /\ ~autocommit => \A j \in Parts(message[now]) : <<now, j>> \notin stored
  /\ (\A i \in 1..step : Op(i) = "plain") /\ "joined" \notin met[now] => autocommit
  /\ ~open => \A i \in 1..(step - 1) : Op(i) # "trans"
  /\ phase = "begin" => ~open /\ statement.op = "trans"
Missing(r) == {i \in Written(message[r]) : <<r, i>> \notin stored}
HeadDone(r) ==
  answer[r] = "ok" /\ Ends(message[r]) /\ r \notin abandoned =>
    /\ \A i \in Written(message[r]) : <<r, i>> \notin work
    /\ Len(Script[message[r]]) \notin Missing(r)
    /\ "joined" \notin met[r] => Missing(r) \subseteq Parts(message[r])
    /\ Missing(r) # {} => met[r] \cap {"lost", "victim"} # {}
    /\ \A i \in Missing(r), j \in Parts(message[r]) : j < i => j \in Missing(r)
HeadInv == (Running => HeadNow) /\ \A r \in Requests : HeadDone(r)

(* What a call does to the session and to what is stored.                    *)
Kept ==
  \/ /\ autocommit' = autocommit /\ work \subseteq work' /\ work' \subseteq work \cup {row}
     /\ autocommit => work' = work
  \/ /\ work' = {} /\ (autocommit => autocommit')
     /\ work # {} => met'[now] \cap {"lost", "victim"} # {}
Adds ==
  /\ stored \subseteq stored' /\ stored' \subseteq stored \cup {row}
  /\ stored' # stored => autocommit

LEMMA LossHurts ==
  ASSUME ServerInv, now \in Requests, NEW f \in {"lost", "victim"}, Fault(f)
  PROVE  met'[now] \cap {"lost", "victim"} # {}
<1>1. met' = [met EXCEPT ![now] = met[now] \cup {f}]
  BY DEF Fault
<1>2. f \in met'[now]
  BY <1>1 DEF ServerInv
<1> QED
  BY <1>2

LEMMA AttemptKeeps ==
  ASSUME ServerInv, RepeatInv, now \in Requests, Executed \/ NotExecuted
  PROVE  Kept /\ Adds /\ (Executed => (statement.writes => row \in stored' \cup work'))
<1>1. CASE Executed
  <2>1. CASE autocommit
    BY <1>1, <2>1 DEF Executed, Session, Store, Kept, Adds, row
  <2>2. CASE ~autocommit
    BY <1>1, <2>2 DEF Executed, Session, StoresNone, Kept, Adds, row
  <2> QED
    BY <2>1, <2>2
<1>2. ASSUME NotExecuted PROVE Kept /\ Adds
  <2>1. CASE Session(autocommit, work) /\ StoresNone
    BY <2>1 DEF Session, StoresNone, Kept, Adds
  <2>2. CASE Fault("victim") /\ Session(autocommit, {}) /\ StoresNone
    BY <2>2, LossHurts DEF Session, StoresNone, Kept, Adds
  <2>3. CASE Fault("lost") /\ NoSession(work) /\ StoresNone
    BY <2>3, LossHurts DEF NoSession, StoresNone, Kept, Adds
  <2>4. CASE autocommit /\ Fault("lost") /\ NoSession(work) /\ Store({row})
    BY <2>4, LossHurts DEF NoSession, Store, Kept, Adds
  <2>5. CASE link # "up" /\ NoSession({}) /\ StoresNone
    BY <2>5 DEF NoSession, StoresNone, Kept, Adds, ServerInv
  <2> QED
    BY <1>2, <2>1, <2>2, <2>3, <2>4, <2>5 DEF NotExecuted, row
<1> QED
  BY <1>1, <1>2

LEMMA RefusalKeeps ==
  ASSUME ServerInv, Refusal \/ (link # "up" /\ NoSession({}) /\ StoresNone)
  PROVE  Kept /\ Adds
BY DEF ServerInv, Refusal, NoSession, StoresNone, Kept, Adds

(* One call further: the statement goes on, or comes to its commit, or makes *)
(* way for the next one, after it was executed if it writes.                 *)
Further ==
  \/ /\ step' = step /\ phase' \in {"begin", "query", "ping", "retry"}
     /\ phase' = "begin" => ~open /\ statement.op = "trans"
  \/ step' = step /\ phase' = "commit" /\ (statement.writes => row \in stored' \cup work')
  \/ /\ phase # "connect" /\ step' = step + 1 /\ phase' = FirstCall(statement', open')
     /\ statement.writes => row \in stored' \cup work'

LEMMA HeadFurther ==
  ASSUME ControlInv, ServerInv, RepeatInv, HeadNow, phase \in {"connect", "query", "ping", "retry"},
         now' = now, message' = message, open' = open, Blames, Kept, Adds, Further,
         Ends(message[now])
  PROVE  HeadNow'
<1> DEFINE k == message[now]
           W == Written(k)
           P == Parts(k)
<1>1. Busy /\ now \in Requests /\ step \in 1..Len(Script[k]) /\ k \in Messages /\ Len(Script[k]) \in Nat
  BY BusyNow, ScriptAssumption DEF Busy, ControlInv
<1>2. met[now] \subseteq met'[now]
  BY <1>1, BlamesAdds
<1>3. W \subseteq 1..Len(Script[k]) /\ P \subseteq W
  BY DEF Written, Parts
<1>4. UNCHANGED <<W, P>> /\ k' = k
  BY DEF Written, Parts
<1>5. step' \in {step, step + 1} /\ step' \in Nat
  BY <1>1 DEF Further
<1>6. step \in W <=> statement.writes
  BY <1>1 DEF Written, statement
(* A statement that is newly missing was held back and is lost with all      *)
(* that was.                                                                 *)
<1>7. ASSUME NEW i \in W, Lacks(i)'
      PROVE  /\ i < step
             /\ \/ Lacks(i)
                \/ /\ <<now, i>> \in work /\ work' = {} 
                   /\ met'[now] \cap {"lost", "victim"} # {}
  <2>1. <<now, i>> \notin stored' \cup work' /\ (i < step' \/ (phase' = "commit" /\ i = step'))
    BY <1>7 DEF Lacks
  <2>2. i # step
    <3>1. CASE i < step'
      BY <1>1, <1>3, <1>5, <1>6, <2>1, <3>1 DEF Further, row
    <3>2. CASE phase' = "commit" /\ i = step'
      BY <1>6, <2>1, <3>2 DEF Further, row, FirstCall
    <3> QED
      BY <2>1, <3>1, <3>2
  <2>3. i < step
    <3>1. phase' = "commit" => step' = step
      BY DEF Further, FirstCall
    <3> QED
      BY <1>1, <1>3, <1>5, <2>1, <2>2, <3>1
  <2>4. CASE <<now, i>> \in work
    BY <2>1, <2>3, <2>4 DEF Kept
  <2>5. CASE <<now, i>> \notin work
    BY <2>1, <2>3, <2>5 DEF Adds, Lacks
  <2> QED
    BY <2>3, <2>4, <2>5
<1>8. \A i \in W : ("joined" \notin met[now] =>
        (Lacks(i) \/ <<now, i>> \in work => i \in P))'
  <2> SUFFICES ASSUME NEW i \in W, "joined" \notin met'[now], Lacks(i)' \/ <<now, i>> \in work'
               PROVE  i \in P
    BY <1>4
  <2>1. "joined" \notin met[now]
    BY <1>2
  <2>2. CASE Lacks(i) \/ <<now, i>> \in work
    BY <2>1, <2>2 DEF HeadNow
  <2>3. CASE ~Lacks(i) /\ <<now, i>> \notin work
    <3>1. i = step /\ ~autocommit
      BY <1>7, <2>3 DEF Kept, row
    <3>2. statement.op # "plain"
      <4> SUFFICES ASSUME statement.op = "plain" PROVE FALSE
        OBVIOUS
      <4>1. \A j \in 1..(step - 1) : Op(j) # "trans"
        BY <1>1, <1>6, <3>1, PutAssumption DEF statement, Op
      <4>2. \A j \in 1..step : Op(j) = "plain"
        <5> SUFFICES ASSUME NEW j \in 1..step PROVE Op(j) = "plain"
          OBVIOUS
        <5>1. Script[k][j].op \in {"plain", "trans", "raise"}
          <6>1. Script[k] \in Seq(Statements)
            BY <1>1, ScriptAssumption
          <6>2. j \in 1..Len(Script[k])
            BY <1>1
          <6>3. Script[k][j] \in Statements
            BY <6>1, <6>2
          <6> QED
            BY <6>3 DEF Statements
        <5>2. Script[k][j].op # "raise"
          BY <1>1 DEF Ends
        <5>3. CASE j = step
          BY <5>3 DEF Op, statement
        <5>4. CASE j # step
          BY <1>1, <4>1, <5>1, <5>2, <5>4 DEF Op
        <5> QED
          BY <5>3, <5>4
      <4> QED
        BY <2>1, <3>1, <4>2 DEF HeadNow
    <3>3. Script[k][step] \in Statements
      BY <1>1, ScriptAssumption
    <3>4. statement.op \in {"plain", "trans", "raise"} /\ statement.op # "raise"
      BY <1>1, <3>3 DEF statement, Statements, Ends
    <3> QED
      BY <3>1, <3>2, <3>4 DEF Parts, statement
  <2> QED
    BY <2>2, <2>3
<1>9. ASSUME NEW i \in W, Lacks(i)'
      PROVE  /\ met'[now] \cap {"lost", "victim"} # {}
             /\ \A j \in P : j < i => <<now, j>> \notin stored' \cup work'
             /\ i # step'
  <2>1. i < step /\ i \in Nat
    <3>1. i \in 1..Len(Script[k])
      BY <1>3, <1>9
    <3>2. i < step
      BY <1>7, <1>9
    <3> QED
      BY <1>1, <3>1, <3>2
  <2>2. \A j \in P : j < i => <<now, j>> # row /\ j \in W
    BY <1>1, <1>3, <2>1 DEF row
  <2>3. i # step'
    BY <1>1, <1>5, <2>1
  <2>4. CASE Lacks(i)
    BY <1>2, <2>2, <2>3, <2>4 DEF HeadNow, Kept, Adds
  <2>5. CASE ~Lacks(i)
    <3>1. <<now, i>> \in work /\ work' = {} /\ met'[now] \cap {"lost", "victim"} # {}
      BY <1>7, <1>9, <2>5
    <3>2. \A j \in P : j < i => <<now, j>> \notin stored
      BY <3>1 DEF HeadNow
    <3> QED
      BY <2>2, <2>3, <3>1, <3>2 DEF Adds
  <2> QED
    BY <2>4, <2>5
<1>10. autocommit => work = {}
  BY DEF RepeatInv
<1>11. ASSUME NEW i \in W, NEW j \in P, <<now, i>> \in work', j < i PROVE <<now, j>> \notin stored'
  <2>1. CASE <<now, i>> \in work
    BY <1>10, <1>11, <2>1 DEF HeadNow, Adds
  <2>2. CASE <<now, i>> \notin work
    <3>1. ~autocommit
      BY <1>11, <2>2 DEF Kept
    <3> QED
      BY <3>1 DEF HeadNow, Adds
  <2> QED
    BY <2>1, <2>2
<1>12. ~autocommit' => \A j \in P : <<now, j>> \notin stored'
  BY DEF HeadNow, Kept, Adds
<1>13. (\A i \in 1..step' : Op(i)' = "plain") /\ "joined" \notin met'[now] => autocommit'
  <2> SUFFICES ASSUME \A i \in 1..step' : Op(i)' = "plain", "joined" \notin met'[now] PROVE autocommit'
    OBVIOUS
  <2>1. \A i \in 1..step : Op(i) = "plain"
    BY <1>1, <1>5 DEF Op
  <2> QED
    BY <1>2, <2>1 DEF HeadNow, Kept
<1>14. ~open' => \A i \in 1..(step' - 1) : Op(i)' # "trans"
  <2> SUFFICES ASSUME ~open, NEW i \in 1..(step' - 1) PROVE Op(i) # "trans"
    BY DEF Op
  <2>1. CASE i \in 1..(step - 1)
    BY <2>1 DEF HeadNow
  <2>2. CASE i \notin 1..(step - 1)
    <3>1. i = step /\ step' = step + 1
      <4>1. CASE step' = step
        BY <2>2, <4>1
      <4>2. CASE step' = step + 1
        <5>1. i \in 1..step /\ step \in Nat
          BY <1>1, <4>2
        <5> QED
          BY <2>2, <4>2, <5>1
      <4> QED
        BY <1>5, <4>1, <4>2
    <3>2. phase # "connect"
      BY <1>1, <3>1 DEF Further
    <3> QED
      BY <3>1, <3>2 DEF RepeatInv, Op, statement
  <2> QED
    BY <2>1, <2>2
<1>15. phase' = "begin" => ~open' /\ statement'.op = "trans"
  BY DEF Further, FirstCall, statement
<1> QED
  BY <1>4, <1>8, <1>9, <1>11, <1>12, <1>13, <1>14, <1>15 DEF HeadNow

LEMMA ReturnsAhead ==
  ASSUME NEW result, Returns(result), phase' \in Ahead
  PROVE  Passes(result) /\ step' = step + 1 /\ phase' = FirstCall(statement', open')
<1>1. ~GoTo("rollback") /\ \A a : ~Answer(a)
  BY DEF GoTo, Answer, Ahead
<1>2. Passes(result) /\ step' = step + 1 /\ UNCHANGED <<now, message, answer>>
      /\ phase' = FirstCall(Script[message[now]][step + 1], open')
  BY <1>1 DEF Returns
<1> QED
  BY <1>2 DEF statement

(* A failure that passes is that of a select.                                *)
LEMMA ReadsOnly ==
  ASSUME ControlInv, Busy, Ends(message[now]), statement.op # "trans", Passes("positive")
  PROVE  ~statement.writes
<1>1. step \in 1..Len(Script[message[now]]) /\ message[now] \in Messages
  BY DEF ControlInv
<1>2. Script[message[now]] \in Seq(Statements)
  BY <1>1, ScriptAssumption
<1>3. statement.op \in {"plain", "trans", "raise"}
  BY StatementIs DEF Statements
<1>4. statement.op # "raise"
  BY <1>1 DEF statement, Ends
<1>5. statement.test = "nonneg"
  BY DEF Passes
<1> QED
  BY <1>1, <1>3, <1>4, <1>5, PutAssumption DEF statement

LEMMA ThreadFurther ==
  ASSUME ControlInv, ServerInv, RepeatInv, Ends(message[now]), Thread, phase' \in Ahead,
         phase \in {"connect", "query", "ping", "retry"}
  PROVE  open' = open /\ Kept /\ Adds /\ Further
<1>1. Busy /\ now \in Requests
  BY BusyNow DEF Busy
<1>2. \A p : GoTo(p) => phase' = p /\ step' = step
  BY DEF GoTo
<1>3. \A a : ~Answer(a)
  BY DEF Answer, Ahead
<1>4. ASSUME NEW result, Returns(result), statement.writes => row \in stored' \cup work',
             phase # "connect"
      PROVE  Further
  BY <1>4, ReturnsAhead DEF Further
<1>5. ASSUME Done, Executed, phase # "connect" PROVE Further
  <2>1. statement.writes => row \in stored' \cup work'
    BY <1>1, <1>5, AttemptKeeps
  <2> QED
    BY <1>2, <1>4, <1>5, <2>1 DEF Done, Further
<1>6. ASSUME Returns("positive"), statement.op # "trans", phase # "connect" PROVE Further
  <2>1. ~statement.writes
    BY <1>1, <1>6, ReturnsAhead, ReadsOnly
  <2> QED
    BY <1>4, <1>6, <2>1
<1>7. CASE phase = "connect"
  <2>1. Connect
    BY <1>7 DEF Thread, Connect, Begin, Query, Ping, Retry, Commit, Restore, RollBack, ScriptError
  <2>2. GoTo(FirstCall(statement, open)) /\ UNCHANGED <<open, autocommit, work, stored>>
    BY <1>3, <2>1 DEF Connect, StoresNone
  <2>3. phase' = FirstCall(statement, open) /\ step' = step
    BY <1>2, <2>2
  <2>4. Further
    BY <2>3 DEF Further, FirstCall, Ahead
  <2> QED
    BY <2>2, <2>4 DEF Kept, Adds
<1>8. CASE phase = "query"
  <2>1. Query
    BY <1>8 DEF Thread, Connect, Begin, Query, Ping, Retry, Commit, Restore, RollBack, ScriptError
  <2>2. CASE Executed /\ Done
    BY <1>1, <1>5, <1>8, <2>1, <2>2, AttemptKeeps DEF Query
  <2>3. CASE NotExecuted /\ GoTo("ping")
    <3>1. Further
      BY <1>2, <2>3 DEF Further
    <3> QED
      BY <1>1, <2>1, <2>3, <3>1, AttemptKeeps DEF Query
  <2>4. CASE Fault("lost") /\ NoSession({}) /\ StoresNone /\ GoTo("ping")
    <3>1. Further
      BY <1>2, <2>4 DEF Further
    <3>2. met'[now] \cap {"lost", "victim"} # {}
      BY <1>1, <2>4, LossHurts
    <3>3. Kept /\ Adds
      BY <2>4, <3>2 DEF Kept, Adds, NoSession, StoresNone
    <3> QED
      BY <2>1, <3>1, <3>3 DEF Query
  <2> QED
    BY <2>1, <2>2, <2>3, <2>4 DEF Query
<1>9. CASE phase = "ping"
  <2>1. Ping
    BY <1>9 DEF Thread, Connect, Begin, Query, Ping, Retry, Commit, Restore, RollBack, ScriptError
  <2>2. CASE Session(autocommit, work) /\ GoTo("retry")
    <3>1. Further
      BY <1>2, <2>2 DEF Further
    <3> QED
      BY <2>1, <2>2, <3>1 DEF Ping, Kept, Adds, Session, StoresNone
  <2>3. CASE (Refusal \/ (link # "up" /\ NoSession({}))) /\ Returns(Failure)
    <3>1. Passes(Failure)
      BY <2>3, ReturnsAhead
    <3>2. Failure = "positive" /\ statement.op # "trans"
      BY <3>1 DEF Failure, Passes
    <3>3. Further
      BY <1>6, <1>9, <2>3, <3>2
    <3> QED
      BY <2>1, <2>3, <3>3, RefusalKeeps DEF Ping
  <2> QED
    BY <2>1, <2>2, <2>3 DEF Ping
<1>10. CASE phase = "retry"
  <2>1. Retry
    BY <1>10 DEF Thread, Connect, Begin, Query, Ping, Retry, Commit, Restore, RollBack, ScriptError
  <2>2. CASE Executed /\ Done
    BY <1>1, <1>5, <1>10, <2>1, <2>2, AttemptKeeps DEF Retry
  <2>3. CASE (NotExecuted \/ Refusal) /\ statement.op # "trans" /\ Returns("positive")
    <3>1. Further
      BY <1>6, <1>10, <2>3
    <3> QED
      BY <1>1, <2>1, <2>3, <3>1, AttemptKeeps, RefusalKeeps DEF Retry
  <2>4. ~GoTo("abandon")
    BY DEF GoTo, Ahead
  <2> QED
    BY <2>1, <2>2, <2>3, <2>4 DEF Retry
<1> QED
  BY <1>7, <1>8, <1>9, <1>10

(* A transaction that begins has executed nothing yet.                       *)
LEMMA BeginHead ==
  ASSUME ControlInv, ServerInv, SessionAgrees, RepeatInv, HeadNow, Begin, phase' \in Ahead
  PROVE  HeadNow'
<1>1. Busy /\ now \in Requests /\ step \in Nat
  BY BusyNow DEF Busy, Begin
<1>2. ~Returns("negative")
  BY ReturnsAhead DEF Passes
<1>3. /\ Calm /\ work' = {} /\ open' /\ phase' = "query"
      /\ UNCHANGED <<now, message, step, stored>>
  BY <1>2 DEF Begin, Session, GoTo, StoresNone
<1>4. ~open /\ statement.op = "trans" /\ work = {} /\ phase = "begin"
  BY DEF Begin, HeadNow, SessionAgrees
<1>5. met' = met
  BY <1>3 DEF Calm
<1>6. ASSUME NEW j \in Parts(message[now]) PROVE <<now, j>> \notin stored
  <2>1. j \in 1..Len(Script[message[now]]) /\ Op(j) = "trans"
    BY DEF Parts, Written, Op
  <2>2. j \in Nat /\ ~(j \in 1..(step - 1))
    BY <1>4, <2>1 DEF HeadNow
  <2>3. j = step \/ j > step
    BY <1>1, <2>1, <2>2
  <2> QED
    BY <1>1, <1>4, <2>2, <2>3 DEF RepeatInv, Unsent, row
<1>7. \A i : Lacks(i)' => Lacks(i) /\ i # step
  <2>1. Written(message[now])' = Written(message[now])
    BY <1>3 DEF Written
  <2>2. Written(message[now]) \subseteq Nat
    BY DEF Written
  <2> QED
    BY <1>1, <1>3, <1>4, <2>1, <2>2 DEF Lacks
<1>8. UNCHANGED <<Written(message[now]), Parts(message[now])>>
  BY <1>3 DEF Written, Parts
<1>9. ~(\A i \in 1..step : Op(i)' = "plain")
  <2>1. step \in 1..step
    BY <1>1 DEF ControlInv
  <2>2. Op(step)' = "trans"
    BY <1>3, <1>4 DEF Op, statement
  <2> SUFFICES ASSUME \A i \in 1..step : Op(i)' = "plain" PROVE FALSE
    OBVIOUS
  <2>3. Op(step)' = "plain"
    BY <1>3, <2>1 DEF Op
  <2> QED
    BY <2>2, <2>3
<1> QED
  BY <1>3, <1>5, <1>6, <1>7, <1>8, <1>9 DEF HeadNow

(* Only a commit, or a statement that failed twice, makes a success.         *)
LEMMA OkCommits ==
  ASSUME ControlInv, KindInv, Thread, Ends(message[now]), answer'[now] = "ok", now \notin abandoned'
  PROVE  /\ phase = "commit" /\ link # "refusing" /\ step = Len(Script[message[now]])
         /\ stored' = stored \cup work /\ work' = {}
<1>1. Busy /\ now \in Requests /\ answer[now] = "none" /\ step \in 1..Len(Script[message[now]])
  BY ThreadMoves, BusyNow DEF ControlInv
<1>2. \A p : ~GoTo(p)
  BY <1>1 DEF GoTo
<1>3. ~Answer("error")
  BY <1>1 DEF Answer, ControlInv
<1>4. ASSUME NEW result, Returns(result)
      PROVE  Passes(result) /\ step = Len(Script[message[now]])
  BY <1>1, <1>2, <1>3, <1>4 DEF Returns
<1>5. step = Len(Script[message[now]]) => statement.op = "trans" /\ statement.commit
  BY <1>1 DEF Ends, statement
<1>6. ~Done
  BY <1>2, <1>4, <1>5 DEF Done
<1>7. ~Returns("negative")
  BY <1>4 DEF Passes
<1>8. ~Connect /\ ~Begin /\ ~Query /\ ~RollBack /\ ~ScriptError
  BY <1>2, <1>3, <1>6, <1>7 DEF Connect, Begin, Query, RollBack, ScriptError
<1>9. ~Ping
  BY <1>2, <1>4, <1>5, <1>7 DEF Ping, Failure
<1>10. ~Retry
  BY <1>2, <1>4, <1>5, <1>6 DEF Retry
<1>11. ~Restore
  BY <1>1, <1>7 DEF Restore
<1>12. Commit
  BY <1>8, <1>9, <1>10, <1>11 DEF Thread
<1>13. Store(work) /\ Session(TRUE, {}) /\ Returns("good") /\ link # "refusing" /\ phase = "commit"
  BY <1>2, <1>12 DEF Commit
<1> QED
  BY <1>4, <1>13 DEF Store, Session

LEMMA RunsOn ==
  ASSUME ControlInv, KindInv, Thread, phase' \in Ahead, now \notin abandoned', Ends(message[now])
  PROVE  phase \in {"connect", "begin", "query", "ping", "retry"}
<1>1. Busy /\ step \in 1..Len(Script[message[now]])
  BY ThreadMoves DEF ControlInv
<1>2. \A a : ~Answer(a)
  BY DEF Answer, Ahead
<1>3. ~Commit
  <2> SUFFICES ASSUME Commit PROVE FALSE
    OBVIOUS
  <2>1. Returns("good")
    BY DEF Commit, GoTo, Ahead
  <2>2. statement.op = "trans" /\ statement.commit
    BY DEF Commit, KindInv
  <2>3. step = Len(Script[message[now]])
    BY <1>1, <2>2 DEF Ends, statement
  <2>4. Passes("good")
    BY DEF Passes
  <2>5. Answer("ok")
    BY <2>1, <2>3, <2>4 DEF Returns
  <2> QED
    BY <1>2, <2>5
<1>4. ~Restore
  <2> SUFFICES ASSUME Restore PROVE FALSE
    OBVIOUS
  <2>1. phase # "abandon"
    BY DEF Restore
  <2>2. Returns("negative")
    BY <2>1 DEF Restore
  <2> QED
    BY <2>2, ReturnsAhead DEF Passes
<1> QED
  BY <1>2, <1>3, <1>4 DEF Thread, Connect, Begin, Query, Ping, Retry, RollBack, ScriptError

LEMMA HeadThread ==
  ASSUME ControlInv, ServerInv, SessionAgrees, RepeatInv, KindInv, HeadInv, Thread
  PROVE  (Running' => HeadNow') /\ HeadDone(now)'
<1>1. Busy /\ Blames /\ now' = now /\ message' = message /\ now \in Requests
  BY ThreadServes, ThreadMoves, NowStays, BusyNow
<1>2. Ends(message[now])' <=> Ends(message[now])
  BY <1>1 DEF Ends
<1>3. abandoned \subseteq abandoned'
  BY DEF Thread, Connect, Begin, Query, Ping, Retry, Commit, Restore, RollBack, ScriptError
<1>4. ASSUME Running' PROVE HeadNow'
  <2>1. phase' \in Ahead /\ now \notin abandoned' /\ Ends(message[now])
    BY <1>1, <1>2, <1>4 DEF Running
  <2>2. phase \in {"connect", "begin", "query", "ping", "retry"}
    BY <2>1, RunsOn
  <2>3. HeadNow
    BY <1>3, <2>1, <2>2 DEF HeadInv, Running, Ahead
  <2>4. CASE phase = "begin"
    <3>1. Begin
      BY <2>4 DEF Thread, Connect, Begin, Query, Ping, Retry, Commit, Restore, RollBack, ScriptError
    <3> QED
      BY <2>1, <2>3, <3>1, BeginHead
  <2>5. CASE phase # "begin"
    BY <1>1, <2>1, <2>2, <2>3, <2>5, ThreadFurther, HeadFurther
  <2> QED
    BY <2>4, <2>5
<1>5. ASSUME answer'[now] = "ok", Ends(message[now]), now \notin abandoned'
      PROVE  /\ \A i \in Written(message[now]) : <<now, i>> \notin work'
             /\ Len(Script[message[now]]) \notin Missing(now)'
             /\ "joined" \notin met'[now] => Missing(now)' \subseteq Parts(message[now])
             /\ Missing(now)' # {} => met'[now] \cap {"lost", "victim"} # {}
             /\ \A i \in Missing(now)', j \in Parts(message[now]) : j < i => j \in Missing(now)'
  <2>1. /\ phase = "commit" /\ link # "refusing" /\ step = Len(Script[message[now]])
        /\ stored' = stored \cup work /\ work' = {}
    BY <1>5, OkCommits
  <2>2. HeadNow
    BY <1>3, <1>5, <2>1 DEF HeadInv, Running, Ahead
  <2>3. message[now] \in Messages /\ Len(Script[message[now]]) \in Nat
    BY <1>1, ScriptAssumption DEF ControlInv
  <2>4. \A i : i \in Missing(now)' <=> i \in Written(message[now]) /\ <<now, i>> \notin stored \cup work
    BY <1>1, <2>1 DEF Missing, Written
  <2>5. \A i \in Missing(now)' : Lacks(i) /\ i \in Written(message[now])
    BY <2>1, <2>3, <2>4 DEF Lacks, Written
  <2>6. met[now] \subseteq met'[now]
    BY <1>1, BlamesAdds
  <2>7. Parts(message[now]) \subseteq Written(message[now])
    BY DEF Parts
  <2>8. step \notin Missing(now)'
    BY <2>1, <2>2, <2>5 DEF HeadNow
  <2> QED
    BY <2>1, <2>2, <2>4, <2>5, <2>6, <2>7, <2>8 DEF HeadNow
<1>6. HeadDone(now)'
  <2>1. Parts(message[now])' = Parts(message[now]) /\ Written(message[now])' = Written(message[now])
    BY <1>1 DEF Parts, Written
  <2> QED
    BY <1>1, <1>2, <1>5, <2>1 DEF HeadDone
<1> QED
  BY <1>4, <1>6

(* What was answered before stays as it is.                                  *)
LEMMA DoneStays ==
  ASSUME ServerInv, NEW r \in Requests, HeadDone(r), r # now, 
         message'[r] = message[r], answer'[r] = answer[r], met[r] \subseteq met'[r],
         r \in abandoned => r \in abandoned',
         stored \subseteq stored', stored' \subseteq stored \cup work \cup {row},
         work' \subseteq work \cup {row}
  PROVE  HeadDone(r)'
<1> SUFFICES ASSUME answer[r] = "ok", Ends(message[r]), r \notin abandoned
             PROVE  HeadDone(r)'
  BY DEF HeadDone, Ends
<1>1. \A i \in Written(message[r]) : <<r, i>> \notin work /\ <<r, i>> # row
  BY DEF HeadDone, row
<1>2. Missing(r)' = Missing(r) /\ Written(message[r])' = Written(message[r])
  BY <1>1 DEF Missing, Written
<1>3. Parts(message[r])' = Parts(message[r])
  BY DEF Parts, Written
<1> QED
  BY <1>1, <1>2, <1>3 DEF HeadDone

LEMMA HeadNext ==
  /\ ControlInv /\ ServerInv /\ SessionAgrees /\ RepeatInv /\ KindInv
  /\ HeadInv /\ [Next]_vars
  => HeadInv'
<1> SUFFICES ASSUME ControlInv, ServerInv, SessionAgrees, RepeatInv, KindInv, HeadInv, [Next]_vars
             PROVE  HeadInv'
  OBVIOUS
<1>1. CASE UNCHANGED vars
  <2>1. (Running => HeadNow)'
    BY <1>1 DEF vars, server, HeadInv, Running, HeadNow, Lacks, Op, statement, Ends, Parts, Written
  <2>2. ASSUME NEW r \in Requests PROVE HeadDone(r)'
    BY <1>1 DEF vars, server, HeadInv, HeadDone, Missing, Ends, Parts, Written
  <2> QED
    BY <2>1, <2>2 DEF HeadInv
<1>2. ASSUME NEW k \in Messages, Take(k) PROVE HeadInv'
  <2>1. /\ now \in Nat /\ now' = now + 1 /\ now + 1 \in Requests /\ step' = 1
        /\ UNCHANGED <<autocommit, work, stored, open, abandoned, answer>>
    BY <1>2, BoundAssumption DEF Take, ControlInv, server, Requests
  <2>2. \A j : <<now', j>> \notin stored' \cup work'
    BY <2>1 DEF ServerInv
  <2>3. message'[now'] = k /\ statement' = Script[k][1]
    BY <1>2, <2>1 DEF Take, ControlInv, statement
  <2>4. phase' = "connect" \/ phase' = FirstCall(statement', open')
    BY <1>2, <2>1, <2>3 DEF Take
  <2>5. phase' # "commit" /\ (phase' = "begin" => ~open' /\ statement'.op = "trans")
    BY <2>4 DEF FirstCall
  <2>6. \A i \in Written(k) : ~Lacks(i)'
    BY <2>1, <2>5 DEF Lacks, Written
  <2>7. "joined" \notin met'[now'] => autocommit'
    <3>1. met'[now + 1] = IF ~open THEN {} ELSE IF autocommit THEN {"stale"} ELSE {"joined"}
      BY <1>2, <2>1 DEF Take, ServerInv
    <3> QED
      BY <2>1, <3>1 DEF SessionAgrees
  <2>8. HeadNow'
    BY <2>1, <2>2, <2>3, <2>5, <2>6, <2>7 DEF HeadNow
  <2>9. ASSUME NEW r \in Requests PROVE HeadDone(r)'
    <3>1. CASE r = now + 1
      <4>1. answer'[r] = "none"
        BY <2>1, <3>1, BoundAssumption DEF ControlInv, Requests
      <4> QED
        BY <4>1 DEF HeadDone
    <3>2. CASE r # now + 1
      <4>1. message'[r] = message[r] /\ met'[r] = met[r]
        BY <1>2, <3>2 DEF Take, ControlInv, ServerInv
      <4>2. HeadDone(r)
        BY DEF HeadInv
      <4>3. Written(message[r])' = Written(message[r]) /\ Parts(message[r])' = Parts(message[r])
        BY <4>1 DEF Parts, Written
      <4>4. Missing(r)' = Missing(r)
        BY <2>1, <4>3 DEF Missing
      <4>5. Ends(message[r])' = Ends(message[r])
        BY <4>1 DEF Ends
      <4> QED
        BY <2>1, <4>1, <4>2, <4>3, <4>4, <4>5 DEF HeadDone
    <3> QED
      BY <3>1, <3>2
  <2> QED
    BY <2>8, <2>9 DEF HeadInv
<1>3. CASE Drop
  <2>1. /\ UNCHANGED <<open, phase, now, message, step, stored, answer, abandoned>>
        /\ work' = {} /\ autocommit' = TRUE
        /\ link = "up" /\ link' = IF work # {} THEN "refusing" ELSE "lost"
    BY <1>3 DEF Drop, NoSession, StoresNone
  <2>2. \A r \in Requests : met[r] \subseteq met'[r]
    BY <1>3, BusyNow, BlamesAdds DEF Drop, Busy, Blames, Faults
  <2>3. ASSUME Running' PROVE HeadNow'
    <3>1. Running
      BY <2>1, <2>3 DEF Running, Ends
    <3>2. Busy /\ now \in Requests
      BY <3>1, BusyNow DEF Running, Ahead, Busy
    <3>3. met'[now] \cap {"lost", "victim"} # {}
      BY <1>3, <3>2, LossHurts DEF Drop, Busy
    <3>4. UNCHANGED <<Written(message[now]), Parts(message[now]), statement>> /\ \A i : Op(i)' = Op(i)
      BY <2>1 DEF Written, Parts, statement, Op
    <3>5. HeadNow /\ met[now] \subseteq met'[now]
      BY <2>2, <3>1, <3>2 DEF HeadInv
    <3>6. \A i \in Written(message[now]) : Lacks(i)' => Lacks(i) \/ <<now, i>> \in work
      BY <2>1, <3>4 DEF Lacks
    <3>7. ASSUME NEW i \in Written(message[now]), Lacks(i)'
          PROVE  /\ \A j \in Parts(message[now]) : j < i => <<now, j>> \notin stored'
                 /\ i = step => link' = "refusing"
      <4>1. CASE Lacks(i)
        BY <2>1, <3>5, <4>1 DEF HeadNow
      <4>2. CASE <<now, i>> \in work
        BY <2>1, <3>5, <4>2 DEF HeadNow
      <4> QED
        BY <3>6, <3>7, <4>1, <4>2
    <3> QED
      BY <2>1, <3>3, <3>4, <3>5, <3>6, <3>7 DEF HeadNow
  <2>4. ASSUME NEW r \in Requests PROVE HeadDone(r)'
    <3>1. Missing(r)' = Missing(r) /\ Parts(message[r])' = Parts(message[r])
      BY <2>1 DEF Missing, Written, Parts
    <3> QED
      BY <2>1, <2>2, <2>4, <3>1 DEF HeadInv, HeadDone, Ends
  <2> QED
    BY <2>3, <2>4 DEF HeadInv
<1>4. CASE Thread
  <2>1. Lives /\ Keeps /\ Blames /\ Moves /\ Busy /\ now' = now /\ message' = message /\ now \in Requests
    BY <1>4, ThreadServes, ThreadMoves, NowStays, BusyNow
  <2>2. abandoned \subseteq abandoned'
    BY <1>4 DEF Thread, Connect, Begin, Query, Ping, Retry, Commit, Restore, RollBack, ScriptError
  <2>3. (Running' => HeadNow') /\ HeadDone(now)'
    BY <1>4, HeadThread
  <2>4. ASSUME NEW r \in Requests, r # now PROVE HeadDone(r)'
    <3>1. answer'[r] = answer[r]
      BY <2>1, <2>4 DEF Moves, GoTo, Answer, ControlInv
    <3>2. met[r] \subseteq met'[r]
      BY <2>1, BlamesAdds
    <3>3. stored \subseteq stored' /\ stored' \subseteq stored \cup work \cup {row} /\ work' \subseteq work \cup {row}
      BY <2>1 DEF Lives, Keeps
    <3> QED
      BY <2>1, <2>2, <2>4, <3>1, <3>2, <3>3, DoneStays DEF HeadInv
  <2>5. \A r \in {now} : HeadDone(r)'
    BY <2>1, <2>3 DEF HeadDone, Missing
  <2> QED
    BY <2>3, <2>4, <2>5 DEF HeadInv
<1> QED
  BY <1>1, <1>2, <1>3, <1>4 DEF Next

(* A request answered with success although the link broke, or a deadlock    *)
(* was ended, lacks at most the first statements of its transaction.         *)
THEOREM OnlyHeadLost == Spec => []OnlyHeadMissing
<1>1. Init => RepeatInv /\ KindInv /\ HeadInv
  BY DEF Init, RepeatInv, Busy, Unsent, KindInv, HeadInv, Running, Ahead, HeadDone
<1>2. HeadInv => OnlyHeadMissing
  BY DEF HeadInv, HeadDone, Missing, OnlyHeadMissing, Answered
<1> QED
  BY <1>1, <1>2, HeadNext, RepeatNext, KindNext, FlagAgrees, Inv, PTL DEF Spec
=============================================================================
