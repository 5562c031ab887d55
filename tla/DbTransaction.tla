--------------------------- MODULE DbTransaction ---------------------------
(***************************************************************************)
(* One io thread of the EIMS server and its MySQL connection.  The thread  *)
(* answers one message after another; the handler of a message sends its   *)
(* statements through mysql_cnt, alone (exe_sql) or as parts of a          *)
(* transaction (exe_sql_transaction), which keep m_transaction_open and    *)
(* the session's autocommit in step, try a failed statement again after    *)
(* mysql_ping, and rely on the client library to connect anew.             *)
(*                                                                         *)
(* The library and the server are modelled as the code uses them.  A lost  *)
(* session takes its uncommitted statements with it, and the next session  *)
(* commits every statement by itself.  The library connects anew in the    *)
(* call that finds the connection closed (MYSQL_OPT_RECONNECT is set),     *)
(* except once after a connection was lost within a transaction: that call *)
(* it refuses, and the call after it connects.                             *)
(***************************************************************************)
EXTENDS Naturals, Sequences, FiniteSets

CONSTANTS
    Script,        \* the statements of each message's handler
    Messages,      \* the messages that are sent
    MaxRequests,   \* bound: messages the thread answers
    MaxFaults      \* bound: faults, over all requests

Statements == [op : {"plain", "trans", "raise"}, commit : BOOLEAN, writes : BOOLEAN,
               test : {"zero", "nonneg"}, undo : BOOLEAN]

ASSUME ScriptAssumption ==
    /\ Messages \subseteq DOMAIN Script
    /\ \A k \in Messages : Script[k] \in Seq(Statements) /\ Script[k] # <<>>
\* A plain statement between the parts of a transaction is tested by code
\* that rolls back.
ASSUME UndoAssumption ==
    \A k \in Messages : \A j \in 1..Len(Script[k]) :
        /\ Script[k][j].op = "plain"
        /\ \E i \in 1..(j - 1) : Script[k][i].op = "trans"
        => Script[k][j].undo
\* One that writes comes before any transaction and is tested for zero.
ASSUME PutAssumption ==
    \A k \in Messages : \A j \in 1..Len(Script[k]) :
        Script[k][j].op = "plain" /\ Script[k][j].writes =>
            /\ Script[k][j].test = "zero"
            /\ \A i \in 1..(j - 1) : Script[k][i].op # "trans"
ASSUME BoundAssumption == MaxRequests \in Nat \ {0} /\ MaxFaults \in Nat /\ "none" \notin Messages

Requests == 1..MaxRequests

\* lost: the link broke or its answer did not arrive in time; refused: the
\* server reported an error; victim: it rolled the transaction back to end
\* a deadlock; unreachable: no new connection.
Faults == {"lost", "refused", "victim", "unreachable"}
\* What an earlier request may have left: a transaction it did not end, or
\* m_transaction_open for a session that is in none.
Leftovers == {"joined", "stale"}

VARIABLES
    link,       \* of the connection: none | up | lost | refusing
    autocommit, \* of the server's session
    work,       \* <<request, step>> the session has executed and not committed
    stored,     \* <<request, step>> committed
    again,      \* those of stored that were committed a second time
    open,       \* m_transaction_open
    phase,      \* the library call under way
    now,        \* the request under way or answered last
    message,    \* the message of each request
    step,       \* the statement under way
    answer,     \* of each request: none | ok, of a handler that got to its
                \* end | error, of one that did not
    abandoned,  \* requests a statement of whose transaction failed twice
    met,        \* the faults each request met
    faults      \* counts them

server == <<link, autocommit, work, stored, again>>
vars == <<server, open, phase, now, message, step, answer, abandoned, met, faults>>

Init ==
    /\ link = "none" /\ autocommit = TRUE
    /\ work = {} /\ stored = {} /\ again = {}
    /\ open = FALSE
    /\ phase = "idle" /\ now = 0 /\ step = 0
    /\ message = [r \in Requests |-> "none"]
    /\ answer = [r \in Requests |-> "none"]
    /\ abandoned = {} /\ met = [r \in Requests |-> {}]
    /\ faults = 0

statement == Script[message[now]][step]

-----------------------------------------------------------------------------
(***************************************************************************)
(* The client library and the server.                                      *)
(***************************************************************************)
Calm == UNCHANGED <<met, faults>>
\* Each counts, but for a statement that is refused once more.
Fault(f) ==
    LET repeated == phase = "retry" /\ f = "refused" /\ f \in met[now] IN
    /\ repeated \/ faults < MaxFaults
    /\ faults' = IF repeated THEN faults ELSE faults + 1
    /\ met' = [met EXCEPT ![now] = @ \cup {f}]

Store(w) == stored' = stored \cup w /\ again' = again \cup (stored \cap w)
StoresNone == UNCHANGED <<stored, again>>

\* The session that calls use from now on: the one that is up, or a new one.
Session(a, w) == link' = "up" /\ autocommit' = a /\ work' = w
\* No session is left.  The library remembers that it was in a transaction.
NoSession(w) ==
    /\ link' = IF w # {} THEN "refusing" ELSE "lost"
    /\ autocommit' = TRUE /\ work' = {}

\* The link breaks between two calls.
Drop ==
    /\ link = "up"
    /\ IF phase = "idle"
       THEN faults < MaxFaults /\ faults' = faults + 1 /\ UNCHANGED met
       ELSE Fault("lost")
    /\ NoSession(work) /\ StoresNone
    /\ UNCHANGED <<open, abandoned, phase, now, message, step, answer>>

\* The statement under way is executed in the session.
Executed ==
    LET it == IF statement.writes THEN {<<now, step>>} ELSE {} IN
    /\ Calm
    /\ Session(autocommit, IF autocommit THEN work ELSE work \cup it)
    /\ IF autocommit THEN Store(it) ELSE StoresNone

\* It is not, or nobody knows whether it was.
NotExecuted ==
    \/ Fault("refused") /\ Session(autocommit, work) /\ StoresNone
    \/ work # {} /\ Fault("victim") /\ Session(autocommit, {}) /\ StoresNone
    \/ Fault("lost") /\ NoSession(work) /\ StoresNone
    \/ /\ autocommit /\ statement.writes
       /\ Fault("lost") /\ NoSession(work) /\ Store({<<now, step>>})
    \/ link # "up" /\ Fault("unreachable") /\ NoSession({}) /\ StoresNone

\* A call that finds the connection closed within a transaction is refused.
Refusal == link = "refusing" /\ Calm /\ NoSession({}) /\ StoresNone

-----------------------------------------------------------------------------
(***************************************************************************)
(* The thread.                                                             *)
(***************************************************************************)
\* A transaction is begun by its first statement, unless one is open.
FirstCall(s, o) ==
    CASE s.op = "raise" -> "raise"
      [] s.op = "trans" /\ ~o -> "begin"
      [] OTHER -> "query"

Answer(a) ==
    /\ answer' = [answer EXCEPT ![now] = a]
    /\ phase' = "idle" /\ step' = 0
    /\ UNCHANGED <<now, message>>

GoTo(p) == phase' = p /\ UNCHANGED <<now, message, step, answer>>

\* Mutant: the positive results of a refused statement pass every test.
PassesPositive(result) == result # "negative"
\* The statement's result is tested by the handler.  An exe_sql that failed
\* is "positive", as is a statement of a transaction the server refused
\* twice; the other failures of a transaction are "negative".  The id that the
\* code returns for an insert in place of 0 (mysql_insert_id) counts as "good".
Passes(result) ==
    \/ result = "good"
    \/ result = "positive" /\ statement.test = "nonneg"

Returns(result) ==
    IF ~Passes(result)
    THEN IF statement.undo THEN GoTo("rollback") ELSE Answer("error")
    ELSE IF step = Len(Script[message[now]]) THEN Answer("ok")
    ELSE /\ step' = step + 1
         /\ phase' = FirstCall(Script[message[now]][step + 1], open')
         /\ UNCHANGED <<now, message, answer>>

\* Mutant: a failed mysql_ping gives mysql_query's result.
FailureOfQuery == "positive"
Failure == IF statement.op = "trans" THEN "negative" ELSE "positive"

\* The next message arrives.
Take(k) ==
    /\ phase = "idle" /\ now < MaxRequests
    /\ now' = now + 1 /\ step' = 1
    /\ message' = [message EXCEPT ![now + 1] = k]
    /\ phase' = IF link = "none" THEN "connect" ELSE FirstCall(Script[k][1], open)
    /\ met' = [met EXCEPT ![now + 1] =
                  IF ~open THEN {} ELSE IF autocommit THEN {"stale"} ELSE {"joined"}]
    /\ UNCHANGED <<server, open, abandoned, answer, faults>>

\* sql_oper_grab: the thread's first connection is kept; without it the
\* message fails and the next one tries again.
Connect ==
    /\ phase = "connect"
    /\ UNCHANGED <<open, abandoned, autocommit, work>> /\ StoresNone
    /\ \/ Calm /\ link' = "up" /\ GoTo(FirstCall(statement, open))
       \/ Fault("unreachable") /\ UNCHANGED link /\ Answer("error")

\* exe_sql_transaction with no transaction open: rollback and autocommit(0).
Begin ==
    /\ phase = "begin" /\ StoresNone /\ UNCHANGED abandoned
    /\ \/ Calm /\ Session(FALSE, {}) /\ open' = TRUE /\ GoTo("query")
       \/ /\ \E f \in {"lost", "unreachable"} : Fault(f)
          /\ NoSession({}) /\ UNCHANGED open /\ Returns("negative")

\* The statement is done; the last of a transaction commits it.
Done ==
    IF statement.op = "trans" /\ statement.commit THEN GoTo("commit") ELSE Returns("good")

\* Mutant: every statement is sent twice.
QueryTwice ==
    /\ phase = "query" /\ UNCHANGED <<open, abandoned>>
    /\ (Executed \/ NotExecuted) /\ GoTo("ping")
\* The first attempt.  "set names" goes before it and takes the refusal, so
\* that the statement finds a new session, unless the link breaks only now.
Query ==
    /\ phase = "query" /\ UNCHANGED <<open, abandoned>>
    /\ \/ Executed /\ Done
       \/ NotExecuted /\ GoTo("ping")
       \/ work # {} /\ Fault("lost") /\ NoSession({}) /\ StoresNone /\ GoTo("ping")

Ping ==
    /\ phase = "ping" /\ UNCHANGED <<open, abandoned>> /\ StoresNone
    /\ \/ link # "refusing" /\ Calm /\ Session(autocommit, work) /\ GoTo("retry")
       \/ link # "up" /\ Fault("unreachable") /\ NoSession({}) /\ Returns(Failure)
       \/ Refusal /\ Returns(Failure)

Retry ==
    /\ phase = "retry" /\ UNCHANGED <<open, abandoned>>
    /\ LET fails == IF statement.op = "trans" THEN GoTo("abandon") ELSE Returns("positive") IN
       \/ link # "refusing" /\ Executed /\ Done
       \/ link # "refusing" /\ NotExecuted /\ fails
       \/ Refusal /\ fails

Commit ==
    /\ phase = "commit" /\ UNCHANGED abandoned
    /\ \/ /\ link # "refusing" /\ Calm /\ Session(TRUE, {}) /\ Store(work)
          /\ open' = FALSE /\ Returns("good")
       \/ /\ UNCHANGED open /\ GoTo("unwind")
          /\ \/ link # "refusing" /\ Fault("refused") /\ Session(autocommit, work) /\ StoresNone
             \/ Fault("lost") /\ NoSession(work) /\ StoresNone
             \/ link = "up" /\ Fault("lost") /\ NoSession(work) /\ Store(work)
             \/ link # "up" /\ Fault("unreachable") /\ NoSession({}) /\ StoresNone
             \/ Refusal

\* Mutant: autocommit(1) is forgotten.
RestoreHalf ==
    /\ phase \in {"abandon", "unwind"}
    /\ \/ Calm /\ Session(autocommit, {})
       \/ link # "up" /\ Fault("unreachable") /\ NoSession({})
    /\ open' = FALSE /\ StoresNone
    /\ abandoned' = IF phase = "abandon" THEN abandoned \cup {now} ELSE abandoned
    /\ Returns(IF phase = "abandon" THEN "positive" ELSE "negative")
\* After a failure: rollback, autocommit(1), and the transaction is closed.
\* A refused statement returns mysql_query's positive value, a refused commit -1.
Restore ==
    /\ phase \in {"abandon", "unwind"}
    /\ \/ Calm /\ Session(TRUE, {})
       \/ link # "up" /\ Fault("unreachable") /\ NoSession({})
    /\ open' = FALSE /\ StoresNone
    /\ abandoned' = IF phase = "abandon" THEN abandoned \cup {now} ELSE abandoned
    /\ Returns(IF phase = "abandon" THEN "positive" ELSE "negative")

\* Mutant: rollback() answers without rolling back.
RollBackNot ==
    /\ phase = "rollback" /\ UNCHANGED <<open, abandoned>> /\ StoresNone
    /\ Calm /\ UNCHANGED <<link, autocommit, work>>
    /\ Answer("error")
\* The handler's rollback(), which touches neither flag.
RollBack ==
    /\ phase = "rollback" /\ UNCHANGED <<open, abandoned>> /\ StoresNone
    /\ \/ link # "refusing" /\ Calm /\ Session(autocommit, {})
       \/ link # "up" /\ Fault("unreachable") /\ NoSession({})
       \/ Refusal
    /\ Answer("error")

\* A Lua error ends the handler; lua_pcall's caller answers an error.
ScriptError ==
    /\ phase = "raise" /\ Answer("error")
    /\ UNCHANGED <<server, open, abandoned, met, faults>>

Thread == \/ Connect \/ Begin \/ Query \/ Ping \/ Retry \/ Commit
          \/ Restore \/ RollBack \/ ScriptError

Next == (\E k \in Messages : Take(k)) \/ Thread \/ Drop

Spec == Init /\ [][Next]_vars

-----------------------------------------------------------------------------
Answered == {r \in Requests : answer[r] # "none"}
Written(k) == {i \in 1..Len(Script[k]) : Script[k][i].writes}
Parts(k) == {i \in Written(k) : Script[k][i].op = "trans"}
\* The last statement of a handler commits, and none before it.
Ends(k) == \A i \in 1..Len(Script[k]) : LET s == Script[k][i] IN
              s.op # "raise" /\ (s.op = "trans" /\ s.commit <=> i = Len(Script[k]))
Careful(k) == \A i \in 1..Len(Script[k]) : Script[k][i].op = "trans" => Script[k][i].test = "zero"
Raises(k) == \E i \in 1..Len(Script[k]) : Script[k][i].op = "raise"
Rows(r, I) == {r} \X I

\* Types; and a connection that is not up has no session, so that the next
\* one starts with autocommit set and nothing uncommitted.
TypeOK ==
    /\ link \in {"none", "up", "lost", "refusing"}
    /\ autocommit \in BOOLEAN /\ open \in BOOLEAN
    /\ link # "up" => autocommit /\ work = {}
    /\ now \in 0..MaxRequests /\ step \in Nat /\ faults \in Nat
    /\ work \subseteq (1..now) \X Nat /\ stored \subseteq (1..now) \X Nat
    /\ again \subseteq stored
    /\ phase \in {"idle", "connect", "begin", "query", "ping", "retry", "commit",
                  "abandon", "unwind", "rollback", "raise"}
    /\ message \in [Requests -> Messages \cup {"none"}]
    /\ answer \in [Requests -> {"none", "ok", "error"}]
    /\ abandoned \subseteq Requests /\ met \in [Requests -> SUBSET (Faults \cup Leftovers)]

\* m_transaction_open is never clear while the session holds statements
\* back: a plain statement sent with it clear, the time of a user's last
\* message among them, is durable at once, whatever failed before.
SessionAgrees == ~open => autocommit /\ work = {}

\* A connection lost between two messages is repaired without anybody being
\* answered an error: an error has a fault of that very request behind it,
\* or a Lua error.
ErrorHasCause ==
    \A r \in Answered : answer[r] = "error" => met[r] \cap Faults # {} \/ Raises(message[r])

\* The retry executes a statement a second time only after its first reply
\* was lost; one loss is not enough for a statement of a transaction that
\* found nothing left over, since its session still held it back.
OnlyLossRepeats ==
    \A w \in again :
        /\ "lost" \in met[w[1]]
        /\ w[2] \in Parts(message[w[1]]) /\ met[w[1]] \cap Leftovers = {} => faults >= 2

\* A handler that tests for zero is answered truthfully when the server
\* refuses statements, and only that happens: all of its transaction is
\* stored, or none of it is or ever will be.
CarefulWhole ==
    \A r \in Answered : met[r] \subseteq {"refused", "joined"}
                       /\ Careful(message[r]) /\ Ends(message[r]) =>
        /\ answer[r] = "ok" => Rows(r, Parts(message[r])) \subseteq stored
        /\ answer[r] = "error" => Rows(r, Parts(message[r])) \cap (stored \cup work) = {}

\* What a request answered with success may have lost without a statement
\* that failed twice: only the first statements of its transaction, never
\* the last, and only to a lost session or a deadlock.
OnlyHeadMissing ==
    \A r \in Answered : answer[r] = "ok" /\ Ends(message[r]) /\ r \notin abandoned =>
        LET missing == {i \in Written(message[r]) : <<r, i>> \notin stored} IN
        /\ Len(Script[message[r]]) \notin missing
        /\ "joined" \notin met[r] => missing \subseteq Parts(message[r])
        /\ missing # {} => met[r] \cap {"lost", "victim"} # {}
        /\ \A i \in missing, j \in Parts(message[r]) : j < i => j \in missing

\* No later commit on the connection stores what a request answered with an
\* error left behind.  Only a Lua error leaves anything.
FailedStaysOut ==
    [][\A r \in Requests : answer[r] = "error" /\ ~Raises(message[r]) =>
          Rows(r, Parts(message[r])) \cap (stored' \ stored) = {}]_vars
=============================================================================
