------------------------------- MODULE Logger -------------------------------
(***************************************************************************)
(* The logger of the EIMS framework (frame/debug/log.cpp).                 *)
(*                                                                         *)
(* Each thread that logs has a linked list of its own; a mutex guards the  *)
(* creation of the lists, nothing guards the lists themselves.  One thread *)
(* waits for a semaphore that counts logs, visits all lists on each        *)
(* wake-up, and writes what it took to the file.                           *)
(*                                                                         *)
(* A log is its number within its thread; levels and formats are left out. *)
(* get_front is one step: of what it touches, the appending thread changes *)
(* only the next pointer of the list's last node.                          *)
(***************************************************************************)
EXTENDS Integers, Sequences, FiniteSets

CONSTANTS
  N,         \* threads that log, numbered as std::map orders their ids
  MaxLogs    \* bound: MaxLogs[t], logs of thread t

ASSUME LGAssumption == N \in Nat /\ MaxLogs \in [1..N -> Nat]

Threads == 1..N

VARIABLES
  queues,   \* threads that have an entry in m_queues_
  list,     \* list[t]: the nodes from header_ on, by the logs they hold
  taken,    \* taken[t]: the flag i of header_
  curnode,  \* curnode[t]: the node curnode_ points to, 0 when null
  freed,    \* freed[t]: the last node deleted
  made,     \* made[t]: logs of thread t so far
  ppc,      \* ppc[t]: write_log
  sem,      \* m_rwsem_
  wpc,      \* self_manager_func_ex
  at,       \* the last list this wake-up visited, 0 before the first
  batch,    \* batch[t]: the logs of thread t in vlogs
  written,  \* written[t]: the logs of thread t in the file
  isrun,    \* m_isrun_
  mpc,      \* the thread that calls quit
  raced     \* history: a lookup in m_queues_ has missed an entry

listVars   == <<queues, list, taken, curnode, freed>>
writerVars == <<wpc, at, batch, written>>
vars == <<listVars, made, ppc, sem, writerVars, isrun, mpc, raced>>

Goto(t, to) == ppc' = [ppc EXCEPT ![t] = to]

-----------------------------------------------------------------------------
(* write_log: _get_queue, put_back, sem_post.                                *)
WriteLog(t) ==
  /\ ppc[t] = "idle" /\ mpc = "run" /\ made[t] < MaxLogs[t]
  /\ made' = [made EXCEPT ![t] = @ + 1]
  /\ Goto(t, "find")
  /\ UNCHANGED <<listVars, sem, writerVars, isrun, mpc, raced>>

(* The lookup is not protected: while another thread inserts, it may miss an *)
(* entry that is there.  (The list found is looked up once more, by the same *)
(* unlocked []; a miss of that one, which crashes, is left out.)             *)
Inserting(t) == ppc[t] = "insert"
Find(t) ==
  /\ ppc[t] = "find"
  /\ \/ t \in queues /\ Goto(t, "put")
     \/ t \notin queues /\ Goto(t, "lock")
  /\ UNCHANGED <<listVars, made, sem, writerVars, isrun, mpc, raced>>

FindMisses(t) ==
  /\ ppc[t] = "find" /\ t \in queues /\ \E u \in Threads : Inserting(u)
  /\ Goto(t, "lock") /\ raced' = TRUE
  /\ UNCHANGED <<listVars, made, sem, writerVars, isrun, mpc>>

Lock(t) ==
  /\ ppc[t] = "lock" /\ ~\E u \in Threads : Inserting(u)
  /\ Goto(t, "insert")
  /\ UNCHANGED <<listVars, made, sem, writerVars, isrun, mpc, raced>>

(* A list that is there is replaced, with what it holds.                     *)
Insert(t) ==
  /\ Inserting(t)
  /\ queues' = queues \cup {t}
  /\ list' = [list EXCEPT ![t] = <<>>] /\ taken' = [taken EXCEPT ![t] = FALSE]
  /\ curnode' = [curnode EXCEPT ![t] = 0]
  /\ Goto(t, "put")
  /\ UNCHANGED <<freed, made, sem, writerVars, isrun, mpc, raced>>

(* The first node of a list becomes curnode_ before it becomes header_; any  *)
(* other is linked behind curnode_ first.                                    *)
PutFirst(t) ==
  /\ ppc[t] = "put" /\ curnode[t] = 0
  /\ curnode' = [curnode EXCEPT ![t] = made[t]]
  /\ Goto(t, "header")
  /\ UNCHANGED <<queues, list, taken, freed, made, sem, writerVars, isrun, mpc, raced>>

SetHeader(t) ==
  /\ ppc[t] = "header"
  /\ list' = [list EXCEPT ![t] = <<made[t]>>]
  /\ Goto(t, "post")
  /\ UNCHANGED <<queues, taken, curnode, freed, made, sem, writerVars, isrun, mpc, raced>>

PutNext(t) ==
  /\ ppc[t] = "put" /\ curnode[t] # 0
  /\ list' = [list EXCEPT ![t] = Append(@, made[t])]
  /\ Goto(t, "advance")
  /\ UNCHANGED <<queues, taken, curnode, freed, made, sem, writerVars, isrun, mpc, raced>>

Advance(t) ==
  /\ ppc[t] = "advance"
  /\ curnode' = [curnode EXCEPT ![t] = made[t]]
  /\ Goto(t, "post")
  /\ UNCHANGED <<queues, list, taken, freed, made, sem, writerVars, isrun, mpc, raced>>

\* Mutant: an event is set instead of a count raised.
PostEvent(t) ==
  /\ ppc[t] = "post"
  /\ sem' = 1
  /\ Goto(t, "idle")
  /\ UNCHANGED <<listVars, made, writerVars, isrun, mpc, raced>>
Post(t) ==
  /\ ppc[t] = "post"
  /\ sem' = sem + 1
  /\ Goto(t, "idle")
  /\ UNCHANGED <<listVars, made, writerVars, isrun, mpc, raced>>

-----------------------------------------------------------------------------
(* self_manager_func_ex: get_one_log_ex, then the file.                      *)
Wait ==
  /\ wpc = "wait" /\ sem > 0
  /\ sem' = sem - 1 /\ at' = 0 /\ wpc' = "visit"
  /\ UNCHANGED <<listVars, made, ppc, batch, written, isrun, mpc, raced>>

Ahead == {t \in queues : t > at}
IsNext(t) == t \in Ahead /\ \A u \in Ahead : t <= u

(* get_front: the content of the header is taken once; a header that has a   *)
(* successor is deleted, whether its content was taken now or before.        *)
Fresh(t) == list[t] # <<>> /\ ~taken[t]
\* Mutant: the header is deleted although nothing follows it.
GetFrontFrees(t) ==
  /\ batch' = IF Fresh(t) THEN [batch EXCEPT ![t] = Append(@, Head(list[t]))] ELSE batch
  /\ list' = [list EXCEPT ![t] = IF @ = <<>> THEN @ ELSE Tail(@)]
  /\ freed' = [freed EXCEPT ![t] = IF list[t] = <<>> THEN @ ELSE Head(list[t])]
  /\ UNCHANGED <<queues, taken, curnode>>
\* Mutant: the flag is not set on a header that stays.
GetFrontAgain(t) ==
  /\ batch' = IF Fresh(t) THEN [batch EXCEPT ![t] = Append(@, Head(list[t]))] ELSE batch
  /\ IF Len(list[t]) > 1
     THEN /\ list' = [list EXCEPT ![t] = Tail(@)]
          /\ freed' = [freed EXCEPT ![t] = Head(list[t])]
     ELSE UNCHANGED <<list, freed>>
  /\ UNCHANGED <<queues, taken, curnode>>
GetFront(t) ==
  /\ batch' = IF Fresh(t) THEN [batch EXCEPT ![t] = Append(@, Head(list[t]))] ELSE batch
  /\ IF Len(list[t]) > 1
     THEN /\ list' = [list EXCEPT ![t] = Tail(@)]
          /\ taken' = [taken EXCEPT ![t] = FALSE]
          /\ freed' = [freed EXCEPT ![t] = Head(list[t])]
     ELSE /\ taken' = [taken EXCEPT ![t] = list[t] # <<>>]
          /\ UNCHANGED <<list, freed>>
  /\ UNCHANGED <<queues, curnode>>

Visit(t) ==
  /\ wpc = "visit" /\ IsNext(t)
  /\ GetFront(t)
  /\ at' = t
  /\ UNCHANGED <<made, ppc, sem, wpc, written, isrun, mpc, raced>>

(* The iteration, too, may miss lists while a thread inserts one.            *)
Overlook(t) ==
  /\ wpc = "visit" /\ IsNext(t)
  /\ \E u \in Threads : Inserting(u)
  /\ at' = t /\ raced' = TRUE
  /\ UNCHANGED <<listVars, made, ppc, sem, wpc, batch, written, isrun, mpc>>

NoLogs == [t \in Threads |-> <<>>]
Output ==
  /\ wpc = "visit" /\ Ahead = {}
  /\ written' = [t \in Threads |-> written[t] \o batch[t]] /\ batch' = NoLogs
  /\ wpc' = IF isrun THEN "wait" ELSE "ended"
  /\ UNCHANGED <<listVars, made, ppc, sem, at, isrun, mpc, raced>>

-----------------------------------------------------------------------------
(* quit, called when the threads that log have been joined.                  *)
Quit ==
  /\ mpc = "run" /\ \A t \in Threads : ppc[t] = "idle"
  /\ isrun' = FALSE /\ mpc' = "post"
  /\ UNCHANGED <<listVars, made, ppc, sem, writerVars, raced>>

QuitPosts(n) ==
  /\ mpc = "post" /\ mpc' = "join"
  /\ sem' = sem + n
  /\ UNCHANGED <<listVars, made, ppc, writerVars, isrun, raced>>
\* Mutant: the writer is not woken.
QuitPostForgotten == QuitPosts(0)
QuitPost == QuitPosts(1)

(* The writer is joined and the logger deleted.                              *)
Join ==
  /\ mpc = "join" /\ wpc = "ended"
  /\ mpc' = "deleted"
  /\ UNCHANGED <<listVars, made, ppc, sem, writerVars, isrun, raced>>

-----------------------------------------------------------------------------
Init ==
  /\ queues = {} /\ list = [t \in Threads |-> <<>>]
  /\ taken = [t \in Threads |-> FALSE] /\ curnode = [t \in Threads |-> 0]
  /\ freed = [t \in Threads |-> 0] /\ made = [t \in Threads |-> 0]
  /\ ppc = [t \in Threads |-> "idle"] /\ sem = 0
  /\ wpc = "wait" /\ at = 0 /\ batch = NoLogs /\ written = NoLogs
  /\ isrun = TRUE /\ mpc = "run" /\ raced = FALSE

Logging(t) ==
  \/ Find(t) \/ FindMisses(t) \/ Lock(t) \/ Insert(t)
  \/ PutFirst(t) \/ SetHeader(t) \/ PutNext(t) \/ Advance(t) \/ Post(t)
Writer == Wait \/ (\E t \in Threads : Visit(t)) \/ Output
Closing == QuitPost \/ Join

Next ==
  \/ \E t \in Threads : WriteLog(t) \/ Logging(t) \/ Overlook(t)
  \/ Writer
  \/ Quit \/ Closing

Spec == Init /\ [][Next]_vars

(* Threads are scheduled; nobody is obliged to log or to quit.               *)
Fairness ==
  WF_vars(Writer) /\ WF_vars(Closing) /\ \A t \in Threads : WF_vars(Logging(t))

FairSpec == Spec /\ Fairness

-----------------------------------------------------------------------------
TypeOK ==
  /\ queues \subseteq Threads
  /\ list \in [Threads -> Seq(Nat)] /\ taken \in [Threads -> BOOLEAN]
  /\ curnode \in [Threads -> Nat] /\ freed \in [Threads -> Nat]
  /\ made \in [Threads -> Nat]
  /\ ppc \in [Threads -> {"idle", "find", "lock", "insert", "put", "header", "advance", "post"}]
  /\ sem \in Nat
  /\ wpc \in {"wait", "visit", "ended"} /\ at \in 0..N
  /\ batch \in [Threads -> Seq(Nat)]
  /\ written \in [Threads -> Seq(Nat)]
  /\ isrun \in BOOLEAN /\ mpc \in {"run", "post", "join", "deleted"} /\ raced \in BOOLEAN

(* A thread's logs reach the file in the order it made them, none twice; and *)
(* as long as no lookup has run into an insertion none is missing: what is   *)
(* written, collected and queued are all the logs the thread has put.        *)
Queued(t) == IF taken[t] THEN Tail(list[t]) ELSE list[t]
Trail(t)  == written[t] \o batch[t] \o Queued(t)
InHand(t) == ppc[t] \in {"find", "lock", "insert", "put", "header"}
EachOnce ==
  \A t \in Threads :
    /\ \A i, j \in 1..Len(Trail(t)) : i < j => Trail(t)[i] < Trail(t)[j]
    /\ ~raced => Len(Trail(t)) = made[t] - (IF InHand(t) THEN 1 ELSE 0)

(* The writer deletes nodes of a list another thread appends to: never the   *)
(* one curnode_ points to when put_back links behind it, nor, at the end,    *)
(* when the list's destructor deletes it.                                    *)
TailAlive ==
  \A t \in Threads :
    ppc[t] \in {"idle", "put"} /\ curnode[t] # 0 => curnode[t] > freed[t]

(* The wake-up of a log that follows a written one goes into deleting the    *)
(* written one's node: a list may stay one log behind, but never more than   *)
(* one beyond the wake-ups still to come.                                    *)
ToVisit(t) == IF wpc = "visit" /\ t > at THEN 1 ELSE 0
ToPost(t)  == IF ppc[t] \in {"advance", "post"} THEN 1 ELSE 0
Coming(t)  == sem + ToVisit(t) + ToPost(t)
AtMostOneLate == ~raced => \A t \in Threads : Len(Queued(t)) <= Coming(t) + 1

(* So, races apart, all but the last log of every thread reach the file      *)
(* while the logger runs.                                                    *)
InFile(t, n) == \E i \in DOMAIN written[t] : written[t][i] = n
AllButLastWritten ==
  \A t \in Threads : \A n \in 1..(MaxLogs[t] - 1) :
    made[t] > n ~> InFile(t, n) \/ ~isrun \/ raced

(* quit returns, whatever the writer is doing when it is called.             *)
QuitReturns == mpc = "post" ~> mpc = "deleted"
=============================================================================
