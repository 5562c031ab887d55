-------------------------- MODULE TcpServer_proofs --------------------------
(***************************************************************************)
(* What holds of the TCP server for every pool size, any number of         *)
(* sessions and any requests: the round robin is even, the raw pointer a   *)
(* handler is bound to always points to a live session, replies come in    *)
(* the order of the requests, and a reply that is owed has a handler.      *)
(***************************************************************************)
EXTENDS TcpServer, TLAPS

(* Services before m_next_io_service have been used once more than the rest. *)
Dealt(q) == \A i \in Services : users[i] = IF i < next THEN q + 1 ELSE q
PoolInv ==
  /\ next \in Services /\ users \in [Services -> Nat]
  /\ \E q \in Nat : Dealt(q)

LEMMA PoolSizeNat == PoolSize \in Nat \ {0}
BY TSAssumption DEF PoolSize

LEMMA PoolInit == Init => PoolInv
<1> SUFFICES ASSUME Init PROVE PoolInv
  OBVIOUS
<1>1. Dealt(0)
  BY PoolSizeNat DEF Init, Dealt, Services
<1> QED
  BY <1>1, PoolSizeNat DEF Init, PoolInv, Services

LEMMA RoundRobin == ASSUME PoolInv, GetIoService PROVE PoolInv'
<1> USE PoolSizeNat DEF PoolInv, Services
<1>1. PICK q \in Nat : Dealt(q)
  OBVIOUS
<1>2. next' \in Services /\ users' \in [Services -> Nat]
  BY DEF GetIoService
<1>3. CASE next + 1 = PoolSize
  <2>1. \A i \in Services : users'[i] = q + 1 /\ ~(i < next')
    BY <1>1, <1>3 DEF GetIoService, Dealt
  <2>2. Dealt(q + 1)'
    BY <2>1 DEF Dealt
  <2> QED
    BY <1>2, <2>2
<1>4. CASE next + 1 # PoolSize
  <2>1. Dealt(q)'
    BY <1>1, <1>4 DEF GetIoService, Dealt
  <2> QED
    BY <1>2, <2>1
<1> QED
  BY <1>3, <1>4

LEMMA PoolNext == PoolInv /\ [Next]_vars => PoolInv'
<1> SUFFICES ASSUME PoolInv, [Next]_vars PROVE PoolInv'
  OBVIOUS
<1>1. CASE GetIoService
  BY <1>1, RoundRobin
<1>2. CASE UNCHANGED poolVars
  BY <1>2 DEF poolVars, PoolInv, Dealt
<1>3. GetIoService \/ UNCHANGED poolVars
  <2>1. CASE Construct \/ BindFails \/ HandleAccept \/ AcceptFails
    BY <2>1
    DEF Construct, MakeSignals, MakeAcceptor, StartServer, NewSession, BindFails,
        HandleAccept, AcceptFails
  <2>2. CASE Signal \/ Stop
    BY <2>2 DEF Signal, Stop, StopService, Stopping, JoinThreads
  <2>3. ASSUME NEW s \in Sessions, Session(s) PROVE UNCHANGED poolVars
    BY <2>3
    DEF Session, Handled, ReadFirst, ReadBadLength, ReadFails, ReadSecond, MessageThrows,
        WriteLenDone, WriteDone, WriteFails
  <2>4. ASSUME NEW s \in Sessions, Peer(s) PROVE UNCHANGED poolVars
    BY <2>4 DEF Peer, AskLen, AskBody, Leave
  <2> QED
    BY <2>1, <2>2, <2>3, <2>4 DEF Next, vars
<1> QED
  BY <1>1, <1>2, <1>3

(* The pool deals its services evenly, however many connections come.        *)
THEOREM EvenLoad == Spec => []Balanced
<1>1. PoolInv => Balanced
  <2> SUFFICES ASSUME PoolInv, NEW i \in Services, NEW j \in Services
               PROVE  users[i] <= users[j] + 1
    BY DEF Balanced
  <2>1. PICK q \in Nat : Dealt(q)
    BY DEF PoolInv
  <2> QED
    BY <2>1 DEF Dealt, Services, PoolInv
<1> QED
  BY <1>1, PoolInit, PoolNext, PTL DEF Spec

-----------------------------------------------------------------------------
(* The sessions.  Besides what HandlerOwns and BuffersFreed say, the         *)
(* invariant needs the acceptor's session to be untouched until it accepts:  *)
(* only then does start find a session with no operation and no buffer.      *)
Untouched(s) == Idle(s) /\ ~data[s] /\ result[s] = NoBuf
Fresh ==
  /\ made \in 0..MaxSessions
  /\ process \in {"signals", "acceptor", "bind"} => made = 0
  /\ process = "running" => made > 0
  /\ \A s \in Sessions : s >= made => Untouched(s)
  /\ made > 0 => alive[made] = "alive"
Inboxes ==
  /\ inbox \in [Sessions -> Seq(Parts)]
  /\ sending \in [Sessions -> Requests \cup {NoBuf}]
OwnInv == SessionTypes /\ Inboxes /\ Fresh /\ HandlerOwns /\ BuffersFreed

LEMMA OwnInit == Init => OwnInv
<1> SUFFICES ASSUME Init PROVE OwnInv
  OBVIOUS
<1> USE TSAssumption DEF Init
<1>1. SessionTypes
  BY DEF SessionTypes
<1>2. Inboxes
  BY DEF Inboxes
<1>3. Fresh
  BY DEF Fresh, Untouched, Idle
<1>4. HandlerOwns /\ BuffersFreed
  BY DEF HandlerOwns, Owned, Idle, BuffersFreed, Holds
<1> QED
  BY <1>1, <1>2, <1>3, <1>4 DEF OwnInv

(* What one handler does to its own session.  The sessions it leaves alone   *)
(* keep all of the invariant.                                                *)
LEMMA OneSession ==
  ASSUME OwnInv, SessionTypes', NEW s \in Sessions, s < made,
         UNCHANGED <<process, made>>, Inboxes',
         \A r \in Sessions \ {s} :
           /\ alive'[r] = alive[r] /\ pending'[r] = pending[r] /\ data'[r] = data[r]
           /\ result'[r] = result[r] /\ heap'[r] = heap[r],
         Owned(s)', heap'[s] = Holds(s)'
  PROVE  OwnInv'
<1>1. \A r \in Sessions \ {s} :
        /\ Owned(r) => Owned(r)'
        /\ Untouched(r) => Untouched(r)'
        /\ heap[r] = Holds(r) => heap'[r] = Holds(r)'
  BY DEF Owned, Idle, Only, Untouched, Holds
<1>2. HandlerOwns' /\ BuffersFreed'
  BY <1>1 DEF OwnInv, HandlerOwns, BuffersFreed
<1>3. Fresh'
  BY <1>1 DEF OwnInv, Fresh, Sessions
<1> QED
  BY <1>2, <1>3 DEF OwnInv

(* A handler that runs has its operation for itself.                         *)
LEMMA Running ==
  ASSUME OwnInv, NEW s \in Sessions, NEW k \in Kinds, Handled(s, k)
  PROVE  /\ s < made /\ Only(s, k) /\ alive[s] = "alive"
         /\ k \in {"first", "second"} => data[s] /\ result[s] = NoBuf /\ heap[s] = 1
         /\ k \in {"write_len", "write"} => ~data[s] /\ result[s] # NoBuf /\ heap[s] = 1
<1>1. ~Idle(s)
  BY DEF Handled, Idle
<1>2. s < made
  BY <1>1, TSAssumption DEF OwnInv, Fresh, Untouched, Sessions
<1>3. Owned(s) /\ heap[s] = Holds(s)
  BY DEF OwnInv, HandlerOwns, BuffersFreed
<1> QED
  BY <1>1, <1>2, <1>3 DEF Owned, Holds, Only, Handled, Kinds

(* The two ways a handler goes on.                                           *)
LEMMA GoesOn ==
  ASSUME OwnInv, NEW s \in Sessions, NEW k \in Kinds, NEW k2 \in Kinds, k # k2,
         Only(s, k), Then(s, k, k2)
  PROVE  /\ pending' \in [Sessions -> [Kinds -> Nat]]
         /\ Only(s, k2)' /\ \A r \in Sessions \ {s} : pending'[r] = pending[r]
<1> USE DEF OwnInv, SessionTypes
<1> DEFINE new == [j \in Kinds |-> pending[s][j] - (IF j = k THEN 1 ELSE 0)
                                              + (IF j = k2 THEN 1 ELSE 0)]
<1>1. new \in [Kinds -> Nat] /\ new[k2] = 1 /\ \A j \in Kinds \ {k2} : new[j] = 0
  BY DEF Only
<1>2. pending' = [pending EXCEPT ![s] = new]
  BY DEF Then
<1> QED
  BY <1>1, <1>2 DEF Only

LEMMA GivesUp ==
  ASSUME OwnInv, NEW s \in Sessions, NEW k \in Kinds, Only(s, k), Done(s, k)
  PROVE  /\ pending' \in [Sessions -> [Kinds -> Nat]]
         /\ Idle(s)' /\ \A r \in Sessions \ {s} : pending'[r] = pending[r]
BY DEF OwnInv, SessionTypes, Done, Only, Idle

LEMMA SessionNext ==
  ASSUME OwnInv, NEW s \in Sessions, Session(s)
  PROVE  OwnInv'
<1> USE DEF OwnInv
<1>t. /\ alive \in [Sessions -> {"none", "alive", "deleted"}]
      /\ result \in [Sessions -> Requests \cup {NoBuf}] /\ heap \in [Sessions -> Int]
      /\ data \in [Sessions -> BOOLEAN]
  BY DEF SessionTypes
<1>i. inbox[s] # <<>> =>
        /\ Head(inbox[s]).req \in Requests /\ Head(inbox[s]).req # NoBuf
        /\ Tail(inbox[s]) \in Seq(Parts)
  <2>1. inbox[s] \in Seq(Parts)
    BY DEF Inboxes
  <2>2. inbox[s] # <<>> => Head(inbox[s]) \in Parts /\ Tail(inbox[s]) \in Seq(Parts)
    BY <2>1
  <2>3. \A p \in Parts : p.req \in Requests /\ p.req # NoBuf
    BY TSAssumption DEF Parts
  <2> QED
    BY <2>2, <2>3
<1>r. Read(s) /\ UNCHANGED sending => Inboxes'
  BY <1>i DEF Read, Inboxes, Put
<1>u. UNCHANGED <<inbox, sending>> => Inboxes'
  BY DEF Inboxes
<1>1. CASE ReadFirst(s)
  <2>1. Handled(s, "first") /\ Then(s, "first", "second")
    BY <1>1 DEF ReadFirst
  <2>2. data' = [data EXCEPT ![s] = TRUE] /\ UNCHANGED <<alive, result, heap, process, made>>
    BY <1>1 DEF ReadFirst, Put, Handled
  <2>3. Inboxes'
    BY <1>1, <1>r DEF ReadFirst
  <2>4. /\ s < made /\ Only(s, "first") /\ alive[s] = "alive"
        /\ result[s] = NoBuf /\ heap[s] = 1
    BY <2>1, Running DEF Kinds
  <2>5. /\ pending' \in [Sessions -> [Kinds -> Nat]] /\ Only(s, "second")'
        /\ \A r \in Sessions \ {s} : pending'[r] = pending[r]
    BY <2>1, <2>4, GoesOn DEF Kinds
  <2>6. Owned(s)' /\ heap'[s] = Holds(s)'
    BY <2>2, <2>4, <2>5, <1>t DEF Owned, Holds
  <2>7. SessionTypes'
    BY <2>2, <2>5, <1>t DEF SessionTypes
  <2> QED
    BY <2>2, <2>3, <2>4, <2>5, <2>6, <2>7, <1>t, OneSession
<1>2. CASE ReadBadLength(s) \/ MessageThrows(s) \/ ReadFails(s, "first") \/ ReadFails(s, "second")
  <2>1. PICK k \in {"first", "second"} : Handled(s, k) /\ Done(s, k)
    BY <1>2 DEF ReadBadLength, MessageThrows, ReadFails
  <2>2. /\ data' = [data EXCEPT ![s] = FALSE] /\ alive' = [alive EXCEPT ![s] = "deleted"]
        /\ heap' = [heap EXCEPT ![s] = heap[s] - 1] /\ UNCHANGED <<result, process, made>>
    BY <1>2 DEF ReadBadLength, MessageThrows, ReadFails, Put, Free, DeleteThis, Handled
  <2>3. Inboxes'
    BY <1>2, <1>r, <1>u DEF ReadBadLength, MessageThrows, ReadFails, peerVars
  <2>4. s < made /\ Only(s, k) /\ result[s] = NoBuf /\ heap[s] = 1
    BY <2>1, Running DEF Kinds
  <2>5. /\ pending' \in [Sessions -> [Kinds -> Nat]] /\ Idle(s)'
        /\ \A r \in Sessions \ {s} : pending'[r] = pending[r]
    BY <2>1, <2>4, GivesUp DEF Kinds
  <2>6. Owned(s)' /\ heap'[s] = Holds(s)'
    BY <2>2, <2>4, <2>5, <1>t DEF Owned, Holds
  <2>7. SessionTypes'
    BY <2>2, <2>5, <1>t DEF SessionTypes
  <2> QED
    BY <2>2, <2>3, <2>4, <2>5, <2>6, <2>7, <1>t, OneSession
<1>3. CASE ReadSecond(s)
  <2> DEFINE reply == Head(inbox[s]).req
  <2>1. Handled(s, "second") /\ Then(s, "second", "write_len")
    BY <1>3 DEF ReadSecond
  <2>2. /\ data' = [data EXCEPT ![s] = FALSE] /\ result' = [result EXCEPT ![s] = reply]
        /\ UNCHANGED <<alive, heap, process, made>>
    BY <1>3 DEF ReadSecond, Put, Handled
  <2>3. Inboxes' /\ reply \in Requests /\ reply # NoBuf
    BY <1>3, <1>r, <1>i DEF ReadSecond, Read
  <2>4. s < made /\ Only(s, "second") /\ alive[s] = "alive" /\ heap[s] = 1
    BY <2>1, Running DEF Kinds
  <2>5. /\ pending' \in [Sessions -> [Kinds -> Nat]] /\ Only(s, "write_len")'
        /\ \A r \in Sessions \ {s} : pending'[r] = pending[r]
    BY <2>1, <2>4, GoesOn DEF Kinds
  <2>6. Owned(s)' /\ heap'[s] = Holds(s)'
    BY <2>2, <2>3, <2>4, <2>5, <1>t DEF Owned, Holds
  <2>7. SessionTypes'
    BY <2>2, <2>3, <2>5, <1>t DEF SessionTypes
  <2> QED
    BY <2>2, <2>3, <2>4, <2>5, <2>6, <2>7, <1>t, OneSession
<1>4. CASE WriteLenDone(s)
  <2>1. /\ Handled(s, "write_len") /\ Then(s, "write_len", "write")
        /\ UNCHANGED <<alive, data, result, heap, process, made>>
    BY <1>4 DEF WriteLenDone, Handled
  <2>3. Inboxes'
    BY <1>4, <1>u DEF WriteLenDone, peerVars
  <2>4. /\ s < made /\ Only(s, "write_len") /\ alive[s] = "alive"
        /\ ~data[s] /\ result[s] # NoBuf /\ heap[s] = 1
    BY <2>1, Running DEF Kinds
  <2>5. /\ pending' \in [Sessions -> [Kinds -> Nat]] /\ Only(s, "write")'
        /\ \A r \in Sessions \ {s} : pending'[r] = pending[r]
    BY <2>1, <2>4, GoesOn DEF Kinds
  <2>6. Owned(s)' /\ heap'[s] = Holds(s)'
    BY <2>1, <2>4, <2>5, <1>t DEF Owned, Holds
  <2>7. SessionTypes'
    BY <2>1, <2>5, <1>t DEF SessionTypes
  <2> QED
    BY <2>1, <2>3, <2>4, <2>5, <2>6, <2>7, <1>t, OneSession
<1>5. CASE WriteDone(s)
  <2>1. Handled(s, "write") /\ Then(s, "write", "first")
    BY <1>5 DEF WriteDone
  <2>2. /\ data' = [data EXCEPT ![s] = TRUE] /\ result' = [result EXCEPT ![s] = NoBuf]
        /\ UNCHANGED <<alive, heap, process, made>>
    BY <1>5 DEF WriteDone, Put, Handled
  <2>3. Inboxes'
    BY <1>5, <1>u DEF WriteDone
  <2>4. s < made /\ Only(s, "write") /\ alive[s] = "alive" /\ heap[s] = 1
    BY <2>1, Running DEF Kinds
  <2>5. /\ pending' \in [Sessions -> [Kinds -> Nat]] /\ Only(s, "first")'
        /\ \A r \in Sessions \ {s} : pending'[r] = pending[r]
    BY <2>1, <2>4, GoesOn DEF Kinds
  <2>6. Owned(s)' /\ heap'[s] = Holds(s)'
    BY <2>2, <2>4, <2>5, <1>t DEF Owned, Holds
  <2>7. SessionTypes'
    BY <2>2, <2>5, <1>t DEF SessionTypes
  <2> QED
    BY <2>2, <2>3, <2>4, <2>5, <2>6, <2>7, <1>t, OneSession
<1>6. CASE WriteFails(s)
  <2>1. Handled(s, "write") /\ Done(s, "write")
    BY <1>6 DEF WriteFails
  <2>2. /\ result' = [result EXCEPT ![s] = NoBuf] /\ alive' = [alive EXCEPT ![s] = "deleted"]
        /\ heap' = [heap EXCEPT ![s] = heap[s] - 1] /\ UNCHANGED <<data, process, made>>
    BY <1>6 DEF WriteFails, Put, Free, DeleteThis, Handled
  <2>3. Inboxes'
    BY <1>6, <1>u DEF WriteFails, peerVars
  <2>4. s < made /\ Only(s, "write") /\ ~data[s] /\ heap[s] = 1
    BY <2>1, Running DEF Kinds
  <2>5. /\ pending' \in [Sessions -> [Kinds -> Nat]] /\ Idle(s)'
        /\ \A r \in Sessions \ {s} : pending'[r] = pending[r]
    BY <2>1, <2>4, GivesUp DEF Kinds
  <2>6. Owned(s)' /\ heap'[s] = Holds(s)'
    BY <2>2, <2>4, <2>5, <1>t DEF Owned, Holds
  <2>7. SessionTypes'
    BY <2>2, <2>5, <1>t DEF SessionTypes
  <2> QED
    BY <2>2, <2>3, <2>4, <2>5, <2>6, <2>7, <1>t, OneSession
<1> QED
  BY <1>1, <1>2, <1>3, <1>4, <1>5, <1>6 DEF Session
LEMMA OwnNext == OwnInv /\ [Next]_vars => OwnInv'
<1> SUFFICES ASSUME OwnInv, [Next]_vars PROVE OwnInv'
  OBVIOUS
<1>s. ASSUME UNCHANGED <<sessVars, made, inbox, sending>>, Fresh' PROVE OwnInv'
  BY <1>s DEF OwnInv, sessVars, SessionTypes, Inboxes, HandlerOwns, Owned, Idle, Only,
              BuffersFreed, Holds
<1>f. ASSUME UNCHANGED sessVars, UNCHANGED made,
             process' = process \/ (made = 0 /\ process' # "running")
                                \/ process' \in {"aborted", "ended"}
      PROVE  Fresh'
  BY <1>f DEF OwnInv, Fresh, sessVars, Untouched, Idle
<1>1. CASE MakeSignals \/ MakeAcceptor \/ BindFails \/ Signal \/ Stop
  <2>1. UNCHANGED <<sessVars, made, inbox, sending>>
    BY <1>1
    DEF MakeSignals, MakeAcceptor, BindFails, Signal, Stop, StopService, Stopping,
        JoinThreads, peerVars
  <2>2. process' = process \/ (made = 0 /\ process' # "running")
                           \/ process' \in {"aborted", "ended"}
    <3>1. CASE MakeSignals \/ MakeAcceptor
      BY <3>1 DEF OwnInv, Fresh, MakeSignals, MakeAcceptor
    <3>2. CASE BindFails \/ JoinThreads
      BY <3>2 DEF BindFails, JoinThreads
    <3>3. CASE Signal
      BY <3>3 DEF Signal
    <3>4. CASE StopService
      BY <3>4 DEF StopService, Stopping
    <3> QED
      BY <1>1, <3>1, <3>2, <3>3, <3>4 DEF Stop
  <2> QED
    BY <2>1, <2>2, <1>s, <1>f
<1>2. CASE StartServer
  <2>1. made = 0 /\ made' = 1 /\ 1 \in Sessions /\ process' = "running"
    BY <1>2, TSAssumption DEF StartServer, NewSession, OwnInv, Fresh, Sessions
  <2>2. /\ alive' = [alive EXCEPT ![1] = "alive"]
        /\ UNCHANGED <<pending, data, result, heap, inbox, sending>>
    BY <1>2, <2>1 DEF StartServer, Put, peerVars
  <2>3. SessionTypes' /\ Inboxes'
    BY <2>2 DEF OwnInv, SessionTypes, Inboxes
  <2>4. \A s \in Sessions : Untouched(s)
    BY <2>1, TSAssumption DEF OwnInv, Fresh, Sessions
  <2>5. Fresh'
    BY <2>1, <2>2, <2>4, TSAssumption DEF OwnInv, SessionTypes, Fresh, Untouched, Idle, Sessions
  <2>6. HandlerOwns' /\ BuffersFreed'
    BY <2>2, <2>4
    DEF OwnInv, HandlerOwns, Owned, Untouched, Idle, BuffersFreed, Holds
  <2> QED
    BY <2>3, <2>5, <2>6 DEF OwnInv
<1>3. CASE HandleAccept
  <2>1. PICK m \in Sessions : m = made /\ m + 1 \in Sessions /\ made' = m + 1
    BY <1>3, TSAssumption DEF HandleAccept, Runs, NewSession, OwnInv, Fresh, Sessions
  <2> DEFINE new == [pending[m] EXCEPT !["first"] = pending[m]["first"] + 1]
  <2>2. /\ alive' = [alive EXCEPT ![m + 1] = "alive"] /\ pending' = [pending EXCEPT ![m] = new]
        /\ data' = [data EXCEPT ![m] = TRUE] /\ heap' = [heap EXCEPT ![m] = heap[m] + 1]
        /\ UNCHANGED <<process, result, inbox, sending>>
    BY <1>3, <2>1 DEF HandleAccept, Started, Put, NewSession
  <2>3. Untouched(m) /\ Untouched(m + 1) /\ alive[m] = "alive" /\ heap[m] = 0 /\ heap[m + 1] = 0
    BY <2>1 DEF OwnInv, Fresh, BuffersFreed, Holds, Untouched, Sessions
  <2>n. new \in [Kinds -> Nat] /\ new["first"] = 1 /\ \A k \in Kinds \ {"first"} : new[k] = 0
    BY <2>3 DEF OwnInv, SessionTypes, Untouched, Idle, Kinds
  <2> HIDE DEF new
  <2>4. SessionTypes' /\ Inboxes'
    BY <2>1, <2>2, <2>n DEF OwnInv, SessionTypes, Inboxes
  <2>5. /\ Only(m, "first")' /\ data'[m] /\ heap'[m] = 1 /\ alive'[m] = "alive"
        /\ result'[m] = NoBuf
    BY <2>1, <2>2, <2>3, <2>n DEF OwnInv, SessionTypes, Only, Sessions, Untouched
  <2>6. \A s \in Sessions \ {m} :
          /\ pending'[s] = pending[s] /\ data'[s] = data[s] /\ heap'[s] = heap[s]
          /\ result'[s] = result[s]
          /\ Untouched(s) => Untouched(s)'
    BY <2>2 DEF OwnInv, SessionTypes, Untouched, Idle
  <2>7. Fresh'
    BY <2>1, <2>2, <2>6 DEF OwnInv, SessionTypes, Fresh, Sessions
  <2>8. \A s \in Sessions \ {m, m + 1} : Owned(s)' /\ heap'[s] = Holds(s)'
    BY <2>2, <2>6
    DEF OwnInv, SessionTypes, HandlerOwns, Owned, Only, Idle, BuffersFreed, Holds
  <2>9. Owned(m)' /\ heap'[m] = Holds(m)'
    BY <2>5 DEF Owned, Holds
  <2>10. Owned(m + 1)' /\ heap'[m + 1] = Holds(m + 1)'
    <3>1. Untouched(m + 1)' /\ heap'[m + 1] = 0
      BY <2>1, <2>3, <2>6 DEF Sessions
    <3> QED
      BY <3>1 DEF Owned, Holds, Untouched
  <2> QED
    BY <2>4, <2>7, <2>8, <2>9, <2>10 DEF OwnInv, HandlerOwns, BuffersFreed
<1>4. CASE AcceptFails
  <2>1. made > 0 /\ made \in Sessions /\ made + 1 \in Sessions /\ made' = made + 1
    BY <1>4, TSAssumption DEF AcceptFails, Runs, NewSession, OwnInv, Fresh, Sessions
  <2>2. /\ alive' = [alive EXCEPT ![made + 1] = "alive"]
        /\ UNCHANGED <<process, pending, data, result, heap, inbox, sending>>
    BY <1>4, <2>1 DEF AcceptFails, Put, peerVars
  <2>3. SessionTypes' /\ Inboxes' /\ Untouched(made + 1)
    BY <2>1, <2>2 DEF OwnInv, SessionTypes, Inboxes, Fresh, Sessions
  <2>4. Fresh'
    BY <2>1, <2>2 DEF OwnInv, SessionTypes, Fresh, Untouched, Idle, Sessions
  <2>5. HandlerOwns' /\ BuffersFreed'
    BY <2>2, <2>3
    DEF OwnInv, SessionTypes, HandlerOwns, Owned, Only, Untouched, Idle, BuffersFreed, Holds
  <2> QED
    BY <2>3, <2>4, <2>5 DEF OwnInv
<1>5. ASSUME NEW s \in Sessions, Session(s) PROVE OwnInv'
  BY <1>5, SessionNext
<1>6. ASSUME NEW s \in Sessions, Peer(s) PROVE OwnInv'
  <2>1. UNCHANGED <<process, made, sessVars>>
    BY <1>6 DEF Peer, AskLen, AskBody, Leave
  <2>2. Inboxes'
    <3>1. CASE AskLen(s)
      <4>1. PICK r \in Requests : sending' = Put(sending, s, r) /\ Send(s, "len", r)
        BY <3>1 DEF AskLen
      <4>2. [part |-> "len", req |-> r] \in Parts
        BY DEF Parts
      <4> QED
        BY <4>1, <4>2 DEF OwnInv, Inboxes, Send, Put
    <3>2. CASE AskBody(s)
      <4>1. sending[s] \in Requests
        BY <3>2 DEF AskBody, OwnInv, Inboxes
      <4>2. [part |-> "body", req |-> sending[s]] \in Parts
        BY <4>1 DEF Parts
      <4> QED
        BY <3>2, <4>2 DEF AskBody, OwnInv, Inboxes, Send, Put
    <3>3. CASE Leave(s)
      BY <3>3 DEF Leave, OwnInv, Inboxes
    <3> QED
      BY <1>6, <3>1, <3>2, <3>3 DEF Peer
  <2> QED
    BY <2>1, <2>2
    DEF OwnInv, sessVars, SessionTypes, Fresh, Untouched, Idle, HandlerOwns, Owned,
        Only, BuffersFreed, Holds
<1>7. CASE UNCHANGED vars
  <2>1. UNCHANGED <<sessVars, made, inbox, sending>> /\ process' = process
    BY <1>7 DEF vars, peerVars
  <2>2. UNCHANGED sessVars /\ UNCHANGED made
    BY <2>1
  <2>3. Fresh'
    BY <2>1, <2>2, <1>f
  <2> QED
    BY <2>1, <2>3, <1>s
<1> QED
  BY <1>1, <1>2, <1>3, <1>4, <1>5, <1>6, <1>7 DEF Next, Construct

LEMMA OwnAlways == Spec => []OwnInv
BY OwnInit, OwnNext, PTL DEF Spec

(* No handler runs on a deleted session, none has a second operation under   *)
(* way, and nothing is left for the destructor's mismatched delete.          *)
THEOREM HandlersOwn == Spec => []HandlerOwns
BY OwnAlways, PTL DEF OwnInv

(* On every path through the handlers each buffer is freed exactly once.     *)
THEOREM NothingLeaks == Spec => []BuffersFreed
BY OwnAlways, PTL DEF OwnInv

-----------------------------------------------------------------------------
(* The remaining types.                                                      *)
RestTypes ==
  /\ process \in {"signals", "acceptor", "bind", "running", "aborted", "ended"}
  /\ svc \in [Sessions -> Services]
  /\ stops \in 0..PoolSize /\ stopping \in BOOLEAN
  /\ peer \in [Sessions -> BOOLEAN]
  /\ asked \in [Sessions -> Seq(Requests)] /\ answered \in [Sessions -> Seq(Requests)]

LEMMA RestInit == Init => RestTypes
<1> SUFFICES ASSUME Init PROVE RestTypes
  OBVIOUS
<1>1. svc \in [Sessions -> Services] /\ stops \in 0..PoolSize
  BY PoolSizeNat DEF Init, Services
<1>2. asked \in [Sessions -> Seq(Requests)] /\ answered \in [Sessions -> Seq(Requests)]
  BY DEF Init
<1>3. peer \in [Sessions -> BOOLEAN] /\ stopping \in BOOLEAN
  BY DEF Init
<1> QED
  BY <1>1, <1>2, <1>3 DEF Init, RestTypes

LEMMA RestNext == PoolInv /\ OwnInv /\ RestTypes /\ [Next]_vars => RestTypes'
<1> SUFFICES ASSUME PoolInv, OwnInv, RestTypes, [Next]_vars PROVE RestTypes'
  OBVIOUS
<1> USE PoolSizeNat DEF RestTypes
<1>n. NewSession => svc' \in [Sessions -> Services]
  BY DEF NewSession, Put, PoolInv
<1>1. CASE Construct \/ BindFails
  BY <1>1, <1>n DEF Construct, MakeSignals, MakeAcceptor, StartServer, BindFails, stopVars,
                    peerVars, sessVars
<1>2. CASE HandleAccept \/ AcceptFails
  BY <1>2, <1>n DEF HandleAccept, AcceptFails, stopVars, peerVars, Put
<1>3. CASE Signal \/ Stop
  <2>1. UNCHANGED <<svc, peer, asked, answered>>
    BY <1>3 DEF Signal, Stop, StopService, Stopping, JoinThreads, peerVars, sessVars
  <2>2. CASE Signal \/ JoinThreads
    BY <2>1, <2>2 DEF Signal, JoinThreads, stopVars
  <2>3. CASE StopService
    <3>1. process' = process /\ stops' \in 0..PoolSize
      BY <2>3 DEF StopService, Stopping
    <3>2. stopping' \in BOOLEAN
      BY <2>3 DEF StopService, Stopping
    <3> QED
      BY <2>1, <3>1, <3>2
  <2> QED
    BY <1>3, <2>2, <2>3 DEF Stop
<1>4. ASSUME NEW s \in Sessions, Session(s) PROVE RestTypes'
  <2>1. UNCHANGED <<process, stops, stopping, svc, peer, asked>>
    BY <1>4 DEF Session, Handled, ReadFirst, ReadBadLength, ReadFails, ReadSecond, MessageThrows,
                WriteLenDone, WriteDone, WriteFails, stopVars, peerVars
  <2>2. answered' \in [Sessions -> Seq(Requests)]
    <3>1. CASE WriteDone(s)
      <4>1. Handled(s, "write") /\ Replied(s)
        BY <3>1 DEF WriteDone
      <4>2. result[s] \in Requests
        BY <4>1, Running DEF Kinds, OwnInv, SessionTypes
      <4> QED
        BY <4>1, <4>2 DEF Replied, Put
    <3>2. CASE UNCHANGED answered
      BY <3>2
    <3> QED
      BY <1>4, <3>1, <3>2 DEF Session, ReadFirst, ReadBadLength, ReadFails, ReadSecond,
                              MessageThrows, WriteLenDone, WriteFails, peerVars
  <2> QED
    BY <2>1, <2>2
<1>5. ASSUME NEW s \in Sessions, Peer(s) PROVE RestTypes'
  <2>1. UNCHANGED <<process, stops, stopping, svc, answered>>
    BY <1>5 DEF Peer, AskLen, AskBody, Leave, stopVars, sessVars
  <2>2. AskBody(s) => sending[s] \in Requests
    BY DEF AskBody, OwnInv, Inboxes
  <2>3. peer' \in [Sessions -> BOOLEAN] /\ asked' \in [Sessions -> Seq(Requests)]
    <3>1. CASE AskLen(s) \/ Leave(s)
      BY <3>1 DEF AskLen, Leave, Put
    <3>2. CASE AskBody(s)
      <4>1. Append(asked[s], sending[s]) \in Seq(Requests)
        BY <2>2, <3>2
      <4> QED
        BY <3>2, <4>1 DEF AskBody, Put
    <3> QED
      BY <1>5, <3>1, <3>2 DEF Peer
  <2> QED
    BY <2>1, <2>3
<1>6. CASE UNCHANGED vars
  BY <1>6 DEF vars, stopVars, sessVars, peerVars
<1> QED
  BY <1>1, <1>2, <1>3, <1>4, <1>5, <1>6 DEF Next

LEMMA AllInv == Spec => [](PoolInv /\ OwnInv /\ RestTypes)
<1>1. Init => PoolInv /\ OwnInv /\ RestTypes
  BY PoolInit, OwnInit, RestInit
<1>2. PoolInv /\ OwnInv /\ RestTypes /\ [Next]_vars => (PoolInv /\ OwnInv /\ RestTypes)'
  BY PoolNext, OwnNext, RestNext
<1> QED
  BY <1>1, <1>2, PTL DEF Spec

(* The types of all variables.                                               *)
THEOREM TypeCorrect == Spec => []TypeOK
<1>1. PoolInv /\ OwnInv /\ RestTypes => TypeOK
  BY DEF PoolInv, OwnInv, RestTypes, TypeOK, PoolTypes, PeerTypes, Fresh, Inboxes
<1> QED
  BY <1>1, AllInv, PTL

-----------------------------------------------------------------------------
(* The order of the replies.  Count what a peer writes: its i-th request is  *)
(* piece 2i-1, the length, and piece 2i, the body.  What is in the inbox are *)
(* the pieces from the (t+1)-th on, t being those the session has taken.     *)
Nth(ask, send, i) == IF i <= Len(ask) THEN ask[i] ELSE send
Stream(in, ask, send, t) ==
  /\ 2 * Len(ask) + (IF send = NoBuf THEN 0 ELSE 1) = t + Len(in)
  /\ \A j \in 1..Len(in), i \in Nat :
       t + j = 2 * i - 1 \/ t + j = 2 * i => in[j].req = Nth(ask, send, i)

LEMMA TakePiece ==
  ASSUME NEW in \in Seq(Parts), NEW ask \in Seq(Requests), NEW send, NEW t \in Nat,
         Stream(in, ask, send, t), in # <<>>
  PROVE  /\ Stream(Tail(in), ask, send, t + 1)
         /\ \A i \in Nat : t + 1 = 2 * i => i <= Len(ask) /\ Head(in).req = ask[i]
<1>1. Len(in) \in Nat \ {0} /\ Len(Tail(in)) = Len(in) - 1 /\ Head(in) = in[1]
  OBVIOUS
<1>2. \A j \in 1..Len(Tail(in)) : Tail(in)[j] = in[j + 1] /\ j + 1 \in 1..Len(in)
  OBVIOUS
<1>3. Stream(Tail(in), ask, send, t + 1)
  BY <1>1, <1>2 DEF Stream
<1>4. ASSUME NEW i \in Nat, t + 1 = 2 * i PROVE i <= Len(ask) /\ Head(in).req = ask[i]
  BY <1>1, <1>4 DEF Stream, Nth
<1> QED
  BY <1>3, <1>4

LEMMA PutPiece ==
  ASSUME NEW in \in Seq(Parts), NEW ask \in Seq(Requests), NEW t \in Nat, NEW r \in Requests,
         NEW p \in Parts, p.req = r
  PROVE  /\ Stream(in, ask, NoBuf, t) => Stream(Append(in, p), ask, r, t)
         /\ Stream(in, ask, r, t) => Stream(Append(in, p), Append(ask, r), NoBuf, t)
<1> USE TSAssumption
<1>1. /\ Len(Append(in, p)) = Len(in) + 1 /\ Append(in, p)[Len(in) + 1] = p
      /\ \A j \in 1..Len(in) : Append(in, p)[j] = in[j]
  OBVIOUS
<1>2. /\ Len(Append(ask, r)) = Len(ask) + 1 /\ Append(ask, r)[Len(ask) + 1] = r
      /\ \A i \in 1..Len(ask) : Append(ask, r)[i] = ask[i]
  OBVIOUS
<1>3. ASSUME Stream(in, ask, NoBuf, t) PROVE Stream(Append(in, p), ask, r, t)
  <2> DEFINE new == Append(in, p)
  <2>1. 2 * Len(ask) = t + Len(in) /\ r # NoBuf
    BY <1>3 DEF Stream
  <2>2. ASSUME NEW j \in 1..Len(new), NEW i \in Nat, t + j = 2 * i - 1 \/ t + j = 2 * i
        PROVE  new[j].req = Nth(ask, r, i)
    <3>1. CASE j \in 1..Len(in)
      <4>1. in[j].req = Nth(ask, NoBuf, i) /\ i <= Len(ask)
        BY <1>3, <2>1, <2>2, <3>1 DEF Stream
      <4> QED
        BY <1>1, <3>1, <4>1 DEF Nth
    <3>2. CASE j = Len(in) + 1
      <4>1. i = Len(ask) + 1
        BY <2>1, <2>2, <3>2
      <4> QED
        BY <1>1, <3>2, <4>1 DEF Nth
    <3> QED
      BY <1>1, <3>1, <3>2
  <2>3. 2 * Len(ask) + 1 = t + Len(new)
    BY <1>1, <2>1
  <2>4. Stream(new, ask, r, t)
    <3> HIDE DEF new
    <3> QED
      BY <2>1, <2>2, <2>3 DEF Stream
  <2> QED
    BY <2>4
<1>4. ASSUME Stream(in, ask, r, t) PROVE Stream(Append(in, p), Append(ask, r), NoBuf, t)
  <2> DEFINE new == Append(in, p)
             all == Append(ask, r)
  <2>1. 2 * Len(ask) + 1 = t + Len(in) /\ r # NoBuf
    BY <1>4 DEF Stream
  <2>2. ASSUME NEW j \in 1..Len(new), NEW i \in Nat, t + j = 2 * i - 1 \/ t + j = 2 * i
        PROVE  new[j].req = Nth(all, NoBuf, i)
    <3>1. i <= Len(all) /\ i >= 1
      BY <1>1, <1>2, <2>1, <2>2
    <3>2. CASE j \in 1..Len(in)
      <4>1. in[j].req = Nth(ask, r, i)
        BY <1>4, <2>2, <3>2 DEF Stream
      <4>2. Nth(ask, r, i) = all[i]
        BY <1>2, <3>1 DEF Nth
      <4> QED
        BY <1>1, <3>1, <3>2, <4>1, <4>2 DEF Nth
    <3>3. CASE j = Len(in) + 1
      <4>1. i = Len(ask) + 1
        BY <2>1, <2>2, <3>3
      <4> QED
        BY <1>1, <1>2, <3>1, <3>3, <4>1 DEF Nth
    <3> QED
      BY <1>1, <3>2, <3>3
  <2> QED
    BY SMTT(30), <1>1, <1>2, <2>1, <2>2 DEF Stream
<1> QED
  BY <1>3, <1>4

Taken(s) == 2 * Len(answered[s]) + (IF Only(s, "second") THEN 1 ELSE
                                    IF Only(s, "write_len") \/ Only(s, "write") THEN 2 ELSE 0)
InStep(s) ==
  peer[s] /\ alive[s] = "alive" =>
    /\ Stream(inbox[s], asked[s], sending[s], Taken(s))
    /\ Only(s, "write_len") \/ Only(s, "write") =>
         /\ Len(answered[s]) < Len(asked[s])
         /\ result[s] = asked[s][Len(answered[s]) + 1]
Strangers ==
  \A s \in Sessions : s >= made =>
    /\ ~peer[s] /\ inbox[s] = <<>> /\ sending[s] = NoBuf
    /\ asked[s] = <<>> /\ answered[s] = <<>>
OrderInv == Strangers /\ \A s \in Sessions : InStep(s)
LEMMA OrderInit == Init => OrderInv
BY DEF Init, OrderInv, Strangers, InStep

(* A handler takes pieces in step with what it answers.                      *)
LEMMA OrderSession ==
  ASSUME OwnInv, RestTypes, OrderInv, NEW s \in Sessions, Session(s)
  PROVE  OrderInv'
<1>t. /\ inbox \in [Sessions -> Seq(Parts)] /\ alive \in [Sessions -> {"none", "alive", "deleted"}]
      /\ pending \in [Sessions -> [Kinds -> Nat]] /\ result \in [Sessions -> Requests \cup {NoBuf}]
      /\ asked \in [Sessions -> Seq(Requests)] /\ answered \in [Sessions -> Seq(Requests)]
  BY DEF OwnInv, SessionTypes, Inboxes, RestTypes
<1>1. UNCHANGED <<made, peer, sending, asked>>
  BY DEF Session, Handled, ReadFirst, ReadBadLength, ReadFails, ReadSecond, MessageThrows,
         WriteLenDone, WriteDone, WriteFails, peerVars
<1>2. PICK k \in Kinds : Handled(s, k)
  BY DEF Session, ReadFirst, ReadBadLength, ReadFails, ReadSecond, MessageThrows,
         WriteLenDone, WriteDone, WriteFails, Kinds
<1>3. s < made /\ Only(s, k) /\ alive[s] = "alive"
  BY <1>2, Running
<1>4. ASSUME NEW r \in Sessions, r # s
      PROVE  /\ inbox'[r] = inbox[r] /\ answered'[r] = answered[r]
             /\ alive'[r] = alive[r] /\ pending'[r] = pending[r] /\ result'[r] = result[r]
  <2>1. CASE ReadFirst(s) \/ ReadSecond(s)
    BY <1>t, <1>4, <2>1 DEF ReadFirst, ReadSecond, Read, Then, Put
  <2>2. CASE ReadBadLength(s) \/ MessageThrows(s) \/ ReadFails(s, "first") \/ ReadFails(s, "second")
    BY <1>t, <1>4, <2>2 DEF ReadBadLength, MessageThrows, ReadFails, Read, Done, DeleteThis, Put,
                            peerVars
  <2>3. CASE WriteLenDone(s) \/ WriteFails(s)
    BY <1>t, <1>4, <2>3 DEF WriteLenDone, WriteFails, Then, Done, DeleteThis, Put, peerVars
  <2>4. CASE WriteDone(s)
    BY <1>t, <1>4, <2>4 DEF WriteDone, Replied, Then, Put
  <2> QED
    BY <2>1, <2>2, <2>3, <2>4 DEF Session
<1>5. Strangers'
  <2> SUFFICES ASSUME NEW r \in Sessions, r >= made
               PROVE  /\ ~peer[r] /\ inbox'[r] = <<>> /\ sending[r] = NoBuf
                      /\ asked[r] = <<>> /\ answered'[r] = <<>>
    BY <1>1 DEF Strangers
  <2>1. r # s
    BY <1>3, TSAssumption DEF Sessions, OwnInv, Fresh
  <2> QED
    BY <1>4, <2>1 DEF OrderInv, Strangers
<1>6. ASSUME NEW r \in Sessions, r # s PROVE InStep(r)'
  <2>1. \A j \in Kinds : Only(r, j)' <=> Only(r, j)
    BY <1>4, <1>6 DEF Only
  <2>2. Taken(r)' = Taken(r)
    BY <1>4, <1>6, <2>1 DEF Taken, Kinds
  <2> QED
    BY <1>1, <1>4, <1>6, <2>1, <2>2 DEF OrderInv, InStep, Kinds
<1>7. InStep(s)'
  <2> SUFFICES ASSUME peer[s], alive'[s] = "alive" PROVE InStep(s)'
    BY <1>1 DEF InStep
  <2> DEFINE n == Len(answered[s])
  <2>1. Stream(inbox[s], asked[s], sending[s], Taken(s))
    BY <1>3 DEF OrderInv, InStep
  <2>2. n \in Nat /\ inbox[s] \in Seq(Parts) /\ asked[s] \in Seq(Requests)
    BY <1>t
  <2>3. CASE ReadFirst(s)
    <3>1. Handled(s, "first") /\ Then(s, "first", "second")
      BY <2>3 DEF ReadFirst
    <3>2. Only(s, "first") /\ Only(s, "second")'
      BY <3>1, Running, GoesOn DEF Kinds
    <3>3. inbox[s] # <<>> /\ inbox'[s] = Tail(inbox[s]) /\ answered' = answered
      BY <1>t, <2>3 DEF ReadFirst, Read, Put
    <3>a. /\ pending[s]["second"] = 0 /\ pending[s]["write_len"] = 0
          /\ pending[s]["write"] = 0
      BY <3>2 DEF Only, Kinds
    <3>b. Taken(s) = 2 * n
      BY <2>2, <3>a DEF Taken, Only
    <3>c. Taken(s)' = 2 * n + 1
      BY <2>2, <3>2, <3>3 DEF Taken
    <3>4. Taken(s) = 2 * n /\ Taken(s)' = 2 * n + 1
      BY <3>b, <3>c
    <3>5. Stream(inbox'[s], asked[s], sending[s], 2 * n + 1)
      BY <2>1, <2>2, <3>3, <3>4, TakePiece
    <3> QED
      BY <1>1, <3>2, <3>4, <3>5 DEF InStep, Only, Kinds
  <2>4. CASE ReadSecond(s)
    <3>1. Handled(s, "second") /\ Then(s, "second", "write_len")
      BY <2>4 DEF ReadSecond
    <3>2. Only(s, "second") /\ Only(s, "write_len")'
      BY <3>1, Running, GoesOn DEF Kinds
    <3>3. /\ inbox[s] # <<>> /\ inbox'[s] = Tail(inbox[s]) /\ answered' = answered
          /\ result'[s] = Head(inbox[s]).req
      BY <1>t, <2>4 DEF ReadSecond, Read, Put
    <3>4. Taken(s) = 2 * n + 1 /\ Taken(s)' = 2 * n + 2
      BY <3>2, <3>3 DEF Taken, Only, Kinds
    <3>5. Stream(inbox'[s], asked[s], sending[s], 2 * n + 1 + 1)
      BY <2>1, <2>2, <3>3, <3>4, TakePiece
    <3>6. \A i \in Nat : 2 * n + 1 + 1 = 2 * i => i <= Len(asked[s]) /\ result'[s] = asked[s][i]
      BY <2>1, <2>2, <3>3, <3>4, TakePiece
    <3>7. n + 1 <= Len(asked[s]) /\ result'[s] = asked[s][n + 1]
      BY <2>2, <3>6
    <3> QED
      BY <1>1, <2>2, <3>2, <3>3, <3>4, <3>5, <3>7 DEF InStep
  <2>5. CASE WriteLenDone(s)
    <3>1. Handled(s, "write_len") /\ Then(s, "write_len", "write")
      BY <2>5 DEF WriteLenDone
    <3>2. Only(s, "write_len") /\ Only(s, "write")'
      BY <3>1, Running, GoesOn DEF Kinds
    <3>3. UNCHANGED <<inbox, answered, result>>
      BY <2>5 DEF WriteLenDone, peerVars
    <3>4. Taken(s)' = Taken(s)
      BY <3>2, <3>3 DEF Taken, Only, Kinds
    <3> QED
      BY <1>1, <1>3, <2>1, <3>2, <3>3, <3>4 DEF OrderInv, InStep
  <2>6. CASE WriteDone(s)
    <3>1. Handled(s, "write") /\ Then(s, "write", "first")
      BY <2>6 DEF WriteDone
    <3>2. Only(s, "write") /\ Only(s, "first")'
      BY <3>1, Running, GoesOn DEF Kinds
    <3>3. inbox' = inbox /\ Len(answered'[s]) = n + 1
      BY <1>t, <2>2, <2>6 DEF WriteDone, Replied, Put
    <3>4. Taken(s) = 2 * n + 2
      BY <2>2, <3>2 DEF Taken, Only, Kinds
    <3>a. /\ pending'[s]["second"] = 0 /\ pending'[s]["write_len"] = 0
          /\ pending'[s]["write"] = 0
      BY <3>2 DEF Only, Kinds
    <3>5. Taken(s)' = 2 * (n + 1)
      BY <2>2, <3>3, <3>a DEF Taken, Only
    <3>6. Taken(s)' = Taken(s)
      BY <2>2, <3>4, <3>5
    <3> QED
      BY <1>1, <2>1, <3>2, <3>3, <3>6 DEF InStep, Only, Kinds
  <2>7. CASE ReadBadLength(s) \/ MessageThrows(s) \/ ReadFails(s, "first") \/ ReadFails(s, "second")
             \/ WriteFails(s)
    BY <1>t, <2>7 DEF ReadBadLength, MessageThrows, ReadFails, WriteFails, DeleteThis, Put
  <2> QED
    BY <2>3, <2>4, <2>5, <2>6, <2>7 DEF Session
<1> QED
  BY <1>5, <1>6, <1>7 DEF OrderInv

LEMMA OrderNext == OwnInv /\ RestTypes /\ OrderInv /\ [Next]_vars => OrderInv'
<1> SUFFICES ASSUME OwnInv, RestTypes, OrderInv, [Next]_vars PROVE OrderInv'
  OBVIOUS
<1>t. /\ inbox \in [Sessions -> Seq(Parts)] /\ sending \in [Sessions -> Requests \cup {NoBuf}]
      /\ asked \in [Sessions -> Seq(Requests)] /\ answered \in [Sessions -> Seq(Requests)]
      /\ peer \in [Sessions -> BOOLEAN] /\ pending \in [Sessions -> [Kinds -> Nat]]
      /\ alive \in [Sessions -> {"none", "alive", "deleted"}] /\ made \in 0..MaxSessions
  BY DEF OwnInv, SessionTypes, Inboxes, RestTypes, Fresh
<1>m. MaxSessions \in Nat
  BY TSAssumption
<1>a. ASSUME UNCHANGED <<pending, result, peerVars>>, made' \in {made, made + 1},
             \A r \in Sessions : r <= made => alive'[r] = alive[r]
      PROVE  OrderInv'
  <2>0. UNCHANGED <<inbox, sending, peer, asked, answered>>
    BY <1>a DEF peerVars
  <2>1. Strangers'
    <3>1. \A r \in Sessions : r >= made' => r >= made
      BY <1>a, <1>t, <1>m DEF Sessions
    <3> QED
      BY <2>0, <3>1 DEF OrderInv, Strangers
  <2>2. ASSUME NEW r \in Sessions PROVE InStep(r)'
    <3>1. CASE r >= made
      BY <2>0, <3>1 DEF OrderInv, Strangers, InStep
    <3>2. CASE r < made
      <4>1. alive'[r] = alive[r] /\ InStep(r)
        BY <1>a, <1>t, <3>2 DEF OrderInv, Sessions
      <4>2. Taken(r)' = Taken(r) /\ \A j \in Kinds : Only(r, j)' <=> Only(r, j)
        BY <1>a, <2>0 DEF Taken, Only
      <4> QED
        BY <1>a, <2>0, <4>1, <4>2 DEF InStep, Kinds
    <3> QED
      BY <3>1, <3>2, <1>t DEF Sessions
  <2> QED
    BY <2>1, <2>2 DEF OrderInv
<1>1. CASE MakeSignals \/ MakeAcceptor \/ BindFails \/ Signal \/ Stop \/ UNCHANGED vars
  BY <1>1, <1>a DEF MakeSignals, MakeAcceptor, BindFails, Signal, Stop, StopService, Stopping,
                    JoinThreads, vars, sessVars
<1>2. CASE StartServer \/ AcceptFails
  <2>1. UNCHANGED <<pending, result, peerVars>> /\ made' = made + 1
    BY <1>2 DEF StartServer, AcceptFails, NewSession
  <2>2. \A r \in Sessions : r <= made => alive'[r] = alive[r]
    <3>1. alive' = [alive EXCEPT ![made + 1] = "alive"]
      BY <1>2, <2>1 DEF StartServer, AcceptFails, Put
    <3>2. \A r \in Sessions : r <= made => r # made + 1
      BY <1>t, <1>m DEF Sessions
    <3> QED
      BY <1>t, <3>1, <3>2
  <2> QED
    BY <2>1, <2>2, <1>a
<1>3. CASE HandleAccept
  <2>1. PICK m \in Sessions : m = made /\ made' = m + 1
    BY <1>3, TSAssumption DEF HandleAccept, Runs, NewSession, OwnInv, Fresh, Sessions
  <2>2. UNCHANGED <<inbox, sending, asked, answered, result>>
    BY <1>3 DEF HandleAccept
  <2>3. ASSUME NEW r \in Sessions, r # made
        PROVE  peer'[r] = peer[r] /\ pending'[r] = pending[r]
    BY <1>3, <1>t, <2>3 DEF HandleAccept, Started, Put
  <2>4. Strangers'
    <3>1. \A r \in Sessions : r >= made' => r >= made /\ r # made
      BY <1>t, <1>m, <2>1 DEF Sessions
    <3> QED
      BY <2>2, <2>3, <3>1 DEF OrderInv, Strangers
  <2>5. ASSUME NEW r \in Sessions, r > made PROVE InStep(r)'
    BY <2>3, <2>5, <1>t DEF OrderInv, Strangers, InStep, Sessions
  <2>6. ASSUME NEW r \in Sessions, r < made PROVE InStep(r)'
    <3>1. r # made /\ r # made + 1 /\ InStep(r)
      BY <2>6, <1>t, <1>m DEF OrderInv, Sessions
    <3>2. alive'[r] = alive[r]
      BY <1>3, <1>t, <2>1, <3>1 DEF HandleAccept, Put
    <3>3. pending'[r] = pending[r] /\ peer'[r] = peer[r]
      BY <2>3, <3>1
    <3>4. Taken(r)' = Taken(r) /\ \A j \in Kinds : Only(r, j)' <=> Only(r, j)
      BY <2>2, <3>3 DEF Taken, Only
    <3> QED
      BY <2>2, <3>1, <3>2, <3>3, <3>4 DEF InStep, Kinds
  <2>7. InStep(m)'
    <3>1. /\ inbox[m] = <<>> /\ sending[m] = NoBuf /\ asked[m] = <<>> /\ answered[m] = <<>>
          /\ \A j \in Kinds : pending[m][j] = 0
      BY <2>1, <1>t DEF OrderInv, Strangers, OwnInv, Fresh, Untouched, Idle, Sessions
    <3>2. \A j \in Kinds \ {"first"} : pending'[m][j] = 0
      BY <1>3, <1>t, <2>1, <3>1 DEF HandleAccept, Started
    <3>3. /\ ~(pending'[m]["second"] = 1) /\ ~(pending'[m]["write_len"] = 1)
          /\ ~(pending'[m]["write"] = 1)
      BY <3>2 DEF Kinds
    <3>4. Stream(<<>>, <<>>, NoBuf, 0)
      BY DEF Stream
    <3>5. answered'[m] = <<>> /\ Len(answered'[m]) = 0
      BY <2>2, <3>1
    <3> QED
      BY <2>2, <3>1, <3>3, <3>4, <3>5 DEF InStep, Taken, Only
  <2> QED
    BY <2>1, <2>4, <2>5, <2>6, <2>7, <1>t DEF OrderInv, Sessions
<1>4. ASSUME NEW s \in Sessions, Session(s) PROVE OrderInv'
  BY <1>4, OrderSession
<1>5. ASSUME NEW s \in Sessions, Peer(s) PROVE OrderInv'
  <2>1. UNCHANGED <<made, alive, pending, result, answered>> /\ peer[s]
    BY <1>5 DEF Peer, AskLen, AskBody, Leave, sessVars
  <2>2. s < made
    BY <1>t, <2>1 DEF OrderInv, Strangers, Sessions
  <2>3. ASSUME NEW r \in Sessions, r # s
        PROVE  UNCHANGED <<inbox[r], sending[r], peer[r], asked[r]>>
    BY <1>5, <1>t, <2>3 DEF Peer, AskLen, AskBody, Leave, Send, Put
  <2>4. Strangers'
    <3>1. \A r \in Sessions : r >= made => r # s
      BY <2>2, <1>t DEF Sessions
    <3> QED
      BY <2>1, <2>3, <3>1 DEF OrderInv, Strangers
  <2>5. \A r \in Sessions : Taken(r)' = Taken(r) /\ \A j \in Kinds : Only(r, j)' <=> Only(r, j)
    BY <2>1 DEF Taken, Only
  <2>6. ASSUME NEW r \in Sessions, r # s PROVE InStep(r)'
    BY <2>1, <2>3, <2>5, <2>6 DEF OrderInv, InStep, Kinds
  <2>7. InStep(s)'
    <3> SUFFICES ASSUME peer'[s], alive[s] = "alive" PROVE InStep(s)'
      BY <2>1 DEF InStep
    <3> DEFINE t == Taken(s)
    <3>1. /\ Stream(inbox[s], asked[s], sending[s], t)
          /\ Only(s, "write_len") \/ Only(s, "write") =>
               /\ Len(answered[s]) < Len(asked[s])
               /\ result[s] = asked[s][Len(answered[s]) + 1]
      BY <2>1 DEF OrderInv, InStep
    <3>2. t \in Nat /\ inbox[s] \in Seq(Parts) /\ asked[s] \in Seq(Requests)
      BY <1>t DEF Taken
    <3>3. CASE AskLen(s)
      <4>1. PICK r \in Requests : sending' = Put(sending, s, r) /\ Send(s, "len", r)
        BY <3>3 DEF AskLen
      <4> DEFINE p == [part |-> "len", req |-> r]
      <4>2. p \in Parts /\ p.req = r /\ inbox'[s] = Append(inbox[s], p) /\ sending'[s] = r
        BY <1>t, <4>1 DEF Parts, Send, Put
      <4>3. sending[s] = NoBuf /\ asked' = asked
        BY <3>3 DEF AskLen
      <4>4. Stream(Append(inbox[s], p), asked[s], r, t)
        <5> HIDE DEF p, t
        <5> QED
          BY <3>1, <3>2, <4>2, <4>3, PutPiece
      <4> QED
        BY <2>1, <2>5, <3>1, <4>2, <4>3, <4>4 DEF InStep, Kinds
    <3>4. CASE AskBody(s)
      <4>1. sending[s] \in Requests
        BY <1>t, <3>4 DEF AskBody
      <4> DEFINE p == [part |-> "body", req |-> sending[s]]
      <4>2. p \in Parts /\ p.req = sending[s] /\ inbox'[s] = Append(inbox[s], p)
        BY <1>t, <3>4, <4>1 DEF AskBody, Parts, Send, Put
      <4>3. sending'[s] = NoBuf /\ asked'[s] = Append(asked[s], sending[s])
        BY <1>t, <3>4 DEF AskBody, Put
      <4>4. Stream(Append(inbox[s], p), Append(asked[s], sending[s]), NoBuf, t)
        <5> HIDE DEF p, t
        <5> QED
          BY <3>1, <3>2, <4>1, <4>2, PutPiece
      <4>5. /\ Len(asked'[s]) = Len(asked[s]) + 1
            /\ \A i \in 1..Len(asked[s]) : asked'[s][i] = asked[s][i]
        BY <3>2, <4>1, <4>3
      <4>6. Only(s, "write_len") \/ Only(s, "write") =>
              /\ Len(answered[s]) < Len(asked'[s])
              /\ result[s] = asked'[s][Len(answered[s]) + 1]
        BY <1>t, <3>1, <3>2, <4>5
      <4> QED
        BY <2>1, <2>5, <4>2, <4>3, <4>4, <4>6 DEF InStep, Kinds
    <3>5. CASE Leave(s)
      BY <1>t, <3>5 DEF Leave, Put
    <3> QED
      BY <1>5, <3>3, <3>4, <3>5 DEF Peer
  <2> QED
    BY <2>4, <2>6, <2>7 DEF OrderInv
<1> QED
  BY <1>1, <1>2, <1>3, <1>4, <1>5 DEF Next, Construct

(* A session that is still to be made is not deleted.                        *)
Unmade == \A s \in Sessions : s > made => alive[s] # "deleted"

LEMMA UnmadeNext == OwnInv /\ Unmade /\ [Next]_vars => Unmade'
<1> SUFFICES ASSUME OwnInv, Unmade, [Next]_vars PROVE Unmade'
  OBVIOUS
<1>t. made \in 0..MaxSessions /\ alive \in [Sessions -> {"none", "alive", "deleted"}]
  BY DEF OwnInv, SessionTypes, Fresh
<1>m. MaxSessions \in Nat
  BY TSAssumption
<1>1. CASE UNCHANGED <<made, alive>>
  BY <1>1 DEF Unmade
<1>2. CASE NewSession /\ alive' = Put(alive, made', "alive")
  BY <1>2, <1>t, <1>m DEF NewSession, Put, Unmade, Sessions
<1>3. ASSUME NEW s \in Sessions, Session(s) PROVE Unmade'
  <2>1. \E k \in Kinds : Handled(s, k)
    BY <1>3 DEF Session, ReadFirst, ReadBadLength, ReadFails, ReadSecond, MessageThrows,
                WriteLenDone, WriteDone, WriteFails, Kinds
  <2>2. s < made /\ made' = made
    BY <2>1, Running DEF Handled
  <2>3. \A r \in Sessions : r > made => alive'[r] = alive[r]
    <3>1. alive' = alive \/ alive' = [alive EXCEPT ![s] = "deleted"]
      BY <1>3 DEF Session, ReadFirst, ReadBadLength, ReadFails, ReadSecond, MessageThrows,
                  WriteLenDone, WriteDone, WriteFails, DeleteThis, Put
    <3>2. \A r \in Sessions : r > made => r # s
      BY <1>t, <1>m, <2>2 DEF Sessions
    <3> QED
      BY <1>t, <3>1, <3>2
  <2> QED
    BY <2>2, <2>3 DEF Unmade
<1>4. CASE MakeSignals \/ MakeAcceptor \/ BindFails \/ Signal \/ Stop \/ UNCHANGED vars
  BY <1>1, <1>4 DEF MakeSignals, MakeAcceptor, BindFails, Signal, Stop, StopService, Stopping,
                    JoinThreads, vars, sessVars
<1>5. CASE StartServer \/ HandleAccept \/ AcceptFails
  BY <1>2, <1>5 DEF StartServer, HandleAccept, AcceptFails
<1>6. ASSUME NEW s \in Sessions, Peer(s) PROVE Unmade'
  BY <1>1, <1>6 DEF Peer, AskLen, AskBody, Leave, sessVars
<1> QED
  BY <1>3, <1>4, <1>5, <1>6 DEF Next, Construct

(* Every step is one of RequestReply's or leaves what it speaks of alone.    *)
gone == [s \in Sessions |-> alive[s] = "deleted"]
LEMMA OrderStep ==
  ASSUME OwnInv, RestTypes, OrderInv, Unmade, [Next]_vars
  PROVE  [Service!Next]_<<asked, answered, gone>>
<1>t. /\ asked \in [Sessions -> Seq(Requests)] /\ answered \in [Sessions -> Seq(Requests)]
      /\ alive \in [Sessions -> {"none", "alive", "deleted"}]
  BY DEF OwnInv, SessionTypes, RestTypes
<1>1. CASE \/ MakeSignals \/ MakeAcceptor \/ BindFails \/ Signal \/ Stop \/ UNCHANGED vars
  BY <1>1 DEF MakeSignals, MakeAcceptor, BindFails, Signal, Stop, StopService, Stopping,
              JoinThreads, vars, sessVars, peerVars, gone
<1>2. CASE StartServer \/ HandleAccept \/ AcceptFails
  <2>1. UNCHANGED <<asked, answered>> /\ NewSession /\ alive' = Put(alive, made', "alive")
    BY <1>2 DEF StartServer, HandleAccept, AcceptFails, peerVars
  <2>2. alive[made + 1] # "deleted" /\ made' = made + 1
    BY <2>1, TSAssumption DEF NewSession, Unmade, OwnInv, Fresh, Sessions
  <2>3. gone' = gone
    BY <1>t, <2>1, <2>2 DEF gone, Put
  <2> QED
    BY <2>1, <2>3
<1>3. ASSUME NEW s \in Sessions, Session(s) PROVE [Service!Next]_<<asked, answered, gone>>
  <2>1. asked' = asked
    BY <1>3 DEF Session, ReadFirst, ReadBadLength, ReadFails, ReadSecond, MessageThrows,
                WriteLenDone, WriteDone, WriteFails, peerVars
  <2>2. CASE ReadFirst(s) \/ ReadSecond(s) \/ WriteLenDone(s)
    BY <2>1, <2>2 DEF ReadFirst, ReadSecond, WriteLenDone, peerVars, gone
  <2>3. CASE ReadBadLength(s) \/ MessageThrows(s) \/ ReadFails(s, "first") \/ ReadFails(s, "second")
             \/ WriteFails(s)
    <3>1. answered' = answered /\ alive' = [alive EXCEPT ![s] = "deleted"]
      BY <2>3 DEF ReadBadLength, MessageThrows, ReadFails, WriteFails, DeleteThis, Put, peerVars
    <3>2. \E k \in Kinds : Handled(s, k)
      BY <2>3 DEF ReadBadLength, MessageThrows, ReadFails, WriteFails, Kinds
    <3>3. alive[s] = "alive"
      BY <3>2, Running
    <3>4. gone' = [gone EXCEPT ![s] = TRUE] /\ ~gone[s]
      BY <1>t, <3>1, <3>3 DEF gone
    <3>5. Service!HangUp(s)
      BY <2>1, <3>1, <3>4 DEF Service!HangUp, gone
    <3> QED
      BY <3>5 DEF Service!Next
  <2>4. CASE WriteDone(s)
    <3>1. Handled(s, "write") /\ Replied(s) /\ alive' = alive
      BY <2>4 DEF WriteDone
    <3>2. Only(s, "write") /\ alive[s] = "alive"
      BY <3>1, Running DEF Kinds
    <3>3. CASE peer[s]
      <4>1. /\ Len(answered[s]) < Len(asked[s])
            /\ result[s] = asked[s][Len(answered[s]) + 1]
        BY <3>2, <3>3 DEF OrderInv, InStep
      <4>2. answered' = [answered EXCEPT ![s] = Append(answered[s], asked[s][Len(answered[s]) + 1])]
        BY <3>1, <3>3, <4>1 DEF Replied, Put
      <4>3. ~gone[s] /\ gone' = gone
        BY <3>1, <3>2 DEF gone
      <4>4. Service!Answer(s)
        BY <2>1, <4>1, <4>2, <4>3 DEF Service!Answer, gone
      <4> QED
        BY <4>4 DEF Service!Next
    <3>4. CASE ~peer[s]
      BY <2>1, <3>1, <3>4 DEF Replied, gone
    <3> QED
      BY <3>3, <3>4
  <2> QED
    BY <1>3, <2>2, <2>3, <2>4 DEF Session
<1>4. ASSUME NEW s \in Sessions, Peer(s) PROVE [Service!Next]_<<asked, answered, gone>>
  <2>1. answered' = answered /\ gone' = gone
    BY <1>4 DEF Peer, AskLen, AskBody, Leave, sessVars, gone
  <2>2. CASE AskLen(s) \/ Leave(s)
    BY <2>1, <2>2 DEF AskLen, Leave
  <2>3. CASE AskBody(s)
    <3>1. sending[s] \in Requests
      BY <2>3 DEF AskBody, OwnInv, Inboxes
    <3>2. asked' = [asked EXCEPT ![s] = Append(asked[s], sending[s])]
      BY <2>3 DEF AskBody, Put
    <3>3. Service!Ask(s)
      BY <2>1, <3>1, <3>2 DEF Service!Ask, gone
    <3> QED
      BY <3>3 DEF Service!Next
  <2> QED
    BY <1>4, <2>2, <2>3 DEF Peer
<1> QED
  BY <1>1, <1>2, <1>3, <1>4 DEF Next, Construct

ServerInv == OwnInv /\ PoolInv /\ RestTypes /\ OrderInv /\ Unmade

(* The server implements RequestReply: whatever peers send, cut short or     *)
(* leave behind, replies come one per request and in order.                  *)
THEOREM RepliesInOrder == Spec => InOrder
<1>1. Init => ServerInv
  BY OwnInit, PoolInit, RestInit, OrderInit DEF ServerInv, Init, Unmade
<1>2. ServerInv /\ [Next]_vars => ServerInv'
  BY OwnNext, PoolNext, RestNext, OrderNext, UnmadeNext DEF ServerInv
<1>3. Init => Service!Init
  BY DEF Init, Service!Init
<1>4. ServerInv /\ [Next]_vars => [Service!Next]_<<asked, answered, gone>>
  BY OrderStep DEF ServerInv
<1> QED
  BY <1>1, <1>2, <1>3, <1>4, PTL DEF Spec, InOrder, Service!Spec, gone

-----------------------------------------------------------------------------
(* What is left to do can be done.  The guards of Session and Stop: a        *)
(* handler of s may run, because its bytes are there and its service runs.   *)
Ready(s, k) ==
  pending[s][k] > 0 /\ Runs(svc[s]) /\ (k \in {"first", "second"} => inbox[s] # <<>>)
Owing(s) == peer[s] /\ alive[s] = "alive" /\ Len(answered[s]) < Len(asked[s])
Answering ==
  process = "running" /\ ~stopping /\ stops = 0 =>
    \A s \in Sessions : Owing(s) => \E k \in Kinds : Ready(s, k)
Ending ==
  process = "running" /\ (stopping \/ stops > 0) =>
    (stopping /\ stops < PoolSize) \/ stops = PoolSize
NothingHangs == Answering /\ Ending

\* A session with a peer waits for something, unless it has deleted itself.
Attended == \A s \in Sessions : peer[s] /\ alive[s] = "alive" => ~Idle(s)
Stopped  == /\ stopping => stops < PoolSize
            /\ ~stopping => stops \in {0, PoolSize}

LEMMA AttendedSession ==
  ASSUME OwnInv, RestTypes, Attended, NEW s \in Sessions, Session(s)
  PROVE  Attended'
<1>t. /\ alive \in [Sessions -> {"none", "alive", "deleted"}]
      /\ pending \in [Sessions -> [Kinds -> Nat]]
  BY DEF OwnInv, SessionTypes
<1>1. CASE ReadFirst(s) \/ ReadSecond(s) \/ WriteLenDone(s) \/ WriteDone(s)
  <2>1. PICK k \in Kinds, k2 \in Kinds : k # k2 /\ Handled(s, k) /\ Then(s, k, k2)
    BY <1>1 DEF ReadFirst, ReadSecond, WriteLenDone, WriteDone, Kinds
  <2>2. UNCHANGED <<peer, alive>>
    BY <1>1 DEF ReadFirst, ReadSecond, WriteLenDone, WriteDone, peerVars
  <2>3. Only(s, k2)' /\ \A r \in Sessions \ {s} : pending'[r] = pending[r]
    BY <2>1, Running, GoesOn
  <2> QED
    BY <2>2, <2>3 DEF Attended, Idle, Only
<1>2. CASE \/ ReadBadLength(s) \/ MessageThrows(s) \/ ReadFails(s, "first")
           \/ ReadFails(s, "second") \/ WriteFails(s)
  <2>1. PICK k \in Kinds : Handled(s, k) /\ Done(s, k)
    BY <1>2 DEF ReadBadLength, MessageThrows, ReadFails, WriteFails, Kinds
  <2>2. peer' = peer /\ alive' = [alive EXCEPT ![s] = "deleted"]
    BY <1>2 DEF ReadBadLength, MessageThrows, ReadFails, WriteFails, DeleteThis, Put, peerVars
  <2>3. \A r \in Sessions \ {s} : pending'[r] = pending[r]
    BY <2>1, Running, GivesUp
  <2> QED
    BY <1>t, <2>2, <2>3 DEF Attended, Idle
<1> QED
  BY <1>1, <1>2 DEF Session

LEMMA AttendedNext == OwnInv /\ RestTypes /\ OrderInv /\ Attended /\ [Next]_vars => Attended'
<1> SUFFICES ASSUME OwnInv, RestTypes, OrderInv, Attended, [Next]_vars PROVE Attended'
  OBVIOUS
<1>t. /\ alive \in [Sessions -> {"none", "alive", "deleted"}] /\ peer \in [Sessions -> BOOLEAN]
      /\ pending \in [Sessions -> [Kinds -> Nat]] /\ made \in 0..MaxSessions
  BY DEF OwnInv, SessionTypes, RestTypes, Fresh
<1>m. MaxSessions \in Nat
  BY TSAssumption
<1>1. CASE UNCHANGED <<peer, alive, pending>>
  BY <1>1 DEF Attended, Idle
<1>2. CASE MakeSignals \/ MakeAcceptor \/ BindFails \/ Signal \/ Stop \/ UNCHANGED vars
  BY <1>1, <1>2 DEF MakeSignals, MakeAcceptor, BindFails, Signal, Stop, StopService, Stopping,
                    JoinThreads, vars, sessVars, peerVars
<1>3. CASE StartServer \/ AcceptFails
  <2>1. /\ made' = made + 1 /\ made' \in Sessions /\ alive' = [alive EXCEPT ![made + 1] = "alive"]
        /\ UNCHANGED <<pending, peer>>
    BY <1>3, <1>t, <1>m DEF StartServer, AcceptFails, NewSession, Put, peerVars, Sessions
  <2>2. ~peer[made + 1]
    BY <1>t, <1>m, <2>1 DEF OrderInv, Strangers, Sessions
  <2> QED
    BY <1>t, <2>1, <2>2 DEF Attended, Idle
<1>4. CASE HandleAccept
  <2>1. PICK m \in Sessions : m = made
    BY <1>4, TSAssumption DEF HandleAccept, Runs, OwnInv, Fresh, Sessions
  <2>2. /\ alive' = [alive EXCEPT ![m + 1] = "alive"] /\ peer' = [peer EXCEPT ![m] = TRUE]
        /\ pending' = [pending EXCEPT ![m]["first"] = @ + 1]
    BY <1>4, <2>1 DEF HandleAccept, NewSession, Started, Put
  <2>3. ~Idle(m)'
    BY <1>t, <2>2 DEF Idle, Kinds
  <2>4. m + 1 \in Sessions => ~peer'[m + 1]
    BY <1>t, <1>m, <2>1, <2>2 DEF OrderInv, Strangers, Sessions
  <2>5. ASSUME NEW r \in Sessions \ {m, m + 1}
        PROVE  peer'[r] = peer[r] /\ alive'[r] = alive[r] /\ pending'[r] = pending[r]
    BY <1>t, <2>2
  <2> QED
    BY <2>3, <2>4, <2>5 DEF Attended, Idle
<1>5. ASSUME NEW s \in Sessions, Session(s) PROVE Attended'
  BY <1>5, AttendedSession
<1>6. ASSUME NEW s \in Sessions, Peer(s) PROVE Attended'
  <2>1. UNCHANGED <<alive, pending>> /\ (peer' = peer \/ peer' = [peer EXCEPT ![s] = FALSE])
    BY <1>6 DEF Peer, AskLen, AskBody, Leave, sessVars, Put
  <2> QED
    BY <1>t, <2>1 DEF Attended, Idle
<1> QED
  BY <1>2, <1>3, <1>4, <1>5, <1>6 DEF Next, Construct

LEMMA StoppedNext == RestTypes /\ Stopped /\ [Next]_vars => Stopped'
<1> SUFFICES ASSUME RestTypes, Stopped, [Next]_vars PROVE Stopped'
  OBVIOUS
<1> USE PoolSizeNat DEF Stopped, RestTypes
<1>1. CASE Signal
  BY <1>1 DEF Signal
<1>2. CASE StopService
  <2>1. stopping /\ stops < PoolSize /\ stops' = stops + 1 /\ stopping' = (stops' < PoolSize)
    BY <1>2 DEF StopService, Stopping
  <2>2. (stopping' => stops' < PoolSize) /\ (~stopping' => ~(stops' < PoolSize))
    BY Zenon, <2>1
  <2> QED
    BY <2>1, <2>2
<1>3. CASE UNCHANGED stopVars
  BY <1>3 DEF stopVars
<1>4. Signal \/ StopService \/ UNCHANGED stopVars
  <2>1. CASE Construct \/ BindFails \/ HandleAccept \/ AcceptFails \/ JoinThreads \/ UNCHANGED vars
    BY <2>1 DEF Construct, MakeSignals, MakeAcceptor, StartServer, BindFails, HandleAccept,
                AcceptFails, JoinThreads, vars
  <2>2. ASSUME NEW s \in Sessions, Session(s) \/ Peer(s) PROVE UNCHANGED stopVars
    BY <2>2 DEF Session, Handled, ReadFirst, ReadBadLength, ReadFails, ReadSecond, MessageThrows,
                WriteLenDone, WriteDone, WriteFails, Peer, AskLen, AskBody, Leave
  <2> QED
    BY <2>1, <2>2 DEF Next, Stop
<1> QED
  BY <1>1, <1>2, <1>3, <1>4

(* What Answered and ShutsDown need before fairness can help: as long as the *)
(* server runs, a session that owes its peer a reply has a handler whose     *)
(* bytes have come, in whatever pieces they did; and once handle_stop has    *)
(* begun there is another service to stop, until run can join the threads.   *)
THEOREM NoReplyHangs == Spec => []NothingHangs
<1> DEFINE Inv == ServerInv /\ Attended /\ Stopped
<1>1. Init => Inv
  <2>1. Init => ServerInv
    BY OwnInit, PoolInit, RestInit, OrderInit DEF ServerInv, Init, Unmade
  <2>2. Init => Attended /\ Stopped
    BY PoolSizeNat DEF Init, Attended, Stopped
  <2> QED
    BY <2>1, <2>2
<1>2. Inv /\ [Next]_vars => Inv'
  BY OwnNext, PoolNext, RestNext, OrderNext, UnmadeNext, AttendedNext, StoppedNext DEF ServerInv
<1>3. Inv => NothingHangs
  <2> SUFFICES ASSUME Inv PROVE Answering /\ Ending
    BY DEF NothingHangs
  <2>1. Ending
    BY DEF Ending, Stopped, ServerInv, RestTypes
  <2>2. ASSUME process = "running", ~stopping, stops = 0, NEW s \in Sessions, Owing(s)
        PROVE  \E k \in Kinds : Ready(s, k)
    <3>1. svc[s] >= 0 /\ Runs(svc[s])
      BY <2>2, PoolSizeNat DEF Runs, ServerInv, RestTypes, Services
    <3>2. PICK k \in Kinds : Only(s, k)
      <4>1. ~Idle(s) /\ Owned(s)
        BY <2>2 DEF Owing, Attended, ServerInv, OwnInv, HandlerOwns
      <4> QED
        BY <4>1 DEF Owned, Kinds
    <3>3. CASE k \in {"write_len", "write"}
      BY <3>1, <3>2, <3>3 DEF Ready, Only
    <3>4. CASE k \in {"first", "second"}
      <4>1. /\ Len(asked[s]) \in Nat /\ Len(answered[s]) \in Nat /\ inbox[s] \in Seq(Parts)
            /\ Len(answered[s]) < Len(asked[s])
        BY <2>2 DEF Owing, ServerInv, OwnInv, Inboxes, RestTypes
      <4>2. Stream(inbox[s], asked[s], sending[s], Taken(s))
        BY <2>2 DEF Owing, ServerInv, OrderInv, InStep
      <4>3. ~Only(s, "write_len") /\ ~Only(s, "write")
        BY <3>2, <3>4 DEF Only, Kinds
      <4>4. Taken(s) = 2 * Len(answered[s]) + 1 \/ Taken(s) = 2 * Len(answered[s])
        <5>1. \/ Taken(s) = 2 * Len(answered[s]) + 1
              \/ Taken(s) = 2 * Len(answered[s]) + 0
          BY Zenon, <4>3 DEF Taken
        <5> QED
          BY <4>1, <5>1
      <4>5. \E b \in {0, 1} : 2 * Len(asked[s]) + b = Taken(s) + Len(inbox[s])
        BY Zenon, <4>2 DEF Stream
      <4>6. Len(inbox[s]) > 0
        BY <4>1, <4>4, <4>5
      <4> QED
        BY <3>1, <3>2, <4>1, <4>6 DEF Ready, Only
    <3> QED
      BY <3>3, <3>4 DEF Kinds
  <2> QED
    BY <2>1, <2>2 DEF Answering
<1> HIDE DEF Inv
<1> QED
  BY <1>1, <1>2, <1>3, PTL DEF Spec
=============================================================================
