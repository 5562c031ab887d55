----------------------------- MODULE TcpServer ------------------------------
(***************************************************************************)
(* The boost::asio server of src/展现web应用/server: a pool of io_services, *)
(* each run by one thread, an acceptor, and sessions that answer length-    *)
(* prefixed requests.  A session is kept alive by nothing but the handler   *)
(* of the operation it started last, which is bound to a raw this.          *)
(*                                                                          *)
(* A handler is one step: it touches its own session only.  An operation's  *)
(* completion and the run of its handler are one step too; which completed  *)
(* handler an io_service runs next is left open.  A request is a name; the  *)
(* reply to it is the same name.                                            *)
(***************************************************************************)
EXTENDS Integers, Sequences, FiniteSets

CONSTANTS
  MAXTHREADS,   \* the configured number of io_services
  MaxSessions,  \* bound: sessions the acceptor makes
  MaxAsked,     \* bound: MaxAsked[s], requests the peer of session s sends
  Requests,
  NoBuf,        \* no request: a null result_data, a peer between two requests
  BadLength,    \* requests whose length is not in 1..MessageMaxLength
  Throws,       \* requests handle_message throws an exception for
  Faults        \* what may fail: a subset of {"bind", "accept"}

ASSUME TSAssumption ==
  /\ MAXTHREADS \in Nat /\ MaxSessions \in Nat \ {0} /\ MaxAsked \in [1..MaxSessions -> Nat]
  /\ NoBuf \notin Requests /\ BadLength \subseteq Requests /\ Throws \subseteq Requests
  /\ Faults \subseteq {"bind", "accept"}

Sessions == 1..MaxSessions
Kinds    == {"first", "second", "write_len", "write"}
PoolSize == IF MAXTHREADS = 0 THEN 10 ELSE MAXTHREADS
Services == 0..(PoolSize - 1)
Parts    == [part : {"len", "body"}, req : Requests]  \* what a peer writes

VARIABLES
  process,  \* run_service and the constructors it goes through
  next,     \* m_next_io_service
  users,    \* history: users[i], times get_io_service returned service i
  stops,    \* services stopped by the loop of sessionpool::stop
  stopping, \* handle_stop runs in the thread of service 0
  made,     \* sessions allocated; the last one is m_new_session_
  alive,    \* alive[s]: "none", "alive" or "deleted"
  svc,      \* svc[s]: the service of session s, 0 before it is made
  pending,  \* pending[s][k]: operations of kind k started and not yet handled
  data,     \* data[s]: data_ points to a buffer
  result,   \* result[s]: the reply result_data points to
  heap,     \* history: heap[s], buffers session s allocated and did not free
  inbox,    \* inbox[s]: what the peer has sent and the server not read
  sending,  \* sending[s]: the request whose length the peer has sent, not its body
  peer,     \* peer[s]: a peer is connected
  asked, answered  \* history: requests sent, replies that have arrived

poolVars == <<next, users>>
stopVars == <<stops, stopping>>
sessVars == <<alive, svc, pending, data, result, heap>>
peerVars == <<inbox, sending, peer, asked, answered>>
vars == <<process, poolVars, stopVars, made, sessVars, peerVars>>

Put(f, s, v) == [f EXCEPT ![s] = v]

-----------------------------------------------------------------------------
(* The pool.                                                                 *)

(* get_io_service: round robin.                                              *)
GetIoService ==
  /\ users' = [users EXCEPT ![next] = @ + 1]
  /\ next' = IF next + 1 = PoolSize THEN 0 ELSE next + 1

(* The constructor of server takes a service for the signals and one for the *)
(* acceptor, binds, and starts the first accept.                             *)
MakeSignals ==
  /\ process = "signals" /\ process' = "acceptor"
  /\ GetIoService
  /\ UNCHANGED <<stopVars, made, sessVars, peerVars>>

MakeAcceptor ==
  /\ process = "acceptor" /\ process' = "bind"
  /\ GetIoService
  /\ UNCHANGED <<stopVars, made, sessVars, peerVars>>

(* bind or listen throws; nobody catches it.                                 *)
BindFails ==
  /\ process = "bind" /\ "bind" \in Faults /\ process' = "aborted"
  /\ UNCHANGED <<poolVars, stopVars, made, sessVars, peerVars>>

(* start_accept: a new session on the next service, overwriting the pointer. *)
NewSession ==
  /\ made < MaxSessions
  /\ made' = made + 1
  /\ svc' = Put(svc, made', next)
  /\ GetIoService

StartServer ==
  /\ process = "bind" /\ process' = "running"
  /\ NewSession /\ alive' = Put(alive, made', "alive")
  /\ UNCHANGED <<stopVars, pending, data, result, heap, peerVars>>

(* handle_stop, on the service of the signals, stops one service after the   *)
(* other; then run joins its threads and the server is deleted.              *)
Signal ==
  /\ process = "running" /\ ~stopping /\ stops = 0
  /\ stopping' = TRUE
  /\ UNCHANGED <<process, poolVars, stops, made, sessVars, peerVars>>

Stopping(n) ==
  /\ stopping /\ stops < n
  /\ stops' = stops + 1 /\ stopping' = (stops' < n)
  /\ UNCHANGED <<process, poolVars, made, sessVars, peerVars>>
\* Mutant: the loop ends one service early.
StopButLast == Stopping(PoolSize - 1)
StopService == Stopping(PoolSize)

JoinThreads ==
  /\ process = "running" /\ stops = PoolSize
  /\ process' = "ended"
  /\ UNCHANGED <<poolVars, stopVars, made, sessVars, peerVars>>

Runs(i) == process = "running" /\ i >= stops /\ (i = 0 => ~stopping)

-----------------------------------------------------------------------------
(* The acceptor, on the second service.                                      *)
AcceptorService == IF PoolSize = 1 THEN 0 ELSE 1

Started(f, s, k) == [f EXCEPT ![s][k] = @ + 1]

HandleAccept ==
  /\ Runs(AcceptorService)
  /\ pending' = Started(pending, made, "first")
  /\ data' = Put(data, made, TRUE) /\ heap' = [heap EXCEPT ![made] = @ + 1]
  /\ peer' = Put(peer, made, TRUE)
  /\ NewSession /\ alive' = Put(alive, made', "alive")
  /\ UNCHANGED <<process, stopVars, result, inbox, sending, asked, answered>>

(* Only logged; the session made for this accept is forgotten.               *)
AcceptFails ==
  /\ Runs(AcceptorService) /\ "accept" \in Faults
  /\ NewSession /\ alive' = Put(alive, made', "alive")
  /\ UNCHANGED <<process, stopVars, pending, data, result, heap, peerVars>>

-----------------------------------------------------------------------------
(* The session.  A handler consumes its operation and either starts the next *)
(* one or deletes the session.                                               *)
Handled(s, k) ==
  /\ pending[s][k] > 0 /\ Runs(svc[s])
  /\ UNCHANGED <<process, poolVars, stopVars, made, svc>>
Then(s, k, k2) == pending' = [pending EXCEPT ![s] =
                    [j \in Kinds |-> @[j] - (IF j = k THEN 1 ELSE 0) + (IF j = k2 THEN 1 ELSE 0)]]
Done(s, k)     == pending' = [pending EXCEPT ![s][k] = @ - 1]
DeleteThis(s)  == alive' = Put(alive, s, "deleted")
Free(s, n)     == heap' = [heap EXCEPT ![s] = @ - n]
Read(s)        == inbox[s] # <<>> /\ inbox' = Put(inbox, s, Tail(inbox[s]))

(* handle_read_first: the four bytes of the length have been read.           *)
ReadFirst(s) ==
  /\ Handled(s, "first") /\ Read(s)
  /\ Head(inbox[s]).req \notin BadLength
  /\ data' = Put(data, s, TRUE) /\ UNCHANGED heap  \* freed, and one for the body
  /\ Then(s, "first", "second")
  /\ UNCHANGED <<alive, result, sending, peer, asked, answered>>

ReadBadLength(s) ==
  /\ Handled(s, "first") /\ Read(s)
  /\ Head(inbox[s]).req \in BadLength
  /\ data' = Put(data, s, FALSE) /\ Free(s, 1)
  /\ Done(s, "first") /\ DeleteThis(s)
  /\ UNCHANGED <<result, sending, peer, asked, answered>>

(* The peer went away while the session waited for bytes.                    *)
ReadFails(s, k) ==
  /\ k \in {"first", "second"}
  /\ Handled(s, k) /\ ~peer[s]
  /\ data' = Put(data, s, FALSE) /\ Free(s, 1)
  /\ Done(s, k) /\ DeleteThis(s)
  /\ UNCHANGED <<result, peerVars>>

(* handle_read_second: handle_message makes the reply.                       *)
ReadSecond(s) ==
  /\ Handled(s, "second") /\ Read(s)
  /\ Head(inbox[s]).req \notin Throws
  /\ result' = Put(result, s, Head(inbox[s]).req)
  /\ data' = Put(data, s, FALSE) /\ UNCHANGED heap  \* the reply for the body
  /\ Then(s, "second", "write_len")
  /\ UNCHANGED <<alive, sending, peer, asked, answered>>

\* Mutant: the exception is caught, and the session goes on.
MessageIgnored(s) ==
  /\ Handled(s, "second") /\ Read(s)
  /\ Head(inbox[s]).req \in Throws
  /\ Then(s, "second", "first")
  /\ UNCHANGED <<alive, data, heap, result, sending, peer, asked, answered>>
MessageThrows(s) ==
  /\ Handled(s, "second") /\ Read(s)
  /\ Head(inbox[s]).req \in Throws
  /\ data' = Put(data, s, FALSE) /\ Free(s, 1)
  /\ Done(s, "second") /\ DeleteThis(s)
  /\ UNCHANGED <<result, sending, peer, asked, answered>>

(* handle_write_second: the length is out or could not be sent, which is not *)
(* looked at.                                                                *)
WriteLenDone(s) ==
  /\ Handled(s, "write_len")
  /\ Then(s, "write_len", "write")
  /\ UNCHANGED <<alive, data, result, heap, peerVars>>

(* handle_write: the reply is out; start waits for the next request.         *)
Replied(s) ==
  answered' = IF peer[s] THEN Put(answered, s, Append(answered[s], result[s])) ELSE answered

\* Mutant: result_data is set to null without delete.
WriteDoneLeaks(s) ==
  /\ Handled(s, "write") /\ Replied(s)
  /\ result' = Put(result, s, NoBuf)
  /\ data' = Put(data, s, TRUE) /\ heap' = [heap EXCEPT ![s] = @ + 1]
  /\ Then(s, "write", "first")
  /\ UNCHANGED <<alive, inbox, sending, peer, asked>>
\* Mutant: handle_write starts the write again.
WriteDoneTwice(s) ==
  /\ Handled(s, "write") /\ Replied(s)
  /\ Then(s, "write", "write_len")
  /\ UNCHANGED <<alive, data, result, heap, inbox, sending, peer, asked>>
WriteDone(s) ==
  /\ Handled(s, "write") /\ Replied(s)
  /\ result' = Put(result, s, NoBuf)
  /\ data' = Put(data, s, TRUE) /\ UNCHANGED heap  \* the reply freed, data_ allocated
  /\ Then(s, "write", "first")
  /\ UNCHANGED <<alive, inbox, sending, peer, asked>>

\* Mutant: the session restarts after deleting itself.
WriteFailsOn(s) ==
  /\ Handled(s, "write") /\ ~peer[s]
  /\ result' = Put(result, s, NoBuf) /\ UNCHANGED <<data, heap>>
  /\ Then(s, "write", "first") /\ DeleteThis(s)
  /\ UNCHANGED peerVars
WriteFails(s) ==
  /\ Handled(s, "write") /\ ~peer[s]
  /\ result' = Put(result, s, NoBuf) /\ Free(s, 1) /\ UNCHANGED data
  /\ Done(s, "write") /\ DeleteThis(s)
  /\ UNCHANGED peerVars

-----------------------------------------------------------------------------
(* The peer: it may send a request while an earlier one is being answered,   *)
(* stop between a length and its body, and go away at any time.              *)
Send(s, part, r) == inbox' = Put(inbox, s, Append(inbox[s], [part |-> part, req |-> r]))

AskLen(s) ==
  /\ peer[s] /\ sending[s] = NoBuf /\ Len(asked[s]) < MaxAsked[s]
  /\ \E r \in Requests : sending' = Put(sending, s, r) /\ Send(s, "len", r)
  /\ UNCHANGED <<process, poolVars, stopVars, made, sessVars, peer, asked, answered>>

AskBody(s) ==
  /\ peer[s] /\ sending[s] # NoBuf
  /\ Send(s, "body", sending[s])
  /\ sending' = Put(sending, s, NoBuf) /\ asked' = Put(asked, s, Append(asked[s], sending[s]))
  /\ UNCHANGED <<process, poolVars, stopVars, made, sessVars, peer, answered>>

Leave(s) ==
  /\ peer[s] /\ peer' = Put(peer, s, FALSE)
  /\ UNCHANGED <<process, poolVars, stopVars, made, sessVars, inbox, sending, asked, answered>>

-----------------------------------------------------------------------------
Init ==
  /\ process = "signals" /\ next = 0 /\ users = [i \in Services |-> 0]
  /\ stops = 0 /\ stopping = FALSE /\ made = 0
  /\ alive = [s \in Sessions |-> "none"] /\ svc = [s \in Sessions |-> 0]
  /\ pending = [s \in Sessions |-> [k \in Kinds |-> 0]]
  /\ data = [s \in Sessions |-> FALSE] /\ result = [s \in Sessions |-> NoBuf]
  /\ heap = [s \in Sessions |-> 0]
  /\ inbox = [s \in Sessions |-> <<>>] /\ sending = [s \in Sessions |-> NoBuf]
  /\ peer = [s \in Sessions |-> FALSE]
  /\ asked = [s \in Sessions |-> <<>>] /\ answered = [s \in Sessions |-> <<>>]

Construct == MakeSignals \/ MakeAcceptor \/ StartServer
Stop == StopService \/ JoinThreads
Session(s) ==
  \/ ReadFirst(s) \/ ReadBadLength(s) \/ ReadFails(s, "first") \/ ReadFails(s, "second")
  \/ ReadSecond(s) \/ MessageThrows(s)
  \/ WriteLenDone(s) \/ WriteDone(s) \/ WriteFails(s)
Peer(s) == AskLen(s) \/ AskBody(s) \/ Leave(s)

Next ==
  \/ Construct \/ BindFails
  \/ HandleAccept \/ AcceptFails
  \/ Signal \/ Stop
  \/ \E s \in Sessions : Session(s) \/ Peer(s)

Spec == Init /\ [][Next]_vars

(* The threads of the pool run what is ready; signals, peers and failures    *)
(* are not obliged to happen.                                                *)
Fairness == WF_vars(Construct) /\ WF_vars(Stop) /\ \A s \in Sessions : WF_vars(Session(s))

FairSpec == Spec /\ Fairness

-----------------------------------------------------------------------------
(* Types.                                                                    *)
PoolTypes ==
  /\ next \in Services /\ users \in [Services -> Nat]
  /\ stops \in 0..PoolSize /\ stopping \in BOOLEAN
SessionTypes ==
  /\ alive \in [Sessions -> {"none", "alive", "deleted"}]
  /\ pending \in [Sessions -> [Kinds -> Nat]]
  /\ data \in [Sessions -> BOOLEAN] /\ result \in [Sessions -> Requests \cup {NoBuf}]
  /\ heap \in [Sessions -> Int]
PeerTypes ==
  /\ inbox \in [Sessions -> Seq(Parts)]
  /\ sending \in [Sessions -> Requests \cup {NoBuf}] /\ peer \in [Sessions -> BOOLEAN]
  /\ asked \in [Sessions -> Seq(Requests)] /\ answered \in [Sessions -> Seq(Requests)]

TypeOK ==
  /\ process \in {"signals", "acceptor", "bind", "running", "aborted", "ended"}
  /\ made \in 0..MaxSessions /\ svc \in [Sessions -> Services]
  /\ PoolTypes /\ SessionTypes /\ PeerTypes

(* The signals, the acceptor and the sessions are dealt to the services of   *)
(* the pool evenly, at any moment and after any number of connections and    *)
(* failed accepts.                                                           *)
Balanced == \A i, j \in Services : users[i] <= users[j] + 1

(* Nothing but the one pending handler refers to a session: a live session   *)
(* has at most one operation outstanding, and holds exactly the buffer that  *)
(* operation works on; a deleted one has none, so no handler runs on freed   *)
(* memory.  Nothing is left for the destructor either, whose delete does not *)
(* match the new[] the buffers came from.                                    *)
Idle(s)    == \A k \in Kinds : pending[s][k] = 0
Only(s, k) == pending[s][k] = 1 /\ \A j \in Kinds \ {k} : pending[s][j] = 0
Owned(s) ==
  \/ Idle(s) /\ ~data[s] /\ result[s] = NoBuf
  \/ /\ alive[s] = "alive"
     /\ \/ \E k \in {"first", "second"} : Only(s, k) /\ data[s] /\ result[s] = NoBuf
        \/ \E k \in {"write_len", "write"} : Only(s, k) /\ ~data[s] /\ result[s] # NoBuf
HandlerOwns == \A s \in Sessions : Owned(s)

(* Every buffer a session allocated is freed once, on whichever path the     *)
(* session takes: none is overwritten while it is still needed, none twice.  *)
Holds(s) == (IF data[s] THEN 1 ELSE 0) + (IF result[s] = NoBuf THEN 0 ELSE 1)
BuffersFreed == \A s \in Sessions : heap[s] = Holds(s)

(* Requests that arrive while an earlier one is being answered, requests cut *)
(* after their length and peers that leave in the middle: the replies that   *)
(* arrive are the replies to the requests sent, in order, one each.          *)
Service == INSTANCE RequestReply WITH
  Connections <- Sessions, hungup <- [s \in Sessions |-> alive[s] = "deleted"]
InOrder == Service!Spec

(* Every request is answered, or the connection ends: the peer leaves, the   *)
(* session deletes itself, or the server is told to stop.                    *)
Answered ==
  \A s \in Sessions : \A n \in 1..MaxAsked[s] :
    Len(asked[s]) >= n ~>
      \/ Len(answered[s]) >= n \/ ~peer[s] \/ alive[s] = "deleted"
      \/ stopping \/ process # "running"

(* A signal brings the process to its end, with all threads joined, whatever *)
(* the sessions are doing.                                                   *)
ShutsDown == stopping ~> process = "ended"
=============================================================================
