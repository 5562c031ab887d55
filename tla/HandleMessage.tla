--------------------------- MODULE HandleMessage ---------------------------
(***************************************************************************)
(* How the EIMS server handles messages, in                                *)
(* src/文件传送/server/eims_server_terminal/eims_server_terminal.  Each    *)
(* TCP session has a CHandleMessage of its own; all HTTP connections, on   *)
(* HTTPTHREADS threads of one io_service, share that of the one            *)
(* request_handler, and its remote_ip.  handle_message takes the ses (the  *)
(* cipher) and the lua_oper (the virtual machine) of its thread and keeps  *)
(* the pointers in the CHandleMessage, where it reads them again for every *)
(* call.  The module follows the process from its start to its end.        *)
(*                                                                         *)
(* A call on an object has a beginning, when the pointer is read, and an   *)
(* end, when its effect is there.  Two calls on one object at once, one of *)
(* them writing, are undefined: the process may crash, or go on as if they *)
(* had come one after the other.                                           *)
(* What handle_message reads from its own stack, and the database          *)
(* connection of its thread (DbTransaction), is nobody else's.             *)
(***************************************************************************)
EXTENDS Integers, FiniteSets

CONSTANTS
  HttpThreads,  \* those that run the one io_service of http::server
  TcpThreads,   \* those of the sessionpool, one io_service each
  MaxHttp,      \* bound: messages over HTTP
  MaxTcp,       \* bound: messages over TCP
  MaxSignals    \* bound: 1 if a signal may come, else 0

Threads == HttpThreads \cup TcpThreads
None == "none"

ASSUME HMAssumption ==
  /\ IsFiniteSet(Threads) /\ HttpThreads \cap TcpThreads = {} /\ TcpThreads # {}
  /\ MaxHttp \in Nat /\ MaxTcp \in Nat /\ MaxSignals \in {0, 1} /\ {None, "http"} \cap Threads = {}

Requests == 1..(MaxHttp + MaxTcp)
Garbled  == -1                              \* not deciphered with the right key
Nothing  == [of |-> -2, ip |-> 0]           \* no result on the stack of a machine
Error    == [of |-> 0, ip |-> 0]            \* error_message
NoReply    == [of |-> 0, ip |-> 0, key |-> 0]
Nowhere  == <<None, None>>

\* The CHandleMessage a thread works with.  A TCP thread has one session at hand.
Hm(t) == IF t \in HttpThreads THEN "http" ELSE t
Handlers == {"http"} \cup TcpThreads

VARIABLES
  main,         \* server_manager::run_service
  signalled,    \* SIGINT or SIGTERM has come
  stopping,     \* the servers whose io_services are stopped
  dead,         \* the process was terminated
  th,           \* th[t]: where t is in which request, with what on its stack
  remote_ip,    \* of the request_handler: the request whose address it holds
  m_local_ses_, m_lua_oper_,   \* [h]: the thread whose object it points to
  key,          \* key[t] of t's ses: the request whose key it holds, or 0
  top,          \* top[t]: the top of the stack of t's machine
  luavms,       \* the threads that have a machine
  taken,        \* counts the messages of each server
  wrong,        \* history: a request got an answer to something else with
                \* nobody in its way
  met           \* history: two HTTP requests were under way together

procVars == <<main, signalled, stopping>>
hmVars   == <<m_local_ses_, m_lua_oper_>>
objVars  == <<key, top, luavms>>
history  == <<wrong, met>>
vars == <<procVars, dead, th, remote_ip, hmVars, objVars, taken, history>>

Idle == [pc |-> "idle", cur |-> 0, alone |-> TRUE, ip |-> 0, text |-> 0, result |-> Nothing, at |-> Nowhere]

AllIdle == [t \in Threads |-> Idle]
NoPointers == [h \in Handlers |-> None]
NoKeys == [t \in Threads |-> 0]
NoResults == [t \in Threads |-> Nothing]

Init ==
  /\ main = "tcp_server" /\ signalled = FALSE /\ stopping = {} /\ dead = FALSE
  /\ th = AllIdle /\ remote_ip = 0
  /\ m_local_ses_ = NoPointers /\ m_lua_oper_ = NoPointers
  /\ key = NoKeys /\ top = NoResults /\ luavms = {}
  /\ taken = [s \in {"http", "tcp"} |-> 0]
  /\ wrong = FALSE /\ met = FALSE

-----------------------------------------------------------------------------
(* Calls on shared objects.                                                  *)

IpCalls  == {"remote_ip=", "copy_ip"}
SesCalls == {"Decrypt", "Encrypt"}
LuaCalls == {"call_lua_func", "get_return_value", "clear"}
Writes   == {"remote_ip=", "set_key", "call_lua_func", "clear"}

\* What a call by t goes to.  The pointer just assigned need not be read
\* again for set_key, which follows at once.
Objects(t) ==
  LET c == th[t].pc IN
  CASE c \in IpCalls  -> {<<"ip", "http">>}
    [] c = "set_key"  -> {<<"ses", t>>, <<"ses", m_local_ses_[Hm(t)]>>}
    [] c \in SesCalls -> {<<"ses", m_local_ses_[Hm(t)]>>}
    [] c \in LuaCalls -> {<<"lua", m_lua_oper_[Hm(t)]>>}
    [] OTHER          -> {}

\* Calls that only read are one step; those that write have a beginning.
Begin(t) ==
  /\ th[t].pc \in Writes /\ th[t].at = Nowhere
  /\ \E o \in Objects(t) :
       o[2] # None /\ th' = [th EXCEPT ![t].at = o]
  /\ UNCHANGED <<procVars, dead, remote_ip, hmVars, objVars, taken, history>>

\* t reads from o, whatever others do there at the time.
Read(t, call, o) == th[t].pc = call /\ o \in Objects(t) /\ o[2] # None

\* The end of the process, and of its memory.
Dies ==
  /\ dead' = TRUE
  /\ th' = AllIdle /\ remote_ip' = 0 /\ m_local_ses_' = NoPointers /\ m_lua_oper_' = NoPointers
  /\ key' = NoKeys /\ top' = NoResults /\ luavms' = {}
  /\ UNCHANGED <<procVars, taken, history>>

\* A call through a null pointer.
NullCall(t) ==
  /\ th[t].at = Nowhere /\ <<"lua", None>> \in Objects(t)
  /\ Dies

\* A call on an object another thread is writing to.
Clash(t) ==
  /\ th[t].at = Nowhere /\ \E u \in Threads : th[u].at \in Objects(t)
  /\ Dies

In(t, call) == th[t].pc = call /\ th[t].at # Nowhere
At(t) == th[t].at[2]
Goto(t, to) == [th EXCEPT ![t].pc = to, ![t].at = Nowhere]

Own(r)      == [of |-> r, ip |-> r, key |-> r]
ErrorFor(r) == [of |-> 0, ip |-> 0, key |-> r]

\* handle_message returns; without a reply a TCP session deletes itself.
Returns(t, answer) ==
  /\ wrong' = (wrong \/ (th[t].alone /\ answer \notin {NoReply, Own(th[t].cur), ErrorFor(th[t].cur)}))
  /\ th' = [th EXCEPT ![t] = [Idle EXCEPT !.pc =
              IF t \in TcpThreads /\ answer = NoReply THEN "delete" ELSE "idle"]]

-----------------------------------------------------------------------------
(* The handlers of connections and sessions.                                 *)

Server(t) == IF t \in HttpThreads THEN "http" ELSE "tcp"
Others(t) == {u \in HttpThreads \ {t} : th[u].cur # 0}

\* A message has been read.  An HTTP thread first stores the client's address.
Receive(t) ==
  /\ main = "running" /\ th[t].pc = "idle" /\ Server(t) \notin stopping
  /\ taken[Server(t)] < IF t \in HttpThreads THEN MaxHttp ELSE MaxTcp
  /\ taken' = [taken EXCEPT ![Server(t)] = @ + 1]
  /\ IF t \in TcpThreads
     THEN LET r == MaxHttp + taken'["tcp"] IN
          th' = [th EXCEPT ![t].pc = "handle_message", ![t].cur = r, ![t].ip = r] /\ UNCHANGED met
     ELSE /\ th' = [u \in Threads |->
                 CASE u = t -> [th[t] EXCEPT !.pc = "remote_ip=", !.cur = taken'["http"], !.alone = Others(t) = {}]
                   [] u \in Others(t) -> [th[u] EXCEPT !.alone = FALSE]
                   [] OTHER -> th[u]]
          /\ met' = (met \/ Others(t) # {})
  /\ UNCHANGED <<procVars, dead, remote_ip, hmVars, objVars, wrong>>

StoreIp(t) ==
  /\ In(t, "remote_ip=") /\ remote_ip' = th[t].cur /\ th' = Goto(t, "copy_ip")
  /\ UNCHANGED <<procVars, dead, hmVars, objVars, taken, history>>

BadRequest(t) ==
  /\ th[t].pc = "copy_ip" /\ Returns(t, Own(th[t].cur))
  /\ UNCHANGED <<procVars, dead, remote_ip, hmVars, objVars, taken, met>>

CopyIp(t) ==
  /\ Read(t, "copy_ip", <<"ip", "http">>)
  /\ th' = [Goto(t, "handle_message") EXCEPT ![t].ip = remote_ip]
  /\ UNCHANGED <<procVars, dead, remote_ip, hmVars, objVars, taken, history>>

\* A first contact gets its key, unless that fails; others are sent away when
\* their key is not found.  (m_err_reson and m_ecc_, which it uses, are left out.)
GeneralClientInfo(t) ==
  /\ th[t].pc = "handle_message"
  /\ \E answer \in {Own(th[t].cur), NoReply} : Returns(t, answer)
  /\ UNCHANGED <<procVars, dead, remote_ip, hmVars, objVars, taken, met>>

\* Mutant: the map has one entry for all threads.
SesOperGrabOne(t) ==
  /\ th[t].pc = "handle_message" /\ th' = Goto(t, "set_key")
  /\ m_local_ses_' = [m_local_ses_ EXCEPT ![Hm(t)] = CHOOSE u \in Threads : TRUE]
  /\ UNCHANGED <<procVars, dead, remote_ip, m_lua_oper_, objVars, taken, history>>
SesOperGrab(t) ==
  /\ th[t].pc = "handle_message" /\ th' = Goto(t, "set_key")
  /\ m_local_ses_' = [m_local_ses_ EXCEPT ![Hm(t)] = t]
  /\ UNCHANGED <<procVars, dead, remote_ip, m_lua_oper_, objVars, taken, history>>

\* Mutant: a key is set only once.
SetKeyOnce(t) ==
  /\ In(t, "set_key") /\ th' = Goto(t, "Decrypt")
  /\ key' = [key EXCEPT ![At(t)] = IF @ = 0 THEN th[t].cur ELSE @]
  /\ UNCHANGED <<procVars, dead, remote_ip, hmVars, top, luavms, taken, history>>
\* Stored keys have 24 characters: that a key of less than 16 is refused is left out.
SetKey(t) ==
  /\ In(t, "set_key") /\ th' = Goto(t, "Decrypt")
  /\ key' = [key EXCEPT ![At(t)] = th[t].cur]
  /\ UNCHANGED <<procVars, dead, remote_ip, hmVars, top, luavms, taken, history>>

\* With another key the text is garbage, which may show at once.
Decrypt(t) ==
  \E u \in Threads :
  /\ Read(t, "Decrypt", <<"ses", u>>) /\ key[u] # 0
  /\ IF key[u] = th[t].cur
     THEN th' = [Goto(t, "lua_vm_grab") EXCEPT ![t].text = th[t].cur] /\ UNCHANGED wrong
     ELSE \/ th' = [Goto(t, "lua_vm_grab") EXCEPT ![t].text = Garbled] /\ UNCHANGED wrong
          \/ Returns(t, NoReply)
  /\ UNCHANGED <<procVars, dead, remote_ip, hmVars, objVars, taken, met>>

\* A ses without a key throws a string, which nobody catches.
SesThrows(t) ==
  /\ th[t].pc \in {"Decrypt", "Encrypt"} /\ key[m_local_ses_[Hm(t)]] = 0
  /\ Dies

\* The thread's machine; a new one may fail to load the scripts.
LuaVmGrab(t) ==
  /\ th[t].pc = "lua_vm_grab"
  /\ \/ /\ luavms' = luavms \cup {t} /\ m_lua_oper_' = [m_lua_oper_ EXCEPT ![Hm(t)] = t]
        /\ th' = Goto(t, "call_lua_func") /\ UNCHANGED wrong
     \/ /\ t \notin luavms /\ m_lua_oper_' = [m_lua_oper_ EXCEPT ![Hm(t)] = None]
        /\ Returns(t, NoReply) /\ UNCHANGED luavms
  /\ UNCHANGED <<procVars, dead, remote_ip, m_local_ses_, key, top, taken, met>>

\* A script that fails leaves its message on the stack, where nobody looks.
CallLuaFunc(t) ==
  /\ In(t, "call_lua_func")
  /\ \/ /\ th' = [Goto(t, "get_return_value") EXCEPT ![t].text = 0, ![t].ip = 0]
        /\ top' = [top EXCEPT ![At(t)] =
                     IF th[t].text = Garbled THEN Error ELSE [of |-> th[t].text, ip |-> th[t].ip]]
     \/ /\ th' = [Goto(t, "clear") EXCEPT ![t].text = 0, ![t].ip = 0, ![t].result = Error]
        /\ top' = [top EXCEPT ![At(t)] = Error]
  /\ UNCHANGED <<procVars, dead, remote_ip, hmVars, key, luavms, taken, history>>

GetReturnValue(t) ==
  \E u \in Threads :
  /\ Read(t, "get_return_value", <<"lua", u>>)
  /\ th' = [Goto(t, "clear") EXCEPT ![t].result = IF top[u] = Nothing THEN Error ELSE top[u]]
  /\ UNCHANGED <<procVars, dead, remote_ip, hmVars, objVars, taken, history>>

Clear(t) ==
  /\ In(t, "clear") /\ th' = Goto(t, "Encrypt")
  /\ top' = [top EXCEPT ![At(t)] = Nothing]
  /\ UNCHANGED <<procVars, dead, remote_ip, hmVars, key, luavms, taken, history>>

\* format_return_message.
Encrypt(t) ==
  \E u \in Threads :
  /\ Read(t, "Encrypt", <<"ses", u>>) /\ key[u] # 0
  /\ Returns(t, [of |-> th[t].result.of, ip |-> th[t].result.ip, key |-> key[u]])
  /\ UNCHANGED <<procVars, dead, remote_ip, hmVars, objVars, taken, met>>

\* A session ends, its CHandleMessage clears the machine; the next has a new one.
DeleteSession(t) ==
  /\ \/ th[t].pc = "delete"
     \/ th[t].pc = "idle" /\ m_lua_oper_[Hm(t)] # None /\ "tcp" \notin stopping
  /\ t \in TcpThreads /\ th' = Goto(t, "idle")
  /\ top' = [u \in Threads |-> IF u = m_lua_oper_[Hm(t)] THEN Nothing ELSE top[u]]
  /\ m_lua_oper_' = [m_lua_oper_ EXCEPT ![Hm(t)] = None]
  /\ UNCHANGED <<procVars, dead, remote_ip, m_local_ses_, key, luavms, taken, history>>

-----------------------------------------------------------------------------
(* run_service.                                                              *)

\* The constructors bind their ports; what they throw leaves main.
NewServer ==
  /\ \/ main = "tcp_server" /\ main' = "http_server"
     \/ main = "http_server" /\ main' = "running"
  /\ UNCHANGED <<signalled, stopping, dead, th, remote_ip, hmVars, objVars, taken, history>>
BindFails ==
  /\ main \in {"tcp_server", "http_server"} /\ Dies

Signal ==
  /\ main = "running" /\ ~signalled /\ MaxSignals = 1 /\ signalled' = TRUE
  /\ UNCHANGED <<main, stopping, dead, th, remote_ip, hmVars, objVars, taken, history>>

\* handle_stop runs on a thread of its server: any of http::server's, the one
\* of the first io_service of the sessionpool.
StopThreads(s) == IF s = "http" THEN HttpThreads ELSE {CHOOSE t \in TcpThreads : TRUE}

\* Mutant: the HTTP server does not hear of signals.
MayStopTcp(s) == signalled /\ s \notin stopping /\ s = "tcp" /\ \E t \in StopThreads(s) : th[t].pc = "idle"
MayStop(s)    == signalled /\ s \notin stopping /\ \E t \in StopThreads(s) : th[t].pc = "idle"
HandleStop(s) ==
  /\ MayStop(s) /\ stopping' = stopping \cup {s}
  /\ UNCHANGED <<main, signalled, dead, th, remote_ip, hmVars, objVars, taken, history>>

\* A stopped io_service starts no further handler.
Ended(t) == th[t].pc = "idle" /\ Server(t) \in stopping

\* Mutant: the HTTP threads are not waited for.
MayJoinTcp == main = "running" /\ \A t \in TcpThreads : Ended(t)
MayJoin == main = "running" /\ \A t \in Threads : Ended(t)
Join ==
  /\ MayJoin /\ main' = "joined"
  /\ UNCHANGED <<signalled, stopping, dead, th, remote_ip, hmVars, objVars, taken, history>>

DeleteAll ==
  /\ main = "joined" /\ main' = "deleted"
  /\ luavms' = {} /\ UNCHANGED <<key, top>>
  /\ UNCHANGED <<signalled, stopping, dead, th, remote_ip, hmVars, taken, history>>

\* The request_handler dies with http::server, and its CHandleMessage clears
\* a machine that is there no longer.
DeleteServers ==
  /\ main = "deleted"
  /\ \/ /\ main' = "exited"
        /\ UNCHANGED <<signalled, stopping, dead, th, remote_ip, hmVars, objVars, taken, history>>
     \/ m_lua_oper_["http"] # None /\ Dies

Calls(t) ==
  \/ Begin(t) \/ NullCall(t) \/ StoreIp(t) \/ BadRequest(t) \/ CopyIp(t)
  \/ GeneralClientInfo(t) \/ SesOperGrab(t) \/ SetKey(t) \/ Decrypt(t)
  \/ LuaVmGrab(t) \/ CallLuaFunc(t) \/ GetReturnValue(t) \/ Clear(t)
  \/ Encrypt(t) \/ SesThrows(t)
Main == NewServer \/ (\E s \in {"http", "tcp"} : HandleStop(s)) \/ Join \/ DeleteAll \/ DeleteServers

Step ==
  /\ ~dead
  /\ \/ \E t \in Threads : Receive(t) \/ Calls(t) \/ Clash(t) \/ DeleteSession(t)
     \/ Main \/ BindFails \/ Signal

\* The process has ended.  It may not come to rest anywhere else: TLC looks
\* for deadlocks.
Over == dead \/ main = "exited"
Terminated == Over /\ UNCHANGED vars

Next == Step \/ Terminated
Spec == Init /\ [][Next]_vars

-----------------------------------------------------------------------------
\* Types.  A machine in use exists, and so does one that is pointed to while
\* the servers run: the threads end before the machines are deleted.
TypeOK ==
  /\ main \in {"tcp_server", "http_server", "running", "joined", "deleted", "exited"}
  /\ {signalled, dead, wrong, met} \subseteq BOOLEAN
  /\ stopping \subseteq {"http", "tcp"} /\ taken["http"] \in 0..MaxHttp /\ taken["tcp"] \in 0..MaxTcp
  /\ remote_ip \in {0} \cup Requests /\ key \in [Threads -> {0} \cup Requests]
  /\ luavms \subseteq Threads
  /\ \A h \in Handlers : m_local_ses_[h] \in Threads \cup {None}
  /\ \A h \in Handlers : m_lua_oper_[h] \in (IF main = "deleted" \/ main = "exited" THEN Threads ELSE luavms) \cup {None}
  /\ \A t \in Threads : th[t].at[1] = "lua" => At(t) \in luavms

\* A TCP session always gets the answer to its own message, made with its own
\* address and under its own key, whatever was there before and whatever the
\* HTTP threads do.  So does an HTTP request that had the server to itself,
\* however much requests before it got in each other's way.
OwnReply == ~wrong

\* Nothing but HTTP requests under way together ends a running server early.
OnlyTogetherKills == dead /\ main = "running" => met

\* A process that was told to stop has something left to do until it ends, in
\* one way or the other, and nobody waits for somebody for ever: a thread in
\* the middle of a request has its next step before it (a call that has begun
\* ends, and one that reads a pointer goes where it leads, if only to a crash),
\* or a server still hears of the signal, or main has everybody it waits for.
GoesOn(t) ==
  \/ th[t].pc \in {"copy_ip", "handle_message", "lua_vm_grab", "delete"}
  \/ th[t].at # Nowhere \/ \E o \in Objects(t) : o[2] # None \/ o[1] = "lua"
Stops ==
  signalled /\ ~Over =>
    \/ \E t \in Threads : GoesOn(t)
    \/ \E s \in {"http", "tcp"} : MayStop(s)
    \/ MayJoin \/ main \in {"joined", "deleted"}
=============================================================================
