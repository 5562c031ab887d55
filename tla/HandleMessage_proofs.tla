------------------------ MODULE HandleMessage_proofs ------------------------
(***************************************************************************)
(* What holds of the messages under way, for any number of HTTP and TCP    *)
(* threads and of messages: a request nobody was in the way of finds its   *)
(* own address, key and machine at every step, so that only HTTP requests  *)
(* that met get each other's answers or end the server.  And at the end:   *)
(* a process that was told to stop comes to rest only when it has ended.   *)
(***************************************************************************)
EXTENDS HandleMessage, TLAPS

-----------------------------------------------------------------------------
(* The invariant.  First the types.                                          *)
Results == [of : {-2, Garbled, 0} \cup Requests, ip : {0} \cup Requests]
Asleep  == {"idle", "delete"}
Asked   == {"remote_ip=", "copy_ip", "handle_message"}
Calling == {"call_lua_func", "get_return_value", "clear"}
Locked  == {"set_key", "Decrypt", "lua_vm_grab", "Encrypt"} \cup Calling
Spots   == {Nowhere, <<"ip", "http">>} \cup ({"ses", "lua"} \X Threads)
States ==
  [pc : Asleep \cup Asked \cup Locked, cur : {0} \cup Requests, alone : BOOLEAN,
   ip : {0} \cup Requests, text : {0, Garbled} \cup Requests, result : Results, at : Spots]

ThreadTypes == th \in [Threads -> States]
TypeInv ==
  /\ main \in {"tcp_server", "http_server", "running", "joined", "deleted", "exited"}
  /\ signalled \in BOOLEAN /\ dead \in BOOLEAN /\ wrong \in BOOLEAN /\ met \in BOOLEAN
  /\ stopping \subseteq {"http", "tcp"}
  /\ taken \in [{"http", "tcp"} -> Nat] /\ taken["http"] <= MaxHttp /\ taken["tcp"] <= MaxTcp
  /\ remote_ip \in {0} \cup Requests
  /\ key \in [Threads -> {0} \cup Requests] /\ top \in [Threads -> Results]
  /\ luavms \subseteq Threads
  /\ ThreadTypes

(* The objects a thread can come to: an HTTP thread those of the HTTP        *)
(* threads, a TCP thread its own.                                            *)
Reach(t) == IF t \in HttpThreads THEN HttpThreads ELSE {t}
Pointers ==
  /\ m_local_ses_ \in [Handlers -> Threads \cup {None}]
  /\ m_lua_oper_ \in [Handlers -> Threads \cup {None}]
  /\ \A t \in Threads : /\ m_local_ses_[Hm(t)] \in Reach(t) \cup {None}
                        /\ m_lua_oper_[Hm(t)] \in Reach(t) \cup {None}

(* Where a thread is says whether it has a request, which calls it can be in *)
(* the middle of, and that the servers run.                                  *)
Place(t) ==
  /\ th[t].cur = 0 <=> th[t].pc \in Asleep
  /\ th[t].pc # "idle" => main = "running"
  /\ th[t].pc \in IpCalls => t \in HttpThreads
  /\ th[t].at # Nowhere =>
       \/ th[t].pc = "remote_ip=" /\ th[t].at = <<"ip", "http">>
       \/ th[t].pc = "set_key" /\ th[t].at \in {"ses"} \X Reach(t)
       \/ th[t].pc \in {"call_lua_func", "clear"} /\ th[t].at \in {"lua"} \X Reach(t)

(* A machine that is pointed to, or that a call is going on in, is there.    *)
Machines ==
  /\ main \notin {"deleted", "exited"} => \A h \in Handlers : m_lua_oper_[h] \in luavms \cup {None}
  /\ \A t \in Threads : th[t].at[1] = "lua" => At(t) \in luavms

(* Who is alone.                                                             *)
Busy(t) == th[t].cur # 0
Company ==
  /\ \A t \in TcpThreads : th[t].alone
  /\ \A t, u \in HttpThreads : t # u /\ Busy(t) /\ Busy(u) => ~th[t].alone
  /\ \A t \in Threads : ~th[t].alone => met

(* What a request with nobody in its way finds.                              *)
Mine(t) == [of |-> th[t].cur, ip |-> th[t].cur]
Undisturbed(t) ==
  /\ th[t].at \in {Nowhere, <<"ip", "http">>, <<"ses", t>>, <<"lua", t>>}
  /\ th[t].pc = "copy_ip" => remote_ip = th[t].cur
  /\ th[t].pc \in {"handle_message", "set_key", "Decrypt", "lua_vm_grab", "call_lua_func"} =>
       th[t].ip = th[t].cur
  /\ th[t].pc \in Locked => m_local_ses_[Hm(t)] = t
  /\ th[t].pc \in Locked \ {"set_key"} => key[t] = th[t].cur
  /\ th[t].pc \in {"lua_vm_grab", "call_lua_func"} => th[t].text = th[t].cur
  /\ th[t].pc \in Calling => m_lua_oper_[Hm(t)] = t
  /\ th[t].pc = "get_return_value" => top[t] = Mine(t)
  /\ th[t].pc \in {"clear", "Encrypt"} => th[t].result \in {Error, Mine(t)}
Quiet(t) == Busy(t) /\ th[t].alone => Undisturbed(t)

Faultless == ~wrong /\ (dead /\ main = "running" => met)
HandleInv ==
  /\ TypeInv /\ Pointers /\ (\A t \in Threads : Place(t)) /\ Machines /\ Company
  /\ (\A t \in Threads : Quiet(t)) /\ Faultless

-----------------------------------------------------------------------------
(* The threads and what they call.                                           *)
LEMMA ThreadFacts ==
  /\ None \notin Threads /\ "http" \notin Threads /\ MaxHttp \in Nat /\ MaxTcp \in Nat
  /\ HttpThreads \subseteq Threads /\ TcpThreads \subseteq Threads
  /\ \A t \in Threads : t \in HttpThreads <=> t \notin TcpThreads
  /\ \A t \in Threads : Hm(t) \in Handlers /\ Reach(t) \subseteq Threads /\ t \in Reach(t)
  /\ \A t, u \in Threads : Hm(t) = Hm(u) <=> u \in Reach(t)
  /\ 0 \notin Requests /\ Requests \subseteq Nat
<1>1. None \notin Threads /\ "http" \notin Threads /\ MaxHttp \in Nat /\ MaxTcp \in Nat
  BY HMAssumption
<1>2. 0 \notin Requests /\ Requests \subseteq Nat
  BY <1>1 DEF Requests
<1>3. /\ HttpThreads \subseteq Threads /\ TcpThreads \subseteq Threads
      /\ \A t \in Threads : t \in HttpThreads <=> t \notin TcpThreads
  BY HMAssumption DEF Threads
<1>4. \A t \in Threads : Hm(t) \in Handlers /\ Reach(t) \subseteq Threads /\ t \in Reach(t)
  BY <1>3 DEF Hm, Handlers, Reach
<1>5. \A t, u \in Threads : Hm(t) = Hm(u) <=> u \in Reach(t)
  BY <1>1, <1>3 DEF Hm, Reach
<1> QED
  BY <1>1, <1>2, <1>3, <1>4, <1>5

LEMMA ObjectsOf ==
  ASSUME NEW t \in Threads
  PROVE  /\ th[t].pc \in IpCalls => Objects(t) = {<<"ip", "http">>}
         /\ th[t].pc = "set_key" => Objects(t) = {<<"ses", t>>, <<"ses", m_local_ses_[Hm(t)]>>}
         /\ th[t].pc \in SesCalls => Objects(t) = {<<"ses", m_local_ses_[Hm(t)]>>}
         /\ th[t].pc \in LuaCalls => Objects(t) = {<<"lua", m_lua_oper_[Hm(t)]>>}
         /\ th[t].pc \notin IpCalls \cup {"set_key"} \cup SesCalls \cup LuaCalls => Objects(t) = {}
<1> USE DEF IpCalls, SesCalls, LuaCalls
<1>1. th[t].pc \in IpCalls => Objects(t) = {<<"ip", "http">>}
  BY DEF Objects
<1>2. th[t].pc = "set_key" => Objects(t) = {<<"ses", t>>, <<"ses", m_local_ses_[Hm(t)]>>}
  BY DEF Objects
<1>3. th[t].pc \in SesCalls => Objects(t) = {<<"ses", m_local_ses_[Hm(t)]>>}
  BY DEF Objects
<1>4. th[t].pc \in LuaCalls => Objects(t) = {<<"lua", m_lua_oper_[Hm(t)]>>}
  BY DEF Objects
<1>5. th[t].pc \notin IpCalls \cup {"set_key"} \cup SesCalls \cup LuaCalls => Objects(t) = {}
  BY DEF Objects
<1> QED
  BY <1>1, <1>2, <1>3, <1>4, <1>5

(* A thread that goes on, and one that returns.                              *)
Going(t, to, a) ==
  /\ ThreadTypes' /\ \A u \in Threads \ {t} : th'[u] = th[u]
  /\ th'[t].pc = to /\ th'[t].cur = th[t].cur /\ th'[t].alone = th[t].alone /\ th'[t].at = a
Returned(t) ==
  /\ ThreadTypes' /\ \A u \in Threads \ {t} : th'[u] = th[u]
  /\ th'[t].pc \in Asleep /\ th'[t].cur = 0 /\ th'[t].alone = TRUE /\ th'[t].at = Nowhere

LEMMA GotoIs ==
  ASSUME ThreadTypes, NEW t \in Threads, NEW to \in Asleep \cup Asked \cup Locked
  PROVE  /\ th' = Goto(t, to) =>
              /\ Going(t, to, Nowhere)
              /\ th'[t].ip = th[t].ip /\ th'[t].text = th[t].text /\ th'[t].result = th[t].result
         /\ \A x \in {0} \cup Requests : th' = [Goto(t, to) EXCEPT ![t].ip = x] =>
              /\ Going(t, to, Nowhere)
              /\ th'[t].ip = x /\ th'[t].text = th[t].text /\ th'[t].result = th[t].result
         /\ \A x \in {0, Garbled} \cup Requests : th' = [Goto(t, to) EXCEPT ![t].text = x] =>
              /\ Going(t, to, Nowhere)
              /\ th'[t].ip = th[t].ip /\ th'[t].text = x /\ th'[t].result = th[t].result
         /\ \A x \in Results : th' = [Goto(t, to) EXCEPT ![t].result = x] =>
              /\ Going(t, to, Nowhere)
              /\ th'[t].ip = th[t].ip /\ th'[t].text = th[t].text /\ th'[t].result = x
<1>1. Nowhere \in Spots
  BY DEF Spots
<1> USE <1>1 DEF ThreadTypes, States, Going, Goto
<1>2. ASSUME th' = Goto(t, to)
      PROVE  /\ Going(t, to, Nowhere)
             /\ th'[t].ip = th[t].ip /\ th'[t].text = th[t].text /\ th'[t].result = th[t].result
  BY <1>2
<1>3. ASSUME NEW x \in {0} \cup Requests, th' = [Goto(t, to) EXCEPT ![t].ip = x]
      PROVE  /\ Going(t, to, Nowhere)
             /\ th'[t].ip = x /\ th'[t].text = th[t].text /\ th'[t].result = th[t].result
  BY <1>3
<1>4. ASSUME NEW x \in {0, Garbled} \cup Requests, th' = [Goto(t, to) EXCEPT ![t].text = x]
      PROVE  /\ Going(t, to, Nowhere)
             /\ th'[t].ip = th[t].ip /\ th'[t].text = x /\ th'[t].result = th[t].result
  BY <1>4
<1>5. ASSUME NEW x \in Results, th' = [Goto(t, to) EXCEPT ![t].result = x]
      PROVE  /\ Going(t, to, Nowhere)
             /\ th'[t].ip = th[t].ip /\ th'[t].text = th[t].text /\ th'[t].result = x
  BY <1>5
<1> QED
  BY <1>2, <1>3, <1>4, <1>5

LEMMA IdleIs == Idle \in States /\ [Idle EXCEPT !.pc = "delete"] \in States
<1>1. Nothing \in Results /\ Nowhere \in Spots
  BY DEF Nothing, Results, Spots
<1> QED
  BY <1>1 DEF Idle, States, Asleep

LEMMA ReturnsIs ==
  ASSUME ThreadTypes, NEW t \in Threads, NEW answer, Returns(t, answer)
  PROVE  /\ Returned(t)
         /\ wrong' = (wrong \/ (th[t].alone /\ answer \notin {NoReply, Own(th[t].cur), ErrorFor(th[t].cur)}))
<1> DEFINE p == IF t \in TcpThreads /\ answer = NoReply THEN "delete" ELSE "idle"
           r == [Idle EXCEPT !.pc = p]
<1>1. p \in Asleep /\ r \in States
  BY IdleIs DEF Asleep, Idle, States, Nothing
<1>2. r.pc = p /\ r.cur = 0 /\ r.alone = TRUE /\ r.at = Nowhere
  BY DEF Idle
<1>3. th' = [th EXCEPT ![t] = r]
  BY DEF Returns
<1> HIDE DEF p, r
<1>4. th'[t] = r /\ ThreadTypes' /\ \A u \in Threads \ {t} : th'[u] = th[u]
  BY <1>1, <1>3 DEF ThreadTypes
<1> QED
  BY <1>1, <1>2, <1>4 DEF Returns, Returned

-----------------------------------------------------------------------------
(* A step of one thread leaves alone what is out of its reach.               *)
Local(v) ==
  /\ UNCHANGED <<procVars, dead, taken, met>>
  /\ \A u \in Threads \ {v} : th'[u] = th[u]
  /\ \A u \in Threads \ Reach(v) :
       /\ key'[u] = key[u] /\ top'[u] = top[u]
       /\ m_local_ses_'[Hm(u)] = m_local_ses_[Hm(u)] /\ m_lua_oper_'[Hm(u)] = m_lua_oper_[Hm(u)]
  /\ v \in TcpThreads => remote_ip' = remote_ip

(* So it does not disturb a request that is alone: two busy HTTP threads     *)
(* are not, and every other pair has nothing in common.                      *)
LEMMA OthersQuiet ==
  ASSUME Company, NEW v \in Threads, NEW u \in Threads \ {v},
         Busy(v) \/ v \in TcpThreads, Local(v), Quiet(u), Place(u)
  PROVE  Quiet(u)'
<1> SUFFICES ASSUME Busy(u)', th'[u].alone PROVE Undisturbed(u)'
  BY DEF Quiet
<1>1. th'[u] = th[u]
  BY DEF Local
<1>2. Busy(u) /\ th[u].alone /\ Undisturbed(u)
  BY <1>1 DEF Quiet, Busy
<1>3. u \notin Reach(v)
  <2>1. CASE v \in TcpThreads
    BY <2>1, ThreadFacts DEF Reach
  <2>2. CASE v \notin TcpThreads
    BY <1>2, <2>2, ThreadFacts DEF Company, Reach
  <2> QED
    BY <2>1, <2>2
<1>4. /\ key'[u] = key[u] /\ top'[u] = top[u]
      /\ m_local_ses_'[Hm(u)] = m_local_ses_[Hm(u)] /\ m_lua_oper_'[Hm(u)] = m_lua_oper_[Hm(u)]
  BY <1>3 DEF Local
<1>5. th[u].pc = "copy_ip" => remote_ip' = th[u].cur
  <2>1. CASE v \in TcpThreads
    BY <1>2, <2>1 DEF Local, Undisturbed
  <2>2. CASE v \notin TcpThreads
    <3>1. u \notin HttpThreads
      BY <1>2, <2>2, ThreadFacts DEF Company
    <3> QED
      BY <3>1 DEF Place, IpCalls
  <2> QED
    BY <2>1, <2>2
<1> QED
  BY <1>1, <1>2, <1>4, <1>5 DEF Undisturbed, Mine

LEMMA Assemble ==
  ASSUME HandleInv, NEW v \in Threads, Busy(v) \/ v \in TcpThreads, Local(v),
         th'[v].cur \in {0, th[v].cur}, th'[v].alone = TRUE \/ th'[v].alone = th[v].alone,
         th'[v].cur # 0 => th'[v].alone = th[v].alone,
         TypeInv', Pointers', Place(v)', Machines', Quiet(v)', ~wrong'
  PROVE  HandleInv'
<1> USE DEF HandleInv
<1>1. ASSUME NEW u \in Threads \ {v} PROVE Place(u)' /\ Quiet(u)'
  <2>1. Quiet(u)'
    BY OthersQuiet
  <2>2. Place(u)'
    <3>1. Place(u) /\ th'[u] = th[u] /\ main' = main
      BY DEF Local, procVars
    <3> QED
      BY <3>1 DEF Place
  <2> QED
    BY <2>1, <2>2
<1>2. Company'
  <2>1. Company /\ met' = met /\ \A u \in Threads \ {v} : th'[u] = th[u]
    BY DEF Local
  <2>2. \A u \in Threads : th[u].alone => th'[u].alone
    BY <2>1
  <2>3. \A u \in Threads : Busy(u)' => Busy(u) /\ th'[u].alone = th[u].alone
    BY <2>1 DEF Busy
  <2>4. \A u \in TcpThreads : th'[u].alone
    BY <2>1, <2>2, ThreadFacts DEF Company
  <2>5. \A t, u \in HttpThreads : t # u /\ Busy(t)' /\ Busy(u)' => ~th'[t].alone
    BY <2>1, <2>3, ThreadFacts DEF Company
  <2>6. \A t \in Threads : ~th'[t].alone => met'
    BY <2>1, <2>2 DEF Company
  <2> QED
    BY <2>4, <2>5, <2>6 DEF Company
<1>3. Faultless'
  BY DEF Local, Faultless, procVars
<1> QED
  BY <1>1, <1>2, <1>3

(* A thread goes on with its request, and leaves the pointers alone.         *)
LEMMA Goes ==
  ASSUME HandleInv, NEW v \in Threads, Busy(v), NEW to \in Asked \cup Locked,
         to \in IpCalls => v \in HttpThreads, Going(v, to, Nowhere),
         UNCHANGED <<procVars, dead, hmVars, luavms, taken, history>>,
         remote_ip' \in {0} \cup Requests, v \in TcpThreads => remote_ip' = remote_ip,
         key' \in [Threads -> {0} \cup Requests], top' \in [Threads -> Results],
         \A u \in Threads \ Reach(v) : key'[u] = key[u] /\ top'[u] = top[u],
         th[v].alone => Undisturbed(v)'
  PROVE  HandleInv'
<1> USE DEF HandleInv
<1>1. Local(v)
  BY DEF Local, Going, hmVars, history
<1>2. TypeInv'
  BY DEF TypeInv, Going, procVars, history
<1>3. Pointers'
  BY DEF Pointers, hmVars
<1>4. Place(v)'
  <2>1. th[v].pc # "idle" /\ main = "running"
    BY DEF Place, Busy, Asleep
  <2>2. to \notin Asleep /\ to # "idle"
    BY DEF Asked, Locked, Calling, Asleep
  <2> QED
    BY <2>1, <2>2 DEF Place, Going, Busy, procVars
<1>5. Machines'
  <2>1. /\ \A t \in Threads : th'[t].at[1] = "lua" => th'[t].at = th[t].at
        /\ UNCHANGED <<main, m_lua_oper_, luavms>>
    BY DEF Going, Nowhere, None, procVars, hmVars
  <2> QED
    BY <2>1 DEF Machines, At
<1>6. Quiet(v)'
  BY DEF Quiet, Going
<1>7. ~wrong'
  BY DEF Faultless, history
<1>8. th'[v].cur = th[v].cur /\ th'[v].alone = th[v].alone
  BY DEF Going
<1> QED
  BY <1>1, <1>2, <1>3, <1>4, <1>5, <1>6, <1>7, <1>8, Assemble

(* It returns.                                                               *)
LEMMA ComesBack ==
  ASSUME HandleInv, NEW v \in Threads, Busy(v), Returned(v), wrong' = FALSE,
         UNCHANGED <<procVars, dead, remote_ip, hmVars, objVars, taken, met>>
  PROVE  HandleInv'
<1> USE DEF HandleInv
<1>1. Local(v)
  BY DEF Local, Returned, hmVars, objVars
<1>2. TypeInv'
  BY DEF TypeInv, Returned, procVars, objVars
<1>3. Pointers'
  BY DEF Pointers, hmVars
<1>4. Place(v)'
  <2>1. th[v].pc # "idle" /\ main = "running"
    BY DEF Place, Busy, Asleep
  <2>2. th'[v].pc \notin IpCalls
    BY DEF Returned, Asleep, IpCalls
  <2> QED
    BY <2>1, <2>2 DEF Place, Returned, procVars
<1>5. Machines'
  <2>1. /\ \A t \in Threads : th'[t].at[1] = "lua" => th'[t].at = th[t].at
        /\ UNCHANGED <<main, m_lua_oper_, luavms>>
    BY DEF Returned, Nowhere, None, procVars, hmVars, objVars
  <2> QED
    BY <2>1 DEF Machines, At
<1>6. Quiet(v)'
  BY DEF Quiet, Returned, Busy
<1>7. th'[v].cur = 0 /\ th'[v].alone = TRUE
  BY DEF Returned
<1> QED
  BY <1>1, <1>2, <1>3, <1>4, <1>5, <1>6, <1>7, Assemble

-----------------------------------------------------------------------------
(* The calls, one by one: each keeps the invariant.                          *)
LEMMA BusyIf == \A t \in Threads : Place(t) /\ th[t].pc \notin Asleep => Busy(t)
BY DEF Place, Busy

(* What a thread reads from, or writes to, is in its reach; it is its own    *)
(* when it is alone.                                                         *)
LEMMA InReach ==
  ASSUME NEW t \in Threads, Place(t), th[t].at # Nowhere, ThreadTypes
  PROVE  /\ th[t].pc # "remote_ip=" => At(t) \in Reach(t) /\ At(t) \in Threads
         /\ th[t].pc # "remote_ip=" /\ Undisturbed(t) => At(t) = t
<1>1. CASE th[t].pc = "set_key" /\ th[t].at \in {"ses"} \X Reach(t)
  <2>1. PICK o \in Reach(t) : th[t].at = <<"ses", o>>
    BY <1>1
  <2> QED
    BY <2>1, ThreadFacts DEF At, Undisturbed, Nowhere
<1>2. CASE th[t].pc \in {"call_lua_func", "clear"} /\ th[t].at \in {"lua"} \X Reach(t)
  <2>1. PICK o \in Reach(t) : th[t].at = <<"lua", o>>
    BY <1>2
  <2> QED
    BY <2>1, ThreadFacts DEF At, Undisturbed, Nowhere
<1> QED
  BY <1>1, <1>2 DEF Place

LEMMA StepBegin == ASSUME HandleInv, NEW t \in Threads, Begin(t) PROVE HandleInv'
<1> USE DEF HandleInv
<1>1. th[t].pc \in Writes /\ th[t].at = Nowhere /\ ThreadTypes
  BY DEF Begin, TypeInv
<1>2. PICK o \in Objects(t) : o[2] # None /\ th' = [th EXCEPT ![t].at = o]
  BY DEF Begin
<1>3. main = "running" /\ Busy(t)
  BY <1>1 DEF Place, Writes, Asleep, Busy
<1>4. Reach(t) \subseteq Threads /\ t \in Reach(t) /\ None \notin Threads
  BY ThreadFacts
<1>5. m_local_ses_[Hm(t)] \in Reach(t) \cup {None} /\ m_lua_oper_[Hm(t)] \in Reach(t) \cup {None}
  BY DEF Pointers
<1>6. /\ o \in Spots /\ o # Nowhere
      /\ \/ th[t].pc = "remote_ip=" /\ o = <<"ip", "http">>
         \/ th[t].pc = "set_key" /\ o \in {"ses"} \X Reach(t)
         \/ /\ th[t].pc \in {"call_lua_func", "clear"}
            /\ o = <<"lua", m_lua_oper_[Hm(t)]>> /\ o \in {"lua"} \X Reach(t)
  <2>1. CASE th[t].pc = "remote_ip="
    <3>1. o = <<"ip", "http">>
      BY <2>1, ObjectsOf DEF IpCalls
    <3> QED
      BY <2>1, <3>1 DEF Spots, Nowhere, None
  <2>2. CASE th[t].pc = "set_key"
    <3>1. o = <<"ses", t>> \/ o = <<"ses", m_local_ses_[Hm(t)]>>
      BY <2>2, ObjectsOf
    <3>2. PICK u \in Reach(t) : o = <<"ses", u>>
      BY <1>2, <1>4, <1>5, <3>1
    <3> QED
      BY <1>4, <2>2, <3>2 DEF Spots, Nowhere, None
  <2>3. CASE th[t].pc \in {"call_lua_func", "clear"}
    <3>1. o = <<"lua", m_lua_oper_[Hm(t)]>>
      BY <2>3, ObjectsOf DEF LuaCalls
    <3>2. m_lua_oper_[Hm(t)] \in Reach(t)
      BY <1>2, <1>5, <3>1
    <3> QED
      BY <1>4, <2>3, <3>1, <3>2 DEF Spots, Nowhere, None
  <2> QED
    BY <1>1, <2>1, <2>2, <2>3 DEF Writes
<1>7. /\ Going(t, th[t].pc, o)
      /\ th'[t].ip = th[t].ip /\ th'[t].text = th[t].text /\ th'[t].result = th[t].result
  BY <1>1, <1>2, <1>6 DEF Going, ThreadTypes, States
<1>8. UNCHANGED <<procVars, dead, remote_ip, hmVars, objVars, taken, history>>
  BY DEF Begin
<1>9. Local(t)
  BY <1>7, <1>8 DEF Local, Going, hmVars, objVars, history
<1>10. TypeInv'
  BY <1>7, <1>8 DEF TypeInv, Going, procVars, history, objVars
<1>11. Pointers'
  BY <1>8 DEF Pointers, hmVars
<1>12. Place(t)'
  BY <1>6, <1>7, <1>8 DEF Place, Going, procVars
<1>13. Machines'
  <2>1. UNCHANGED <<main, m_lua_oper_, luavms>>
    BY <1>8 DEF procVars, hmVars, objVars
  <2>2. ASSUME NEW u \in Threads, th'[u].at[1] = "lua" PROVE th'[u].at[2] \in luavms
    <3>1. CASE u # t
      BY <1>7, <2>2, <3>1 DEF Going, Machines, At
    <3>2. CASE u = t
      <4>1. th'[u].at = <<"lua", m_lua_oper_[Hm(t)]>> /\ m_lua_oper_[Hm(t)] \in Reach(t)
        BY <1>6, <1>7, <2>2, <3>2 DEF Going
      <4> QED
        BY <1>3, <1>4, <4>1, ThreadFacts DEF Machines
    <3> QED
      BY <3>1, <3>2
  <2> QED
    BY <2>1, <2>2 DEF Machines, At
<1>14. Quiet(t)'
  <2> SUFFICES ASSUME Busy(t)', th'[t].alone PROVE Undisturbed(t)'
    BY DEF Quiet
  <2>1. Undisturbed(t)
    BY <1>7 DEF Quiet, Going, Busy
  <2>2. o \in {<<"ip", "http">>, <<"ses", t>>, <<"lua", t>>}
    <3>1. CASE th[t].pc = "set_key"
      <4>1. o = <<"ses", t>>
        BY <2>1, <3>1, ObjectsOf DEF Undisturbed, Locked
      <4> QED
        BY <4>1
    <3>2. CASE th[t].pc \in {"call_lua_func", "clear"}
      <4>1. m_lua_oper_[Hm(t)] = t
        BY <2>1, <3>2 DEF Undisturbed, Calling
      <4> QED
        BY <1>6, <3>2, <4>1
    <3> QED
      BY <1>6, <3>1, <3>2
  <2> QED
    BY <1>7, <1>8, <2>1, <2>2 DEF Undisturbed, Mine, Going, hmVars, objVars
<1>15. ~wrong' /\ th'[t].cur = th[t].cur /\ th'[t].alone = th[t].alone
  BY <1>7, <1>8 DEF Going, history, Faultless
<1> QED
  BY <1>3, <1>9, <1>10, <1>11, <1>12, <1>13, <1>14, <1>15, Assemble

LEMMA StepStoreIp == ASSUME HandleInv, NEW t \in Threads, StoreIp(t) PROVE HandleInv'
<1> USE DEF HandleInv
<1>1. th[t].pc = "remote_ip=" /\ Busy(t) /\ t \in HttpThreads /\ th[t].cur \in Requests /\ ThreadTypes
  BY BusyIf DEF StoreIp, In, Asleep, Place, IpCalls, TypeInv, ThreadTypes, States, Busy
<1>2. Going(t, "copy_ip", Nowhere)
  BY <1>1, GotoIs DEF StoreIp, Asked
<1>3. remote_ip' = th[t].cur /\ UNCHANGED <<procVars, dead, hmVars, objVars, taken, history>>
  BY DEF StoreIp
<1>4. Undisturbed(t)'
  BY <1>2, <1>3 DEF Undisturbed, Going, Locked, Calling
<1>5. /\ key' \in [Threads -> {0} \cup Requests] /\ top' \in [Threads -> Results]
      /\ \A u \in Threads \ Reach(t) : key'[u] = key[u] /\ top'[u] = top[u]
      /\ luavms' = luavms
  BY <1>3 DEF objVars, TypeInv
<1> QED
  BY <1>1, <1>2, <1>3, <1>4, <1>5, ThreadFacts, Goes DEF Asked

LEMMA StepCopyIp == ASSUME HandleInv, NEW t \in Threads, CopyIp(t) PROVE HandleInv'
<1> USE DEF HandleInv
<1>1. th[t].pc = "copy_ip" /\ Busy(t) /\ remote_ip \in {0} \cup Requests /\ ThreadTypes
  BY BusyIf DEF CopyIp, Read, Asleep, TypeInv
<1>2. Going(t, "handle_message", Nowhere) /\ th'[t].ip = remote_ip
  BY <1>1, GotoIs DEF CopyIp, Asked
<1>3. UNCHANGED <<procVars, dead, remote_ip, hmVars, objVars, taken, history>>
  BY DEF CopyIp
<1>4. th[t].alone => Undisturbed(t)'
  BY <1>1, <1>2, <1>3 DEF Quiet, Undisturbed, Going, Locked, Calling
<1>5. /\ key' \in [Threads -> {0} \cup Requests] /\ top' \in [Threads -> Results]
      /\ \A u \in Threads \ Reach(t) : key'[u] = key[u] /\ top'[u] = top[u]
      /\ luavms' = luavms
  BY <1>3 DEF objVars, TypeInv
<1> QED
  BY <1>1, <1>2, <1>3, <1>4, <1>5, Goes DEF Asked, IpCalls

(* An answer that is no answer, or the right one.                            *)
LEMMA RightAnswer ==
  ASSUME HandleInv, NEW t \in Threads, Busy(t), NEW answer, Returns(t, answer),
         th[t].alone => answer \in {NoReply, Own(th[t].cur), ErrorFor(th[t].cur)},
         UNCHANGED <<procVars, dead, remote_ip, hmVars, objVars, taken, met>>
  PROVE  HandleInv'
<1>1. ThreadTypes /\ wrong = FALSE
  BY DEF HandleInv, TypeInv, Faultless
<1>2. Returned(t) /\ wrong' = FALSE
  BY <1>1, ReturnsIs
<1> QED
  BY <1>2, ComesBack

LEMMA StepAnswer ==
  ASSUME HandleInv, NEW t \in Threads, BadRequest(t) \/ GeneralClientInfo(t)
  PROVE  HandleInv'
<1>1. th[t].pc \in Asked /\ Busy(t)
  BY BusyIf DEF BadRequest, GeneralClientInfo, Asked, Asleep, HandleInv
<1>2. UNCHANGED <<procVars, dead, remote_ip, hmVars, objVars, taken, met>>
  BY DEF BadRequest, GeneralClientInfo
<1>3. PICK answer \in {NoReply, Own(th[t].cur)} : Returns(t, answer)
  BY DEF BadRequest, GeneralClientInfo
<1> QED
  BY <1>1, <1>2, <1>3, RightAnswer

(* The locks a thread takes are its own.                                     *)
LEMMA StepSesOperGrab == ASSUME HandleInv, NEW t \in Threads, SesOperGrab(t) PROVE HandleInv'
<1> USE DEF HandleInv
<1>1. th[t].pc = "handle_message" /\ Busy(t) /\ ThreadTypes
  BY BusyIf DEF SesOperGrab, Asleep, TypeInv
<1>2. Going(t, "set_key", Nowhere) /\ th'[t].ip = th[t].ip
  BY <1>1, GotoIs DEF SesOperGrab, Locked
<1>3. /\ m_local_ses_' = [m_local_ses_ EXCEPT ![Hm(t)] = t]
      /\ UNCHANGED <<procVars, dead, remote_ip, m_lua_oper_, objVars, taken, history>>
  BY DEF SesOperGrab
<1>4. /\ \A u \in Reach(t) : m_local_ses_'[Hm(u)] = t
      /\ \A u \in Threads \ Reach(t) : m_local_ses_'[Hm(u)] = m_local_ses_[Hm(u)]
      /\ m_local_ses_' \in [Handlers -> Threads \cup {None}]
  BY <1>3, ThreadFacts DEF Pointers
<1>5. Local(t)
  BY <1>2, <1>3, <1>4 DEF Local, Going, objVars, history
<1>6. TypeInv'
  BY <1>2, <1>3 DEF TypeInv, Going, procVars, history, objVars
<1>7. Pointers'
  <2>1. \A u \in Reach(t) : t \in Reach(u)
    BY ThreadFacts DEF Reach
  <2> QED
    BY <1>3, <1>4, <2>1 DEF Pointers
<1>8. Place(t)'
  BY <1>1, <1>2, <1>3 DEF Place, Going, procVars, Busy, Asleep, IpCalls
<1>9. Machines'
  <2>1. /\ \A u \in Threads : th'[u].at[1] = "lua" => th'[u].at = th[u].at
        /\ UNCHANGED <<main, m_lua_oper_, luavms>>
    BY <1>2, <1>3 DEF Going, Nowhere, None, procVars, objVars
  <2> QED
    BY <2>1 DEF Machines, At
<1>10. Quiet(t)'
  <2> SUFFICES ASSUME th'[t].alone PROVE Undisturbed(t)'
    BY DEF Quiet
  <2>1. th[t].ip = th[t].cur /\ m_local_ses_'[Hm(t)] = t
    BY <1>1, <1>2, <1>4, ThreadFacts DEF Going, Quiet, Undisturbed
  <2> QED
    BY <1>2, <2>1 DEF Undisturbed, Going, Calling
<1>11. ~wrong' /\ th'[t].cur = th[t].cur /\ th'[t].alone = th[t].alone
  BY <1>2, <1>3 DEF Going, history, Faultless
<1> QED
  BY <1>1, <1>5, <1>6, <1>7, <1>8, <1>9, <1>10, <1>11, Assemble

LEMMA StepSetKey == ASSUME HandleInv, NEW t \in Threads, SetKey(t) PROVE HandleInv'
<1> USE DEF HandleInv
<1>1. th[t].pc = "set_key" /\ th[t].at # Nowhere /\ Busy(t) /\ ThreadTypes /\ th[t].cur \in Requests
  BY BusyIf DEF SetKey, In, Asleep, TypeInv, ThreadTypes, States, Busy
<1>2. Going(t, "Decrypt", Nowhere) /\ th'[t].ip = th[t].ip
  BY <1>1, GotoIs DEF SetKey, Locked
<1>3. /\ key' = [key EXCEPT ![At(t)] = th[t].cur]
      /\ UNCHANGED <<procVars, dead, remote_ip, hmVars, top, luavms, taken, history>>
  BY DEF SetKey
<1>4. At(t) \in Reach(t) /\ At(t) \in Threads /\ (Undisturbed(t) => At(t) = t)
  BY <1>1, InReach
<1>5. /\ key' \in [Threads -> {0} \cup Requests] /\ top' \in [Threads -> Results]
      /\ \A u \in Threads \ Reach(t) : key'[u] = key[u] /\ top'[u] = top[u]
  BY <1>1, <1>3, <1>4 DEF TypeInv
<1>6. th[t].alone => Undisturbed(t)'
  <2> SUFFICES ASSUME th[t].alone PROVE Undisturbed(t)'
    OBVIOUS
  <2>1. Undisturbed(t) /\ key'[t] = th[t].cur
    BY <1>1, <1>3, <1>4 DEF Quiet, TypeInv
  <2> QED
    BY <1>1, <1>2, <1>3, <2>1 DEF Undisturbed, Going, hmVars, Locked, Calling
<1>7. remote_ip' \in {0} \cup Requests /\ remote_ip' = remote_ip
  BY <1>3 DEF TypeInv
<1> QED
  BY <1>1, <1>2, <1>3, <1>5, <1>6, <1>7, Goes DEF Locked, IpCalls

LEMMA StepDecrypt == ASSUME HandleInv, NEW t \in Threads, Decrypt(t) PROVE HandleInv'
<1> USE DEF HandleInv
<1>1. PICK u \in Threads :
        /\ Read(t, "Decrypt", <<"ses", u>>) /\ key[u] # 0
        /\ \/ /\ key[u] = th[t].cur
              /\ th' = [Goto(t, "lua_vm_grab") EXCEPT ![t].text = th[t].cur] /\ UNCHANGED wrong
           \/ /\ key[u] # th[t].cur
              /\ th' = [Goto(t, "lua_vm_grab") EXCEPT ![t].text = Garbled] /\ UNCHANGED wrong
           \/ Returns(t, NoReply)
  BY DEF Decrypt
<1>2. th[t].pc = "Decrypt" /\ Busy(t) /\ ThreadTypes /\ th[t].cur \in Requests
  BY <1>1, BusyIf DEF Read, Asleep, TypeInv, ThreadTypes, States, Busy
<1>3. UNCHANGED <<procVars, dead, remote_ip, hmVars, objVars, taken, met>>
  BY DEF Decrypt
<1>4. /\ key' \in [Threads -> {0} \cup Requests] /\ top' \in [Threads -> Results]
      /\ \A w \in Threads \ Reach(t) : key'[w] = key[w] /\ top'[w] = top[w]
      /\ luavms' = luavms /\ remote_ip' \in {0} \cup Requests /\ remote_ip' = remote_ip
  BY <1>3 DEF objVars, TypeInv
<1>5. th[t].alone => Undisturbed(t) /\ u = t
  <2> SUFFICES ASSUME th[t].alone PROVE Undisturbed(t) /\ u = t
    OBVIOUS
  <2>1. Undisturbed(t) /\ m_local_ses_[Hm(t)] = t
    BY <1>2 DEF Quiet, Undisturbed, Locked
  <2>2. <<"ses", u>> = <<"ses", m_local_ses_[Hm(t)]>>
    BY <1>1, <1>2, ObjectsOf DEF Read, SesCalls
  <2> QED
    BY <2>1, <2>2
<1>6. CASE Returns(t, NoReply)
  BY <1>2, <1>3, <1>6, RightAnswer
<1>7. ASSUME NEW x \in {th[t].cur, Garbled}, x = Garbled => key[u] # th[t].cur, UNCHANGED wrong,
             th' = [Goto(t, "lua_vm_grab") EXCEPT ![t].text = x]
      PROVE  HandleInv'
  <2>1. Going(t, "lua_vm_grab", Nowhere) /\ th'[t].ip = th[t].ip /\ th'[t].text = x
    BY <1>2, <1>7, GotoIs DEF Locked
  <2>2. th[t].alone => Undisturbed(t)'
    <3> SUFFICES ASSUME th[t].alone PROVE Undisturbed(t)'
      OBVIOUS
    <3>1. x = th[t].cur
      BY <1>2, <1>5, <1>7 DEF Undisturbed, Locked
    <3> QED
      BY <1>2, <1>3, <1>5, <2>1, <3>1 DEF Undisturbed, Going, hmVars, objVars, Locked, Calling
  <2>3. UNCHANGED history
    BY <1>3, <1>7 DEF history
  <2> QED
    BY <1>2, <1>3, <1>4, <2>1, <2>2, <2>3, Goes DEF Locked, IpCalls
<1>8. th[t].cur # Garbled
  BY <1>2, ThreadFacts DEF Garbled
<1> QED
  BY <1>1, <1>6, <1>7, <1>8

LEMMA StepLuaVmGrab == ASSUME HandleInv, NEW t \in Threads, LuaVmGrab(t) PROVE HandleInv'
<1> USE DEF HandleInv
<1>1. th[t].pc = "lua_vm_grab" /\ Busy(t) /\ ThreadTypes /\ main = "running"
  BY BusyIf DEF LuaVmGrab, Asleep, TypeInv, Place
<1>2. UNCHANGED <<procVars, dead, remote_ip, m_local_ses_, key, top, taken, met>>
  BY DEF LuaVmGrab
<1>3. ASSUME NEW p \in {t, None}, m_lua_oper_' = [m_lua_oper_ EXCEPT ![Hm(t)] = p],
             luavms' \in {luavms, luavms \cup {t}},
             p = t => t \in luavms', Going(t, "call_lua_func", Nowhere) \/ Returned(t),
             Going(t, "call_lua_func", Nowhere) => p = t /\ th'[t].ip = th[t].ip /\ th'[t].text = th[t].text,
             wrong' = FALSE
      PROVE  HandleInv'
  <2>1. /\ \A u \in Reach(t) : m_lua_oper_'[Hm(u)] = p
        /\ \A u \in Threads \ Reach(t) : m_lua_oper_'[Hm(u)] = m_lua_oper_[Hm(u)]
        /\ m_lua_oper_' \in [Handlers -> Threads \cup {None}]
    BY <1>3, ThreadFacts DEF Pointers
  <2>2. Local(t)
    BY <1>2, <1>3, <2>1 DEF Local, Going, Returned
  <2>3. TypeInv'
    BY <1>2, <1>3 DEF TypeInv, Going, Returned, procVars
  <2>4. Pointers'
    <3>1. \A u \in Reach(t) : t \in Reach(u)
      BY ThreadFacts DEF Reach
    <3> QED
      BY <1>2, <2>1, <3>1 DEF Pointers
  <2>5. Place(t)'
    BY <1>1, <1>2, <1>3 DEF Place, Going, Returned, procVars, Busy, Asleep, IpCalls
  <2>6. Machines'
    <3>1. /\ \A u \in Threads : th'[u].at[1] = "lua" => th'[u].at = th[u].at
          /\ main' = main /\ luavms \subseteq luavms'
      BY <1>2, <1>3 DEF Going, Returned, Nowhere, None, procVars
    <3>2. \A h \in Handlers : m_lua_oper_'[h] \in luavms' \cup {None}
      BY <1>1, <1>3, <3>1 DEF Machines, Pointers
    <3> QED
      BY <3>1, <3>2 DEF Machines, At
  <2>7. Quiet(t)'
    <3>1. CASE Returned(t)
      BY <3>1 DEF Quiet, Returned, Busy
    <3>2. CASE Going(t, "call_lua_func", Nowhere)
      <4> SUFFICES ASSUME th'[t].alone PROVE Undisturbed(t)'
        BY DEF Quiet
      <4>1. Undisturbed(t) /\ m_lua_oper_'[Hm(t)] = t
        BY <1>1, <1>3, <2>1, <3>2, ThreadFacts DEF Quiet, Going
      <4> QED
        BY <1>1, <1>2, <1>3, <3>2, <4>1 DEF Undisturbed, Going, Locked
    <3> QED
      BY <1>3, <3>1, <3>2
  <2>8. /\ th'[t].cur \in {0, th[t].cur} /\ (th'[t].alone = TRUE \/ th'[t].alone = th[t].alone)
        /\ th'[t].cur # 0 => th'[t].alone = th[t].alone
    BY <1>3 DEF Going, Returned
  <2> QED
    BY <1>1, <1>3, <2>2, <2>3, <2>4, <2>5, <2>6, <2>7, <2>8, Assemble
<1>4. CASE /\ luavms' = luavms \cup {t} /\ m_lua_oper_' = [m_lua_oper_ EXCEPT ![Hm(t)] = t]
           /\ th' = Goto(t, "call_lua_func") /\ UNCHANGED wrong
  <2>1. Going(t, "call_lua_func", Nowhere) /\ th'[t].ip = th[t].ip /\ th'[t].text = th[t].text
    BY <1>1, <1>4, GotoIs DEF Locked, Calling
  <2>2. wrong' = FALSE
    BY <1>4 DEF Faultless, TypeInv
  <2> QED
    BY <1>3, <1>4, <2>1, <2>2
<1>5. CASE /\ m_lua_oper_' = [m_lua_oper_ EXCEPT ![Hm(t)] = None]
           /\ Returns(t, NoReply) /\ UNCHANGED luavms
  <2>1. Returned(t) /\ wrong' = FALSE
    BY <1>1, <1>5, ReturnsIs DEF Faultless, TypeInv
  <2>2. ~Going(t, "call_lua_func", Nowhere) /\ None # t
    BY <2>1, ThreadFacts DEF Going, Returned, Asleep
  <2> QED
    BY <1>3, <1>5, <2>1, <2>2
<1> QED
  BY <1>4, <1>5 DEF LuaVmGrab

(* A machine gives back what it was given, or an error.                      *)
LEMMA StepCallLuaFunc == ASSUME HandleInv, NEW t \in Threads, CallLuaFunc(t) PROVE HandleInv'
<1> USE DEF HandleInv
<1>1. th[t].pc = "call_lua_func" /\ th[t].at # Nowhere /\ Busy(t) /\ ThreadTypes /\ th[t] \in States
  BY BusyIf DEF CallLuaFunc, In, Asleep, TypeInv, ThreadTypes
<1>2. UNCHANGED <<procVars, dead, remote_ip, hmVars, key, luavms, taken, history>>
  BY DEF CallLuaFunc
<1>3. At(t) \in Reach(t) /\ At(t) \in Threads /\ (Undisturbed(t) => At(t) = t)
  BY <1>1, InReach
<1>4. Error \in Results /\ 0 \in {0, Garbled} \cup Requests
  BY DEF Error, Results
<1>5. ASSUME NEW x \in Results, top' = [top EXCEPT ![At(t)] = x]
      PROVE  /\ key' \in [Threads -> {0} \cup Requests] /\ top' \in [Threads -> Results] /\ top'[At(t)] = x
             /\ \A u \in Threads \ Reach(t) : key'[u] = key[u] /\ top'[u] = top[u]
             /\ remote_ip' \in {0} \cup Requests /\ remote_ip' = remote_ip
  BY <1>2, <1>3, <1>5 DEF TypeInv
<1>6. CASE /\ th' = [Goto(t, "get_return_value") EXCEPT ![t].text = 0, ![t].ip = 0]
           /\ top' = [top EXCEPT ![At(t)] =
                        IF th[t].text = Garbled THEN Error ELSE [of |-> th[t].text, ip |-> th[t].ip]]
  <2> DEFINE x == IF th[t].text = Garbled THEN Error ELSE [of |-> th[t].text, ip |-> th[t].ip]
  <2>1. Going(t, "get_return_value", Nowhere)
    <3>1. Nowhere \in Spots
      BY DEF Spots
    <3> QED
      BY <1>1, <1>4, <1>6, <3>1 DEF Going, Goto, ThreadTypes, States, Locked, Calling
  <2>2. x \in Results
    BY <1>1, <1>4 DEF Results, States
  <2>3. Undisturbed(t) => x = Mine(t)
    <3>1. Undisturbed(t) => th[t].text = th[t].cur /\ th[t].ip = th[t].cur
      BY <1>1 DEF Undisturbed
    <3>2. th[t].cur # Garbled
      BY <1>1, ThreadFacts DEF States, Garbled, Busy
    <3> QED
      BY <3>1, <3>2 DEF Mine
  <2> HIDE DEF x
  <2>4. top' = [top EXCEPT ![At(t)] = x]
    BY <1>6 DEF x
  <2>5. th[t].alone => Undisturbed(t)'
    <3> SUFFICES ASSUME th[t].alone PROVE Undisturbed(t)'
      OBVIOUS
    <3>1. Undisturbed(t) /\ top'[t] = Mine(t)
      BY <1>1, <1>3, <1>5, <2>2, <2>3, <2>4 DEF Quiet
    <3> QED
      BY <1>1, <1>2, <2>1, <3>1 DEF Undisturbed, Going, hmVars, Locked, Calling, Mine
  <2> QED
    BY <1>1, <1>2, <1>5, <2>1, <2>2, <2>4, <2>5, Goes DEF Locked, Calling, IpCalls
<1>7. CASE /\ th' = [Goto(t, "clear") EXCEPT ![t].text = 0, ![t].ip = 0, ![t].result = Error]
           /\ top' = [top EXCEPT ![At(t)] = Error]
  <2>1. Going(t, "clear", Nowhere) /\ th'[t].result = Error
    <3>1. Nowhere \in Spots
      BY DEF Spots
    <3> QED
      BY <1>1, <1>4, <1>7, <3>1 DEF Going, Goto, ThreadTypes, States, Locked, Calling
  <2>2. th[t].alone => Undisturbed(t)'
    <3> SUFFICES ASSUME th[t].alone PROVE Undisturbed(t)'
      OBVIOUS
    <3>1. Undisturbed(t)
      BY <1>1 DEF Quiet
    <3> QED
      BY <1>1, <1>2, <2>1, <3>1 DEF Undisturbed, Going, hmVars, Locked, Calling, Mine
  <2> QED
    BY <1>1, <1>2, <1>4, <1>5, <1>7, <2>1, <2>2, Goes DEF Locked, Calling, IpCalls
<1> QED
  BY <1>6, <1>7 DEF CallLuaFunc

LEMMA StepGetReturnValue == ASSUME HandleInv, NEW t \in Threads, GetReturnValue(t) PROVE HandleInv'
<1> USE DEF HandleInv
<1>1. PICK u \in Threads :
        /\ Read(t, "get_return_value", <<"lua", u>>)
        /\ th' = [Goto(t, "clear") EXCEPT ![t].result = IF top[u] = Nothing THEN Error ELSE top[u]]
  BY DEF GetReturnValue
<1>2. th[t].pc = "get_return_value" /\ Busy(t) /\ ThreadTypes /\ th[t].cur \in Requests
  BY <1>1, BusyIf DEF Read, Asleep, TypeInv, ThreadTypes, States, Busy
<1>3. UNCHANGED <<procVars, dead, remote_ip, hmVars, objVars, taken, history>>
  BY DEF GetReturnValue
<1> DEFINE x == IF top[u] = Nothing THEN Error ELSE top[u]
<1>4. x \in Results
  BY DEF Error, Results, TypeInv
<1> HIDE DEF x
<1>5. Going(t, "clear", Nowhere) /\ th'[t].result = x
  <2>1. th' = [Goto(t, "clear") EXCEPT ![t].result = x]
    BY <1>1 DEF x
  <2> QED
    BY <1>2, <1>4, <2>1, GotoIs DEF Locked, Calling
<1>6. th[t].alone => Undisturbed(t)'
  <2> SUFFICES ASSUME th[t].alone PROVE Undisturbed(t)'
    OBVIOUS
  <2>1. Undisturbed(t) /\ m_lua_oper_[Hm(t)] = t
    BY <1>2 DEF Quiet, Undisturbed, Calling
  <2>2. <<"lua", u>> = <<"lua", m_lua_oper_[Hm(t)]>>
    BY <1>1, <1>2, ObjectsOf DEF Read, LuaCalls
  <2>3. top[u] = Mine(t)
    BY <1>2, <2>1, <2>2 DEF Undisturbed
  <2>4. x \in {Error, Mine(t)}
    BY <2>3 DEF x
  <2> QED
    BY <1>2, <1>3, <1>5, <2>1, <2>4 DEF Undisturbed, Going, hmVars, objVars, Locked, Calling, Mine
<1>7. /\ key' \in [Threads -> {0} \cup Requests] /\ top' \in [Threads -> Results]
      /\ \A w \in Threads \ Reach(t) : key'[w] = key[w] /\ top'[w] = top[w]
      /\ luavms' = luavms /\ remote_ip' \in {0} \cup Requests /\ remote_ip' = remote_ip
  BY <1>3 DEF objVars, TypeInv
<1> QED
  BY <1>2, <1>3, <1>5, <1>6, <1>7, Goes DEF Locked, Calling, IpCalls

LEMMA StepClear == ASSUME HandleInv, NEW t \in Threads, Clear(t) PROVE HandleInv'
<1> USE DEF HandleInv
<1>1. th[t].pc = "clear" /\ th[t].at # Nowhere /\ Busy(t) /\ ThreadTypes
  BY BusyIf DEF Clear, In, Asleep, TypeInv
<1>2. Going(t, "Encrypt", Nowhere) /\ th'[t].result = th[t].result
  BY <1>1, GotoIs DEF Clear, Locked
<1>3. /\ top' = [top EXCEPT ![At(t)] = Nothing]
      /\ UNCHANGED <<procVars, dead, remote_ip, hmVars, key, luavms, taken, history>>
  BY DEF Clear
<1>4. At(t) \in Reach(t) /\ At(t) \in Threads
  BY <1>1, InReach
<1>5. Nothing \in Results
  BY DEF Nothing, Results
<1>6. /\ key' \in [Threads -> {0} \cup Requests] /\ top' \in [Threads -> Results]
      /\ \A u \in Threads \ Reach(t) : key'[u] = key[u] /\ top'[u] = top[u]
      /\ remote_ip' \in {0} \cup Requests /\ remote_ip' = remote_ip
  BY <1>3, <1>4, <1>5 DEF TypeInv
<1>7. th[t].alone => Undisturbed(t)'
  <2> SUFFICES ASSUME th[t].alone PROVE Undisturbed(t)'
    OBVIOUS
  <2>1. Undisturbed(t)
    BY <1>1 DEF Quiet
  <2> QED
    BY <1>1, <1>2, <1>3, <2>1 DEF Undisturbed, Going, hmVars, Locked, Calling, Mine
<1> QED
  BY <1>1, <1>2, <1>3, <1>6, <1>7, Goes DEF Locked, IpCalls

LEMMA StepEncrypt == ASSUME HandleInv, NEW t \in Threads, Encrypt(t) PROVE HandleInv'
<1> USE DEF HandleInv
<1>1. PICK u \in Threads :
        /\ Read(t, "Encrypt", <<"ses", u>>)
        /\ Returns(t, [of |-> th[t].result.of, ip |-> th[t].result.ip, key |-> key[u]])
  BY DEF Encrypt
<1>2. th[t].pc = "Encrypt" /\ Busy(t)
  BY <1>1, BusyIf DEF Read, Asleep
<1>3. UNCHANGED <<procVars, dead, remote_ip, hmVars, objVars, taken, met>>
  BY DEF Encrypt
<1> DEFINE answer == [of |-> th[t].result.of, ip |-> th[t].result.ip, key |-> key[u]]
<1>4. th[t].alone => answer \in {NoReply, Own(th[t].cur), ErrorFor(th[t].cur)}
  <2> SUFFICES ASSUME th[t].alone PROVE answer \in {Own(th[t].cur), ErrorFor(th[t].cur)}
    OBVIOUS
  <2>1. Undisturbed(t) /\ m_local_ses_[Hm(t)] = t /\ key[t] = th[t].cur /\ th[t].result \in {Error, Mine(t)}
    BY <1>2 DEF Quiet, Undisturbed, Locked
  <2>2. <<"ses", u>> = <<"ses", m_local_ses_[Hm(t)]>>
    BY <1>1, <1>2, ObjectsOf DEF Read, SesCalls
  <2>3. key[u] = th[t].cur
    BY <2>1, <2>2
  <2>4. \/ th[t].result.of = 0 /\ th[t].result.ip = 0
        \/ th[t].result.of = th[t].cur /\ th[t].result.ip = th[t].cur
    BY <2>1 DEF Error, Mine
  <2> QED
    BY <2>3, <2>4 DEF Own, ErrorFor
<1> HIDE DEF answer
<1>5. Returns(t, answer)
  BY <1>1 DEF answer
<1> QED
  BY <1>2, <1>3, <1>4, <1>5, RightAnswer

(* A session ends: the machine it clears and the pointer are its own.        *)
LEMMA StepDeleteSession == ASSUME HandleInv, NEW t \in Threads, DeleteSession(t) PROVE HandleInv'
<1> USE DEF HandleInv
<1>1. th[t].pc \in Asleep /\ t \in TcpThreads /\ ThreadTypes /\ th[t].cur = 0 /\ th[t].alone
  <2>1. th[t].pc \in Asleep /\ t \in TcpThreads /\ ThreadTypes
    BY DEF DeleteSession, Asleep, TypeInv
  <2> QED
    BY <2>1 DEF Place, Company
<1>2. Going(t, "idle", Nowhere)
  BY <1>1, GotoIs DEF DeleteSession, Asleep
<1>3. /\ top' = [u \in Threads |-> IF u = m_lua_oper_[Hm(t)] THEN Nothing ELSE top[u]]
      /\ m_lua_oper_' = [m_lua_oper_ EXCEPT ![Hm(t)] = None]
      /\ UNCHANGED <<procVars, dead, remote_ip, m_local_ses_, key, luavms, taken, history>>
  BY DEF DeleteSession
<1>4. Reach(t) = {t} /\ m_lua_oper_[Hm(t)] \in {t, None} /\ None \notin Threads
  BY <1>1, ThreadFacts DEF Reach, Pointers
<1>5. /\ m_lua_oper_'[Hm(t)] = None
      /\ \A u \in Threads \ {t} : m_lua_oper_'[Hm(u)] = m_lua_oper_[Hm(u)]
      /\ m_lua_oper_' \in [Handlers -> Threads \cup {None}]
  BY <1>3, <1>4, ThreadFacts DEF Pointers
<1>6. \A u \in Threads \ {t} : top'[u] = top[u]
  BY <1>3, <1>4
<1>7. Local(t)
  BY <1>2, <1>3, <1>4, <1>5, <1>6 DEF Local, Going, history
<1>8. TypeInv'
  <2>1. Nothing \in Results
    BY DEF Nothing, Results
  <2>2. top' \in [Threads -> Results]
    BY <1>3, <2>1 DEF TypeInv
  <2> QED
    BY <1>2, <1>3, <2>2 DEF TypeInv, Going, procVars, history
<1>9. Pointers'
  BY <1>3, <1>5 DEF Pointers
<1>10. Place(t)'
  BY <1>1, <1>2 DEF Place, Going, Asleep, IpCalls
<1>11. Machines'
  <2>1. /\ \A u \in Threads : th'[u].at[1] = "lua" => th'[u].at = th[u].at
        /\ UNCHANGED <<main, luavms>>
    BY <1>2, <1>3 DEF Going, Nowhere, None, procVars
  <2>2. \A h \in Handlers : m_lua_oper_'[h] \in {m_lua_oper_[h], None}
    BY <1>3 DEF Pointers
  <2> QED
    BY <2>1, <2>2 DEF Machines, At
<1>12. Quiet(t)'
  BY <1>1, <1>2 DEF Quiet, Busy, Going
<1>13. ~wrong' /\ th'[t].cur = th[t].cur /\ th'[t].alone = th[t].alone
  BY <1>2, <1>3 DEF Going, history, Faultless
<1> QED
  BY <1>1, <1>7, <1>8, <1>9, <1>10, <1>11, <1>12, <1>13, Assemble

(* A message comes in: who has company now is not alone any more.            *)
LEMMA StepReceive == ASSUME HandleInv, NEW t \in Threads, Receive(t) PROVE HandleInv'
<1> USE DEF HandleInv
<1> DEFINE s == Server(t)
           r == IF t \in TcpThreads THEN MaxHttp + taken'["tcp"] ELSE taken'["http"]
<1>1. /\ main = "running" /\ th[t].pc = "idle" /\ th[t].cur = 0 /\ ThreadTypes /\ th[t] \in States
      /\ taken[s] < (IF t \in HttpThreads THEN MaxHttp ELSE MaxTcp)
      /\ taken' = [taken EXCEPT ![s] = @ + 1]
      /\ UNCHANGED <<procVars, dead, remote_ip, hmVars, objVars, wrong>>
  BY DEF Receive, TypeInv, ThreadTypes, Place, Asleep
<1>2. s = IF t \in TcpThreads THEN "tcp" ELSE "http"
  BY ThreadFacts DEF Server
<1>3. /\ taken' \in [{"http", "tcp"} -> Nat] /\ taken'["http"] <= MaxHttp /\ taken'["tcp"] <= MaxTcp
      /\ r \in Requests
  <2>1. taken \in [{"http", "tcp"} -> Nat] /\ taken["http"] <= MaxHttp /\ taken["tcp"] <= MaxTcp
    BY DEF TypeInv
  <2>2. CASE t \in TcpThreads
    <3>1. s = "tcp" /\ taken["tcp"] < MaxTcp /\ taken' = [taken EXCEPT !["tcp"] = taken["tcp"] + 1]
      BY <1>1, <1>2, <2>2, ThreadFacts
    <3> HIDE DEF s
    <3>2. /\ taken'["tcp"] = taken["tcp"] + 1 /\ taken'["http"] = taken["http"]
          /\ taken' \in [{"http", "tcp"} -> Nat]
      BY <2>1, <3>1
    <3> QED
      BY <2>1, <2>2, <3>1, <3>2, ThreadFacts DEF Requests
  <2>3. CASE t \notin TcpThreads
    <3>1. s = "http" /\ taken["http"] < MaxHttp /\ taken' = [taken EXCEPT !["http"] = taken["http"] + 1]
      BY <1>1, <1>2, <2>3, ThreadFacts
    <3> HIDE DEF s
    <3>2. /\ taken'["http"] = taken["http"] + 1 /\ taken'["tcp"] = taken["tcp"]
          /\ taken' \in [{"http", "tcp"} -> Nat]
      BY <2>1, <3>1
    <3> QED
      BY <2>1, <2>3, <3>1, <3>2, ThreadFacts DEF Requests
  <2> QED
    BY <2>2, <2>3
<1> HIDE DEF s, r
<1>4. r # 0
  BY <1>3, ThreadFacts
<1>5. th[t].at = Nowhere
  BY <1>1 DEF Place
<1>6. /\ ThreadTypes' /\ th'[t].cur = r /\ th'[t].at = Nowhere
      /\ th'[t].pc = (IF t \in TcpThreads THEN "handle_message" ELSE "remote_ip=")
      /\ t \in TcpThreads => th'[t].ip = r /\ th'[t].alone = th[t].alone
      /\ t \notin TcpThreads => th'[t].alone = (Others(t) = {}) /\ met' = (met \/ Others(t) # {})
      /\ t \in TcpThreads => met' = met
      /\ \A u \in Threads \ {t} :
           \/ th'[u] = th[u] /\ (t \in TcpThreads \/ u \notin Others(t))
           \/ t \notin TcpThreads /\ u \in Others(t) /\ th'[u] = [th[u] EXCEPT !.alone = FALSE]
  <2>1. CASE t \in TcpThreads
    <3>1. th' = [th EXCEPT ![t].pc = "handle_message", ![t].cur = r, ![t].ip = r] /\ UNCHANGED met
      BY <2>1 DEF Receive, r
    <3>2. /\ th'[t].pc = "handle_message" /\ th'[t].cur = r /\ th'[t].ip = r /\ th'[t].at = th[t].at
          /\ th'[t].alone = th[t].alone /\ \A u \in Threads \ {t} : th'[u] = th[u]
      BY <1>1, <3>1 DEF ThreadTypes, States
    <3>3. ThreadTypes'
      BY <1>1, <1>3, <3>1 DEF ThreadTypes, States, Asked
    <3> QED
      BY <1>5, <2>1, <3>1, <3>2, <3>3
  <2>2. CASE t \notin TcpThreads
    <3> DEFINE a == [th[t] EXCEPT !.pc = "remote_ip=", !.cur = r, !.alone = Others(t) = {}]
    <3>1. /\ th' = [u \in Threads |->
                 CASE u = t -> [th[t] EXCEPT !.pc = "remote_ip=", !.cur = taken'["http"], !.alone = Others(t) = {}]
                   [] u \in Others(t) -> [th[u] EXCEPT !.alone = FALSE]
                   [] OTHER -> th[u]]
          /\ met' = (met \/ Others(t) # {})
      BY <2>2 DEF Receive
    <3>2. r = taken'["http"] /\ t \notin Others(t)
      BY <2>2 DEF r, Others
    <3>3. th'[t] = a
      BY <3>1, <3>2
    <3>4. /\ a \in States /\ a.cur = r /\ a.at = Nowhere /\ a.pc = "remote_ip=" /\ a.alone = (Others(t) = {})
      BY <1>1, <1>3, <1>5 DEF States, Asked
    <3>5. ASSUME NEW u \in Threads \ {t}
          PROVE  /\ th'[u] \in States
                 /\ \/ th'[u] = th[u] /\ u \notin Others(t)
                    \/ u \in Others(t) /\ th'[u] = [th[u] EXCEPT !.alone = FALSE]
      <4>1. th[u] \in States
        BY <1>1 DEF ThreadTypes
      <4>2. CASE u \in Others(t)
        <5>1. th'[u] = [th[u] EXCEPT !.alone = FALSE]
          BY <3>1, <4>2
        <5> QED
          BY <4>1, <4>2, <5>1 DEF States
      <4>3. CASE u \notin Others(t)
        <5>1. th'[u] = th[u]
          BY <3>1, <4>3
        <5> QED
          BY <4>1, <4>3, <5>1
      <4> QED
        BY <4>2, <4>3
    <3> HIDE DEF a
    <3> DEFINE e(u) == CASE u = t -> [th[t] EXCEPT !.pc = "remote_ip=", !.cur = taken'["http"],
                                                   !.alone = Others(t) = {}]
                         [] u \in Others(t) -> [th[u] EXCEPT !.alone = FALSE]
                         [] OTHER -> th[u]
    <3>6. th' = [u \in Threads |-> e(u)]
      BY <3>1
    <3> HIDE DEF e
    <3>7. ThreadTypes'
      <4>1. \A u \in Threads : e(u) \in States
        BY <3>3, <3>4, <3>5, <3>6
      <4> QED
        BY <3>6, <4>1 DEF ThreadTypes
    <3> QED
      BY <2>2, <3>1, <3>3, <3>4, <3>5, <3>7
  <2> QED
    BY <2>1, <2>2
<1>7. ASSUME NEW u \in Threads \ {t}
      PROVE  /\ th'[u].pc = th[u].pc /\ th'[u].cur = th[u].cur /\ th'[u].at = th[u].at
             /\ th'[u].alone => th'[u] = th[u]
  BY <1>1, <1>6 DEF ThreadTypes, States
<1>8. TypeInv'
  <2>1. met' \in BOOLEAN
    BY <1>6 DEF TypeInv
  <2> QED
    BY <1>1, <1>3, <1>6, <2>1 DEF TypeInv, procVars, objVars
<1>9. Pointers'
  BY <1>1 DEF Pointers, hmVars
<1>10. ASSUME NEW u \in Threads PROVE Place(u)'
  <2>1. CASE u = t
    BY <1>1, <1>4, <1>6, <2>1, ThreadFacts DEF Place, Asleep, IpCalls, procVars
  <2>2. CASE u # t
    BY <1>1, <1>7, <2>2 DEF Place, procVars
  <2> QED
    BY <2>1, <2>2
<1>11. Machines'
  <2>1. /\ \A u \in Threads : th'[u].at = th[u].at
        /\ UNCHANGED <<main, m_lua_oper_, luavms>>
    BY <1>1, <1>5, <1>6, <1>7 DEF procVars, hmVars, objVars
  <2> QED
    BY <2>1 DEF Machines, At
<1>12. Company'
  <2>1. ASSUME NEW u \in TcpThreads PROVE th'[u].alone
    <3>1. th[u].alone /\ u \in Threads
      BY ThreadFacts DEF Company
    <3>2. CASE u = t
      BY <1>6, <2>1, <3>1, <3>2
    <3>3. CASE u # t
      BY <1>6, <3>1, <3>3, ThreadFacts DEF Others
    <3> QED
      BY <3>2, <3>3
  <2>2. ASSUME NEW u \in HttpThreads, NEW w \in HttpThreads, u # w, Busy(u)', Busy(w)' PROVE ~th'[u].alone
    <3>1. u \in Threads /\ w \in Threads /\ u \notin TcpThreads
      BY ThreadFacts
    <3>2. CASE u = t
      <4>1. w \in Others(t)
        BY <1>7, <2>2, <3>1, <3>2 DEF Others, Busy
      <4> QED
        BY <1>6, <3>1, <3>2, <4>1
    <3>3. CASE w = t
      <4>1. u \in Others(t) /\ th[u] \in States
        BY <1>1, <1>7, <2>2, <3>1, <3>3 DEF Others, Busy, ThreadTypes
      <4>2. th'[u] = [th[u] EXCEPT !.alone = FALSE]
        BY <1>6, <2>2, <3>1, <3>3, <4>1, ThreadFacts
      <4> QED
        BY <4>1, <4>2 DEF States
    <3>4. CASE u # t /\ w # t
      <4>1. ~th[u].alone
        BY <1>7, <2>2, <3>1, <3>4 DEF Busy, Company
      <4> QED
        BY <1>7, <3>1, <3>4, <4>1
    <3> QED
      BY <3>2, <3>3, <3>4
  <2>3. ASSUME NEW u \in Threads, ~th'[u].alone PROVE met'
    <3>1. met => met'
      BY <1>6
    <3>2. CASE ~th[u].alone
      BY <3>1, <3>2 DEF Company
    <3>3. CASE th[u].alone
      <4>1. t \notin TcpThreads /\ Others(t) # {}
        BY <1>6, <2>3, <3>3
      <4> QED
        BY <1>6, <4>1
    <3> QED
      BY <3>2, <3>3
  <2> QED
    BY <2>1, <2>2, <2>3 DEF Company
<1>13. ASSUME NEW u \in Threads PROVE Quiet(u)'
  <2>1. CASE u = t
    BY <1>6, <2>1 DEF Quiet, Undisturbed, Locked, Calling
  <2>2. CASE u # t
    <3> SUFFICES ASSUME Busy(u)', th'[u].alone PROVE Undisturbed(u)'
      BY DEF Quiet
    <3>1. th'[u] = th[u] /\ Undisturbed(u)
      BY <1>7, <2>2 DEF Quiet, Busy
    <3> QED
      BY <1>1, <3>1 DEF Undisturbed, Mine, hmVars, objVars
  <2> QED
    BY <2>1, <2>2
<1>14. Faultless'
  <2>1. met => met'
    BY <1>6
  <2> QED
    BY <1>1, <2>1 DEF Faultless, procVars
<1> QED
  BY <1>8, <1>9, <1>10, <1>11, <1>12, <1>13, <1>14

-----------------------------------------------------------------------------
(* The end of the process: nothing is left that could go wrong.              *)
LEMMA AllIdleInv ==
  ASSUME th = AllIdle, remote_ip = 0, m_local_ses_ = NoPointers, m_lua_oper_ = NoPointers,
         key = NoKeys, top = NoResults, luavms = {},
         main \in {"tcp_server", "http_server", "running", "joined", "deleted", "exited"},
         signalled \in BOOLEAN, dead \in BOOLEAN, wrong \in BOOLEAN, met \in BOOLEAN,
         stopping \subseteq {"http", "tcp"}, taken \in [{"http", "tcp"} -> Nat],
         taken["http"] <= MaxHttp, taken["tcp"] <= MaxTcp, Faultless
  PROVE  HandleInv
<1>1. ThreadTypes /\ \A t \in Threads : th[t] = Idle
  BY IdleIs DEF AllIdle, ThreadTypes
<1>2. key \in [Threads -> {0} \cup Requests] /\ top \in [Threads -> Results]
  <2>1. Nothing \in Results
    BY DEF Nothing, Results
  <2> QED
    BY <2>1 DEF NoKeys, NoResults
<1>3. TypeInv
  BY <1>1, <1>2 DEF TypeInv
<1>4. Pointers /\ \A h \in Handlers : m_lua_oper_[h] = None
  BY ThreadFacts DEF Pointers, NoPointers
<1>5. Idle.pc = "idle" /\ Idle.cur = 0 /\ Idle.alone = TRUE /\ Idle.at = Nowhere
  BY DEF Idle
<1>6. \A t \in Threads : Place(t)
  BY <1>1, <1>5 DEF Place, Asleep, IpCalls
<1>7. Machines
  BY <1>1, <1>4, <1>5 DEF Machines, Nowhere, None
<1>8. Company
  BY <1>1, <1>5, ThreadFacts DEF Company, Busy
<1>9. \A t \in Threads : Quiet(t)
  BY <1>1, <1>5 DEF Quiet, Busy
<1> QED
  BY <1>3, <1>4, <1>6, <1>7, <1>8, <1>9 DEF HandleInv

LEMMA HandleInit == Init => HandleInv
<1> SUFFICES ASSUME Init PROVE HandleInv
  OBVIOUS
<1>1. taken \in [{"http", "tcp"} -> Nat] /\ taken["http"] = 0 /\ taken["tcp"] = 0
  BY DEF Init
<1>2. Faultless
  BY DEF Init, Faultless
<1>3. taken["http"] <= MaxHttp /\ taken["tcp"] <= MaxTcp
  BY <1>1, ThreadFacts
<1> QED
  BY <1>1, <1>2, <1>3, AllIdleInv DEF Init

LEMMA StepDies ==
  ASSUME HandleInv, Dies, main = "running" => met
  PROVE  HandleInv'
<1>1. /\ dead' = TRUE /\ th' = AllIdle /\ remote_ip' = 0 /\ m_local_ses_' = NoPointers /\ m_lua_oper_' = NoPointers
      /\ key' = NoKeys /\ top' = NoResults /\ luavms' = {}
      /\ UNCHANGED <<main, signalled, stopping, taken, wrong, met>>
  BY DEF Dies, procVars, history
<1>2. Faultless'
  BY <1>1 DEF HandleInv, Faultless
<1>3. ThreadTypes'
  BY <1>1, IdleIs DEF AllIdle, ThreadTypes
<1>4. key' \in [Threads -> {0} \cup Requests] /\ top' \in [Threads -> Results]
  <2>1. Nothing \in Results
    BY DEF Nothing, Results
  <2> QED
    BY <1>1, <2>1 DEF NoKeys, NoResults
<1>5. TypeInv'
  BY <1>1, <1>3, <1>4 DEF HandleInv, TypeInv
<1>6. Pointers' /\ \A h \in Handlers : m_lua_oper_'[h] = None
  BY <1>1, ThreadFacts DEF Pointers, NoPointers
<1>7. \A t \in Threads : th'[t].pc = "idle" /\ th'[t].cur = 0 /\ th'[t].alone = TRUE /\ th'[t].at = Nowhere
  BY <1>1 DEF AllIdle, Idle
<1>8. \A t \in Threads : Place(t)'
  BY <1>7 DEF Place, Asleep, IpCalls
<1>9. Machines'
  BY <1>6, <1>7 DEF Machines, Nowhere, None
<1>10. Company'
  BY <1>7, ThreadFacts DEF Company, Busy
<1>11. \A t \in Threads : Quiet(t)'
  BY <1>7 DEF Quiet, Busy
<1> QED
  BY <1>2, <1>5, <1>6, <1>8, <1>9, <1>10, <1>11 DEF HandleInv

(* A request that is alone finds its pointers and its key, and nobody at     *)
(* what it calls: only HTTP requests that met end a running server.          *)
LEMMA StepFault ==
  ASSUME HandleInv, NEW t \in Threads, NullCall(t) \/ Clash(t) \/ SesThrows(t)
  PROVE  HandleInv'
<1> USE DEF HandleInv
<1>1. Dies
  BY DEF NullCall, Clash, SesThrows
<1>2. ~met => (Busy(t) => Undisturbed(t))
  BY DEF Company, Quiet
<1>3. ASSUME ~met, NullCall(t) PROVE FALSE
  <2>1. <<"lua", None>> \in Objects(t)
    BY <1>3 DEF NullCall
  <2>2. th[t].pc \in LuaCalls
    <3>1. th[t].pc \in IpCalls \cup {"set_key"} \cup SesCalls \cup LuaCalls
      BY <2>1, ObjectsOf
    <3>2. th[t].pc \in IpCalls => Objects(t) = {<<"ip", "http">>}
      BY ObjectsOf
    <3>3. \A o \in Objects(t) : th[t].pc \in {"set_key"} \cup SesCalls => o[1] = "ses"
      BY ObjectsOf
    <3>4. <<"lua", None>>[1] = "lua"
      OBVIOUS
    <3> QED
      BY <2>1, <3>1, <3>2, <3>3, <3>4
  <2>3. <<"lua", None>> = <<"lua", m_lua_oper_[Hm(t)]>>
    BY <2>1, <2>2, ObjectsOf
  <2>4. m_lua_oper_[Hm(t)] = t
    BY <1>2, <1>3, <2>2, BusyIf DEF LuaCalls, Calling, Undisturbed, Asleep
  <2> QED
    BY <2>3, <2>4, ThreadFacts
<1>4. ASSUME ~met, SesThrows(t) PROVE FALSE
  <2>1. th[t].pc \in {"Decrypt", "Encrypt"} /\ key[m_local_ses_[Hm(t)]] = 0
    BY <1>4 DEF SesThrows
  <2>2. Busy(t) /\ Undisturbed(t)
    BY <1>2, <1>4, <2>1, BusyIf DEF Asleep
  <2> QED
    BY <2>1, <2>2 DEF Undisturbed, Locked, Busy
<1>5. ASSUME ~met, Clash(t) PROVE FALSE
  <2>1. PICK u \in Threads : th[u].at \in Objects(t)
    BY <1>5 DEF Clash
  <2>2. th[t].at = Nowhere
    BY <1>5 DEF Clash
  <2>3. /\ \A o \in Objects(t) : o[1] \in {"ip", "ses", "lua"}
        /\ th[t].pc \in IpCalls \cup {"set_key"} \cup SesCalls \cup LuaCalls
    BY <2>1, ObjectsOf
  <2>4. th[u].at # Nowhere
    BY <2>1, <2>3 DEF Nowhere, None
  <2>5. u # t
    BY <2>2, <2>4
  <2>6. Busy(t) /\ Busy(u)
    BY <2>3, <2>4, BusyIf DEF Place, IpCalls, SesCalls, LuaCalls, Asleep
  <2>7. ~(t \in HttpThreads /\ u \in HttpThreads)
    BY <1>5, <2>5, <2>6 DEF Company
  <2>8. th[u].at[2] \in Reach(u) \/ (th[u].at = <<"ip", "http">> /\ u \in HttpThreads)
    <3>1. CASE th[u].pc = "remote_ip=" /\ th[u].at = <<"ip", "http">>
      BY <3>1 DEF Place, IpCalls
    <3>2. CASE th[u].at \in {"ses"} \X Reach(u)
      BY <3>2
    <3>3. CASE th[u].at \in {"lua"} \X Reach(u)
      BY <3>3
    <3> QED
      BY <2>4, <3>1, <3>2, <3>3 DEF Place
  <2>9. \A o \in Objects(t) : o[2] \in Reach(t) \cup {None} \/ (o = <<"ip", "http">> /\ t \in HttpThreads)
    <3>1. /\ t \in Reach(t) /\ m_local_ses_[Hm(t)] \in Reach(t) \cup {None}
          /\ m_lua_oper_[Hm(t)] \in Reach(t) \cup {None}
      BY ThreadFacts DEF Pointers
    <3>2. CASE th[t].pc \in IpCalls
      BY <3>2, ObjectsOf DEF Place
    <3>3. CASE th[t].pc = "set_key"
      BY <3>1, <3>3, ObjectsOf
    <3>4. CASE th[t].pc \in SesCalls
      BY <3>1, <3>4, ObjectsOf
    <3>5. CASE th[t].pc \in LuaCalls
      BY <3>1, <3>5, ObjectsOf
    <3> QED
      BY <2>3, <3>2, <3>3, <3>4, <3>5
  <2>10. Reach(u) \cap (Reach(t) \cup {None}) = {} /\ "http" \notin Reach(t) \cup Reach(u) \cup {None}
    BY <2>5, <2>7, ThreadFacts DEF Reach, None
  <2> QED
    BY <2>1, <2>7, <2>8, <2>9, <2>10
<1> QED
  BY <1>1, <1>3, <1>4, <1>5, StepDies

-----------------------------------------------------------------------------
(* run_service.  It changes nothing of the threads, which are all idle when  *)
(* the machines go.                                                          *)
LEMMA StepMain ==
  ASSUME HandleInv, ~dead,
         \/ NewServer \/ (\E s \in {"http", "tcp"} : HandleStop(s)) \/ Join \/ DeleteAll \/ Signal
         \/ DeleteServers /\ main' = "exited"
  PROVE  HandleInv'
<1> USE DEF HandleInv
<1>0. main = "deleted" => ~Dies \/ main' = main
  BY DEF Dies, procVars
<1>1. UNCHANGED <<dead, th, remote_ip, m_local_ses_, m_lua_oper_, key, top, taken, wrong, met>>
  BY <1>0 DEF NewServer, HandleStop, Join, DeleteAll, Signal, DeleteServers, hmVars, objVars, history
<1>2. main' # main =>
        /\ main # "exited" /\ main' \in {"http_server", "running", "joined", "deleted", "exited"}
        /\ main = "running" => main' = "joined" /\ \A t \in Threads : th[t].pc = "idle"
        /\ main' = "running" => main # "running"
        /\ main \in {"joined", "deleted"} => main' \in {"deleted", "exited"}
        /\ main' \in {"deleted", "exited"} => main \in {"joined", "deleted"}
  BY DEF NewServer, HandleStop, Join, DeleteAll, Signal, DeleteServers, Ended, MayJoin
<1>3. Faultless'
  BY <1>1 DEF Faultless
<1>4. luavms' = luavms \/ (luavms' = {} /\ main = "joined" /\ main' = "deleted")
  BY <1>0 DEF NewServer, HandleStop, Join, DeleteAll, Signal, DeleteServers, objVars
<1>5. TypeInv'
  <2>1. stopping' \subseteq {"http", "tcp"} /\ signalled' \in BOOLEAN
    BY <1>0 DEF TypeInv, NewServer, HandleStop, Join, DeleteAll, Signal, DeleteServers
  <2>2. main' \in {"tcp_server", "http_server", "running", "joined", "deleted", "exited"}
    BY <1>2 DEF TypeInv
  <2>3. luavms' \subseteq Threads
    BY <1>4 DEF TypeInv
  <2> QED
    BY <1>1, <2>1, <2>2, <2>3 DEF TypeInv, ThreadTypes
<1>6. Pointers'
  BY <1>1 DEF Pointers
<1>7. \A t \in Threads : Place(t)'
  BY <1>1, <1>2 DEF Place
<1>8. Machines'
  <2>1. CASE luavms' = luavms
    <3>1. main' \notin {"deleted", "exited"} => main \notin {"deleted", "exited"}
      BY <1>2
    <3> QED
      BY <1>1, <2>1, <3>1 DEF Machines, At
  <2>2. CASE main = "joined" /\ main' = "deleted"
    <3>1. \A t \in Threads : th[t].pc = "idle"
      BY <2>2 DEF Place
    <3>2. \A t \in Threads : th[t].at = Nowhere
      BY <3>1 DEF Place
    <3> QED
      BY <1>1, <2>2, <3>2 DEF Machines, Nowhere, None
  <2> QED
    BY <1>4, <2>1, <2>2
<1>9. Company'
  BY <1>1 DEF Company, Busy
<1>10. \A t \in Threads : Quiet(t)'
  BY <1>1 DEF Quiet, Busy, Undisturbed, Mine
<1> QED
  BY <1>3, <1>5, <1>6, <1>7, <1>8, <1>9, <1>10

LEMMA HandleNext == ASSUME HandleInv, [Next]_vars PROVE HandleInv'
<1>1. CASE Step
  <2>1. ASSUME NEW t \in Threads, Calls(t) PROVE HandleInv'
    BY <2>1, StepBegin, StepFault, StepStoreIp, StepAnswer, StepCopyIp, StepSesOperGrab, StepSetKey,
       StepDecrypt, StepLuaVmGrab, StepCallLuaFunc, StepGetReturnValue, StepClear, StepEncrypt DEF Calls
  <2>2. ASSUME NEW t \in Threads, Receive(t) \/ Clash(t) \/ DeleteSession(t) PROVE HandleInv'
    BY <2>2, StepReceive, StepFault, StepDeleteSession
  <2>3. CASE Main
    <3>1. DeleteServers => main' = "exited" \/ (Dies /\ main = "deleted")
      BY DEF DeleteServers
    <3> QED
      BY <1>1, <2>3, <3>1, StepMain, StepDies DEF Main, Step
  <2>4. CASE BindFails
    <3>1. Dies /\ main # "running"
      BY <2>4 DEF BindFails
    <3> QED
      BY <3>1, StepDies
  <2>5. CASE Signal
    BY <1>1, <2>5, StepMain DEF Step
  <2> QED
    BY <1>1, <2>1, <2>2, <2>3, <2>4, <2>5 DEF Step
<1>2. CASE UNCHANGED vars
  <2>1. UNCHANGED <<main, signalled, stopping, dead, th, remote_ip, m_local_ses_, m_lua_oper_,
                    key, top, luavms, taken, wrong, met>>
    BY <1>2 DEF vars, procVars, hmVars, objVars, history
  <2>2. TypeInv' /\ Pointers' /\ Machines'
    BY <2>1 DEF HandleInv, TypeInv, ThreadTypes, Pointers, Machines, At
  <2>3. Company' /\ Faultless'
    BY <2>1 DEF HandleInv, Company, Busy, Faultless
  <2>4. \A t \in Threads : Place(t)'
    BY <2>1 DEF HandleInv, Place
  <2>5. \A t \in Threads : Quiet(t)'
    BY <2>1 DEF HandleInv, Quiet, Busy, Undisturbed, Mine
  <2> QED
    BY <2>2, <2>3, <2>4, <2>5 DEF HandleInv
<1> QED
  BY <1>1, <1>2 DEF Next, Terminated

(* The invariant, for any number of threads, messages and signals.           *)
THEOREM HandleInvariant == Spec => []HandleInv
<1>1. Init => HandleInv
  BY HandleInit
<1>2. HandleInv /\ [Next]_vars => HandleInv'
  BY HandleNext
<1> QED
  BY <1>1, <1>2, PTL DEF Spec

LEMMA TypesOf == HandleInv => TypeOK
<1> SUFFICES ASSUME HandleInv PROVE TypeOK
  OBVIOUS
<1> USE DEF HandleInv
<1>1. taken["http"] \in 0..MaxHttp /\ taken["tcp"] \in 0..MaxTcp
  BY ThreadFacts DEF TypeInv
<1>2. \A h \in Handlers : m_local_ses_[h] \in Threads \cup {None} /\ m_lua_oper_[h] \in Threads \cup {None}
  BY DEF Pointers
<1> QED
  BY <1>1, <1>2 DEF TypeOK, TypeInv, Machines

(* TypeOK: among the types, that a machine in use is there.                  *)
THEOREM HandleTypes == Spec => []TypeOK
BY HandleInvariant, TypesOf, PTL

(* OwnReply: nobody but HTTP requests that met gets another's answer.        *)
THEOREM RightReplies == Spec => []OwnReply
<1>1. HandleInv => OwnReply
  BY DEF HandleInv, Faultless, OwnReply
<1> QED
  BY <1>1, HandleInvariant, PTL

(* OnlyTogetherKills: nothing else ends a running server early.              *)
THEOREM NobodyElseKills == Spec => []OnlyTogetherKills
<1>1. HandleInv => OnlyTogetherKills
  BY DEF HandleInv, Faultless, OnlyTogetherKills
<1> QED
  BY <1>1, HandleInvariant, PTL

-----------------------------------------------------------------------------
(* The end of the process.  A thread that has its ses keeps it, and a signal *)
(* is heard only by servers that are there.                                  *)
HasSes(t) == th[t].pc \in Locked => m_local_ses_[Hm(t)] # None
Heard == signalled => main \notin {"tcp_server", "http_server"}
StopInv == HandleInv /\ Heard /\ \A t \in Threads : HasSes(t)

(* A thread that does not lock a ses anew has the one it had.                *)
Unlocks(t) == th'[t].pc \in Locked => th[t].pc \in Locked
LEMMA Unlocked ==
  ASSUME \A t \in Threads : HasSes(t), m_local_ses_' = m_local_ses_,
         NEW v \in Threads, Unlocks(v), \A u \in Threads \ {v} : th'[u].pc = th[u].pc
  PROVE  \A t \in Threads : HasSes(t)'
BY DEF HasSes, Unlocks

LEMMA CallsHasSes ==
  ASSUME HandleInv, NEW v \in Threads, Calls(v), ~Dies, \A t \in Threads : HasSes(t)
  PROVE  \A t \in Threads : HasSes(t)'
<1> USE DEF HandleInv, TypeInv
<1>1. CASE SesOperGrab(v)
  <2>1. /\ m_local_ses_' = [m_local_ses_ EXCEPT ![Hm(v)] = v]
        /\ \A u \in Threads \ {v} : th'[u] = th[u]
    BY <1>1 DEF SesOperGrab, Goto, ThreadTypes
  <2>2. \A t \in Threads : m_local_ses_'[Hm(t)] \in {v, m_local_ses_[Hm(t)]}
    BY <2>1, ThreadFacts DEF Pointers
  <2>3. m_local_ses_'[Hm(v)] = v
    BY <2>1, ThreadFacts DEF Pointers
  <2> QED
    BY <2>1, <2>2, <2>3, ThreadFacts DEF HasSes
<1>2. CASE ~SesOperGrab(v)
  <2>1. m_local_ses_' = m_local_ses_
    BY <1>2 DEF Calls, NullCall, SesThrows, Begin, StoreIp, BadRequest, CopyIp, GeneralClientInfo,
       SetKey, Decrypt, LuaVmGrab, CallLuaFunc, GetReturnValue, Clear, Encrypt, hmVars
  <2>2. ASSUME NEW answer, Returns(v, answer) PROVE \A t \in Threads : HasSes(t)'
    <3>1. Returned(v)
      BY <2>2, ReturnsIs
    <3>2. Unlocks(v) /\ \A u \in Threads \ {v} : th'[u].pc = th[u].pc
      BY <3>1 DEF Returned, Unlocks, Locked, Calling, Asleep
    <3> QED
      BY <2>1, <3>2, Unlocked
  <2>3. CASE \E answer : Returns(v, answer)
    BY <2>2, <2>3
  <2>4. CASE ~\E answer : Returns(v, answer)
    <3>1. \A u \in Threads \ {v} : th'[u].pc = th[u].pc
      BY <1>2, <2>4 DEF Calls, NullCall, SesThrows, Begin, StoreIp, BadRequest, CopyIp, GeneralClientInfo,
         SetKey, Decrypt, LuaVmGrab, CallLuaFunc, GetReturnValue, Clear, Encrypt, Goto, ThreadTypes
    <3>2. Begin(v) => th'[v].pc = th[v].pc
      BY DEF Begin, ThreadTypes, States
    <3>3. StoreIp(v) \/ CopyIp(v) => th'[v].pc \notin Locked
      BY DEF StoreIp, CopyIp, Goto, ThreadTypes, States, Locked, Calling
    <3>4. In(v, "set_key") \/ In(v, "call_lua_func") \/ In(v, "clear") => th[v].pc \in Locked
      BY DEF In, Locked, Calling
    <3>5. SetKey(v) \/ CallLuaFunc(v) \/ Clear(v) => th[v].pc \in Locked
      BY <3>4 DEF SetKey, CallLuaFunc, Clear
    <3>6. Decrypt(v) \/ LuaVmGrab(v) \/ GetReturnValue(v) \/ Encrypt(v) => th[v].pc \in Locked
      BY DEF Decrypt, LuaVmGrab, GetReturnValue, Encrypt, Read, Locked, Calling
    <3>7. th'[v].pc \in Locked => th[v].pc \in Locked
      BY <1>2, <2>4, <3>2, <3>3, <3>5, <3>6 DEF Calls, BadRequest, GeneralClientInfo, NullCall, SesThrows
    <3> QED
      BY <2>1, <3>1, <3>7, Unlocked DEF Unlocks
  <2> QED
    BY <2>3, <2>4
<1> QED
  BY <1>1, <1>2

LEMMA StopInit == Init => StopInv
<1> SUFFICES ASSUME Init PROVE StopInv
  OBVIOUS
<1>1. \A t \in Threads : th[t].pc = "idle"
  BY DEF Init, AllIdle, Idle
<1> QED
  BY <1>1, HandleInit DEF Init, StopInv, Heard, HasSes, Locked, Calling

LEMMA StopNext == ASSUME StopInv, [Next]_vars PROVE StopInv'
<1> USE DEF StopInv
<1>1. HandleInv'
  BY HandleNext
<1>2. CASE Dies
  <2>1. UNCHANGED <<main, signalled>> /\ \A t \in Threads : th'[t].pc = "idle"
    BY <1>2 DEF Dies, procVars, AllIdle, Idle
  <2> QED
    BY <1>1, <2>1 DEF Heard, HasSes, Locked, Calling
<1>3. CASE UNCHANGED vars
  BY <1>1, <1>3 DEF vars, procVars, hmVars, Heard, HasSes
<1>4. ASSUME NEW v \in Threads, Calls(v), ~Dies PROVE StopInv'
  <2>1. UNCHANGED procVars
    BY <1>4 DEF Calls, NullCall, SesThrows, Begin, StoreIp, BadRequest, CopyIp, GeneralClientInfo, SesOperGrab,
       SetKey, Decrypt, LuaVmGrab, CallLuaFunc, GetReturnValue, Clear, Encrypt
  <2> QED
    BY <1>1, <1>4, <2>1, CallsHasSes DEF Heard, procVars
<1>5. ASSUME NEW v \in Threads, Receive(v) \/ DeleteSession(v) PROVE StopInv'
  <2>1. UNCHANGED <<procVars, m_local_ses_>>
    BY <1>5 DEF Receive, DeleteSession, hmVars
  <2>2. /\ \A u \in Threads \ {v} : th'[u].pc = th[u].pc
        /\ th'[v].pc \in {"handle_message", "remote_ip=", "idle"}
    <3>1. CASE DeleteSession(v)
      <4>1. th' = Goto(v, "idle")
        BY <3>1 DEF DeleteSession
      <4> QED
        BY <4>1, GotoIs DEF Going, Asleep, HandleInv, TypeInv
    <3>2. CASE Receive(v) /\ v \in TcpThreads
      BY <3>2, ThreadFacts DEF Receive, HandleInv, TypeInv, ThreadTypes, States
    <3>3. CASE Receive(v) /\ v \notin TcpThreads
      <4>1. th' = [u \in Threads |->
                     CASE u = v -> [th[v] EXCEPT !.pc = "remote_ip=", !.cur = (taken')["http"], !.alone = Others(v) = {}]
                       [] u \in Others(v) -> [th[u] EXCEPT !.alone = FALSE]
                       [] OTHER -> th[u]]
        BY <3>3 DEF Receive
      <4>2. \A u \in Threads : "pc" \in DOMAIN th[u]
        BY DEF HandleInv, TypeInv, ThreadTypes, States
      <4>3. v \notin Others(v)
        BY DEF Others
      <4>4. th'[v].pc = "remote_ip="
        BY <4>1, <4>2, <4>3
      <4>5. ASSUME NEW u \in Threads \ {v} PROVE th'[u].pc = th[u].pc
        <5>1. CASE u \in Others(v)
          <6>1. th'[u] = [th[u] EXCEPT !.alone = FALSE]
            BY <4>1, <5>1
          <6> QED
            BY <4>2, <6>1
        <5>2. CASE u \notin Others(v)
          BY <4>1, <5>2
        <5> QED
          BY <5>1, <5>2
      <4> QED
        BY <4>4, <4>5
    <3> QED
      BY <1>5, <3>1, <3>2, <3>3
  <2>3. Unlocks(v)
    BY <2>2 DEF Unlocks, Locked, Calling
  <2> QED
    BY <1>1, <2>1, <2>2, <2>3, Unlocked DEF Heard, procVars
<1>6. ASSUME Main \/ Signal, ~Dies PROVE StopInv'
  <2>1. UNCHANGED <<th, m_local_ses_>>
    BY <1>6 DEF Main, Signal, NewServer, HandleStop, Join, DeleteAll, DeleteServers, hmVars
  <2>2. Heard'
    BY <1>6 DEF Main, Signal, NewServer, HandleStop, Join, MayJoin, DeleteAll, DeleteServers, Heard
  <2> QED
    BY <1>1, <2>1, <2>2 DEF HasSes
<1> QED
  BY <1>2, <1>3, <1>4, <1>5, <1>6 DEF Next, Step, Terminated, Clash, BindFails

THEOREM StopInvariant == Spec => []StopInv
<1>1. Init => StopInv
  BY StopInit
<1>2. StopInv /\ [Next]_vars => StopInv'
  BY StopNext
<1> QED
  BY <1>1, <1>2, PTL DEF Spec

(* A thread that is not idle has its next step before it: it holds a pointer *)
(* to every object it is about to call, or a null pointer to a machine.      *)
LEMMA NotIdleGoesOn ==
  ASSUME StopInv, NEW t \in Threads, th[t].pc # "idle"
  PROVE  GoesOn(t)
<1> USE DEF StopInv
<1>1. th[t].pc \in Asleep \cup Asked \cup Locked
  BY DEF HandleInv, TypeInv, ThreadTypes, States
<1>2. CASE th[t].pc \in {"copy_ip", "handle_message", "lua_vm_grab", "delete"}
  BY <1>2 DEF GoesOn
<1>3. CASE th[t].pc = "remote_ip="
  <2>1. <<"ip", "http">> \in Objects(t)
    BY <1>3, ObjectsOf DEF IpCalls
  <2> QED
    BY <2>1 DEF GoesOn, None
<1>4. CASE th[t].pc \in {"set_key", "Decrypt", "Encrypt"}
  <2>1. <<"ses", m_local_ses_[Hm(t)]>> \in Objects(t)
    BY <1>4, ObjectsOf DEF SesCalls
  <2>2. m_local_ses_[Hm(t)] # None
    BY <1>4 DEF HasSes, Locked
  <2> QED
    BY <2>1, <2>2 DEF GoesOn
<1>5. CASE th[t].pc \in LuaCalls
  <2>1. <<"lua", m_lua_oper_[Hm(t)]>> \in Objects(t)
    BY <1>5, ObjectsOf
  <2> QED
    BY <2>1 DEF GoesOn
<1> QED
  BY <1>1, <1>2, <1>3, <1>4, <1>5 DEF Asleep, Asked, Locked, Calling, LuaCalls

(* Stops: once a signal has come, the process goes on until it has ended.    *)
THEOREM NobodyStuck == Spec => []Stops
<1>1. StopInv => Stops
  <2> SUFFICES ASSUME StopInv, signalled, ~Over, \A t \in Threads : th[t].pc = "idle", main = "running"
               PROVE  (\E s \in {"http", "tcp"} : MayStop(s)) \/ MayJoin
    BY NotIdleGoesOn DEF Stops, StopInv, Heard, Over, HandleInv, TypeInv
  <2>1. \A s \in {"http", "tcp"} : StopThreads(s) \subseteq Threads
    BY HMAssumption, ThreadFacts DEF StopThreads
  <2>2. TcpThreads # {} => StopThreads("tcp") # {}
    BY DEF StopThreads
  <2>3. CASE \A t \in Threads : Server(t) \in stopping
    BY <2>3 DEF MayJoin, Ended
  <2>4. CASE \E t \in Threads : Server(t) \notin stopping
    <3>1. PICK t \in Threads : Server(t) \notin stopping
      BY <2>4
    <3>2. StopThreads(Server(t)) # {} /\ Server(t) \in {"http", "tcp"}
      BY <2>2, HMAssumption DEF StopThreads, Server
    <3> QED
      BY <2>1, <3>1, <3>2 DEF MayStop
  <2> QED
    BY <2>3, <2>4
<1> QED
  BY <1>1, StopInvariant, PTL
=============================================================================
