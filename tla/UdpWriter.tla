------------------------------ MODULE UdpWriter ------------------------------
(***************************************************************************)
(* Log subscription of the EIMS framework (frame/io/udp/net_udp_writer.cpp,*)
(* used by frame/debug/log.cpp).                                           *)
(*                                                                         *)
(* One thread receives commands of two bytes, the first of which is S      *)
(* (subscribe), E (end) or anything else (keep alive); the logger's thread *)
(* sends each batch of logs to whoever is in the map.  A mutex guards the  *)
(* map.  Datagrams may be lost, repeated and reordered.                    *)
(*                                                                         *)
(* Time is in units of which Limit are sixty seconds; the clock is not set *)
(* back.  The levels of subscriptions are left out: nothing reads them.    *)
(*                                                                         *)
(* No name is one of Logger's: Logger_proofs extends both modules.         *)
(***************************************************************************)
EXTENDS Integers, FiniteSets

CONSTANTS
  Clients,    \* addresses, by IP and port
  Key,        \* Key[c]: the sum of IP and port, which clients may share
  Limit,      \* sixty seconds
  MaxTime,    \* bound: the clock
  MaxSends,   \* bound: datagrams sent by clients
  MaxWrites   \* bound: batches of logs

ASSUME UWAssumption ==
  /\ Key \in [Clients -> Nat \ {0}]
  /\ Limit \in Nat /\ MaxTime \in Nat /\ MaxSends \in Nat /\ MaxWrites \in Nat

Keys == {Key[c] : c \in Clients}
NoAddr == "no address"
ASSUME NoAddrAssumption == NoAddr \notin Clients

Commands == {"S", "E", "keep"}
States   == {"none", "live", "lapsed", "cancelled", "displaced"}

VARIABLES
  clients,  \* the map from keys to addresses and times
  locker,   \* "free", the thread that holds it, or "destroyed"
  now,      \* get_time_now
  net,      \* datagrams on their way
  sends,    \* datagrams sent so far
  rpc,      \* sub_log
  dgram,    \* cl and buffer
  uwpc,     \* write_to_sock
  atKey,    \* the key last visited, 0 before the first
  sent,     \* sent[c]: datagrams sent to c by this write_to_sock
  writes,   \* calls of write_to_sock so far
  m_run_,
  qpc,      \* stop
  heard,    \* history: heard[c], when a command of c was last handled
  state     \* history: state[c], what c has asked for and others made of it

recvVars  == <<rpc, dgram>>
writeVars == <<uwpc, atKey, sent, writes>>
stopVars  == <<m_run_, qpc>>
histVars  == <<heard, state>>
udpVars   == <<clients, locker, now, net, sends, recvVars, writeVars, stopVars, histVars>>

Alive == uwpc # "crashed"

-----------------------------------------------------------------------------
Tick ==
  /\ Alive /\ now < MaxTime
  /\ now' = now + 1
  /\ UNCHANGED <<clients, locker, net, sends, recvVars, writeVars, stopVars, histVars>>

ClientSends(c, cmd) ==
  /\ Alive /\ sends < MaxSends
  /\ sends' = sends + 1 /\ net' = net \cup {<<c, cmd>>}
  /\ UNCHANGED <<clients, locker, now, recvVars, writeVars, stopVars, histVars>>

(* A mutex that was destroyed does not keep anybody out.                     *)
Take(thread) ==
  /\ locker \in {"free", "destroyed"}
  /\ locker' = IF locker = "free" THEN thread ELSE locker
Release == locker' = IF locker = "destroyed" THEN locker ELSE "free"

-----------------------------------------------------------------------------
(* sub_log.                                                                  *)
\* Mutant: m_run_ is not looked at.
LoopForever ==
  /\ Alive /\ rpc = "loop" /\ rpc' = "recv"
  /\ UNCHANGED <<clients, locker, now, net, sends, dgram, writeVars, stopVars, histVars>>
Loop ==
  /\ Alive /\ rpc = "loop"
  /\ rpc' = IF m_run_ THEN "recv" ELSE "ended"
  /\ UNCHANGED <<clients, locker, now, net, sends, dgram, writeVars, stopVars, histVars>>

Recv ==
  /\ Alive /\ rpc = "recv" /\ rpc' = "lock"
  /\ dgram' \in net /\ net' \in {net, net \ {dgram'}}
  /\ UNCHANGED <<clients, locker, now, sends, writeVars, stopVars, histVars>>

RecvTimeout ==
  /\ Alive /\ rpc = "recv" /\ rpc' = "loop"
  /\ UNCHANGED <<clients, locker, now, net, sends, dgram, writeVars, stopVars, histVars>>

LockClients ==
  /\ Alive /\ rpc = "lock" /\ rpc' = "in"
  /\ Take("sub_log")
  /\ UNCHANGED <<clients, now, net, sends, dgram, writeVars, stopVars, histVars>>

Put(k, entry) == [x \in DOMAIN clients \cup {k} |-> IF x = k THEN entry ELSE clients[x]]
AddrAt(k) == IF k \in DOMAIN clients THEN clients[k].addr ELSE NoAddr

(* S and E write the whole entry, a keep alive only its time.                *)
Entry(c, cmd) ==
  CASE cmd = "S" -> [addr |-> c, ac_time |-> now]
    [] cmd = "E" -> [addr |-> c, ac_time |-> 0]
    [] OTHER     -> [addr |-> AddrAt(Key[c]), ac_time |-> now]

After(c, cmd) ==
  CASE cmd = "S" -> "live"
    [] cmd = "E" -> "cancelled"
    [] OTHER     -> IF state[c] = "live" /\ now - heard[c] > Limit THEN "lapsed" ELSE state[c]

(* Another client's S and E take the entry under a key they share.           *)
Takes(c, cmd, d) == d # c /\ Key[d] = Key[c] /\ cmd # "keep" /\ state[d] # "none"

Handle(c, cmd) ==
  /\ Alive /\ rpc = "in" /\ rpc' = "reply" /\ dgram = <<c, cmd>>
  /\ clients' = Put(Key[c], Entry(c, cmd))
  /\ Release
  /\ heard' = [heard EXCEPT ![c] = now]
  /\ state' = [d \in Clients |-> IF d = c THEN After(c, cmd)
                                ELSE IF Takes(c, cmd, d) THEN "displaced" ELSE state[d]]
  /\ UNCHANGED <<now, net, sends, dgram, writeVars, stopVars>>

(* "your command operator ok"                                                *)
Reply ==
  /\ Alive /\ rpc = "reply" /\ rpc' = "loop" /\ dgram' = << >>
  /\ UNCHANGED <<clients, locker, now, net, sends, writeVars, stopVars, histVars>>

-----------------------------------------------------------------------------
(* write_to_sock, called by the logger's thread also after stop.             *)
Write ==
  /\ uwpc = "idle" /\ writes < MaxWrites
  /\ uwpc' = "lock" /\ writes' = writes + 1
  /\ UNCHANGED <<clients, locker, now, net, sends, recvVars, atKey, sent, stopVars, histVars>>

LockWrite ==
  /\ uwpc = "lock" /\ uwpc' = "loop"
  /\ Take("write_to_sock")
  /\ UNCHANGED <<clients, now, net, sends, recvVars, atKey, sent, writes, stopVars, histVars>>

KeysAhead == {k \in DOMAIN clients : k > atKey}
IsNextKey(k) == k \in KeysAhead /\ \A x \in KeysAhead : k <= x

\* Mutant: an entry as old as the limit is expired.
ExpiredEarly(k) == now - clients[k].ac_time >= Limit
Expired(k) == now - clients[k].ac_time > Limit

\* Mutant: the time is not looked at.
SendAny(k) ==
  /\ uwpc = "loop" /\ IsNextKey(k)
  /\ sent' = [c \in Clients |-> IF c = clients[k].addr THEN sent[c] + 1 ELSE sent[c]]
  /\ atKey' = k
  /\ UNCHANGED <<clients, locker, now, net, sends, recvVars, uwpc, writes, stopVars, histVars>>
SendTo(k) ==
  /\ uwpc = "loop" /\ IsNextKey(k) /\ ~Expired(k)
  /\ sent' = [c \in Clients |-> IF c = clients[k].addr THEN sent[c] + 1 ELSE sent[c]]
  /\ atKey' = k
  /\ UNCHANGED <<clients, locker, now, net, sends, recvVars, uwpc, writes, stopVars, histVars>>

(* The iterator of the erased entry is advanced: it may come to any entry or *)
(* to the end, or the program crashes.                                       *)
Erase(k) ==
  /\ uwpc = "loop" /\ IsNextKey(k) /\ Expired(k)
  /\ clients' = [x \in DOMAIN clients \ {k} |-> clients[x]]
  /\ \/ atKey' \in {0} \cup Keys /\ uwpc' = "loop"
     \/ atKey' = atKey /\ uwpc' = "crashed"
  /\ UNCHANGED <<locker, now, net, sends, recvVars, sent, writes, stopVars, histVars>>

UnlockWrite ==
  /\ uwpc = "loop" /\ KeysAhead = {} /\ uwpc' = "idle"
  /\ Release
  /\ atKey' = 0 /\ sent' = [c \in Clients |-> 0]
  /\ UNCHANGED <<clients, now, net, sends, recvVars, writes, stopVars, histVars>>

-----------------------------------------------------------------------------
(* stop, called by Logger::quit before its writer thread has ended.          *)
Stop ==
  /\ Alive /\ qpc = "run" /\ qpc' = "join"
  /\ m_run_' = FALSE
  /\ UNCHANGED <<clients, locker, now, net, sends, recvVars, writeVars, histVars>>

\* Mutant: the receiving thread is not waited for.
JoinNot ==
  /\ Alive /\ qpc = "join" /\ qpc' = "destroy"
  /\ UNCHANGED <<clients, locker, now, net, sends, recvVars, writeVars, m_run_, histVars>>
JoinReceiver ==
  /\ Alive /\ qpc = "join" /\ rpc = "ended" /\ qpc' = "destroy"
  /\ UNCHANGED <<clients, locker, now, net, sends, recvVars, writeVars, m_run_, histVars>>

(* A mutex that is held is not destroyed.                                    *)
Destroy ==
  /\ Alive /\ qpc = "destroy" /\ qpc' = "done"
  /\ locker' = IF locker = "free" THEN "destroyed" ELSE locker
  /\ UNCHANGED <<clients, now, net, sends, recvVars, writeVars, m_run_, histVars>>

-----------------------------------------------------------------------------
(* initial; when it fails, Logger::initialize stops the writer, and quit     *)
(* does so again.                                                            *)
UdpInit ==
  /\ clients = << >> /\ now = Limit + 1 /\ net = {} /\ sends = 0
  /\ \/ locker = "free" /\ m_run_ = TRUE /\ rpc = "loop"
     \/ locker = "destroyed" /\ m_run_ = FALSE /\ rpc = "ended"
  /\ dgram = << >>
  /\ uwpc = "idle" /\ atKey = 0 /\ sent = [c \in Clients |-> 0] /\ writes = 0
  /\ qpc = "run"
  /\ heard = [c \in Clients |-> 0] /\ state = [c \in Clients |-> "none"]

Receiver ==
  \/ Loop \/ Recv \/ RecvTimeout \/ LockClients \/ Reply
  \/ \E c \in Clients, cmd \in Commands : Handle(c, cmd)
Writing ==
  \/ LockWrite \/ UnlockWrite
  \/ \E k \in DOMAIN clients : SendTo(k) \/ Erase(k)
Stopping == JoinReceiver \/ Destroy

UdpNext ==
  \/ Tick
  \/ \E c \in Clients, cmd \in Commands : ClientSends(c, cmd)
  \/ Receiver \/ Write \/ Writing
  \/ Stop \/ Stopping

UdpSpec == UdpInit /\ [][UdpNext]_udpVars

(* Threads are scheduled, a mutex that is released again and again is        *)
(* obtained, and recvfrom returns at the latest with its timeout.            *)
UdpFairness ==
  /\ WF_udpVars(Loop) /\ WF_udpVars(Recv \/ RecvTimeout) /\ SF_udpVars(LockClients) /\ WF_udpVars(Reply)
  /\ WF_udpVars(\E c \in Clients, cmd \in Commands : Handle(c, cmd))
  /\ SF_udpVars(LockWrite) /\ WF_udpVars(Writing) /\ WF_udpVars(Stopping)
UdpFairSpec == UdpSpec /\ UdpFairness

-----------------------------------------------------------------------------
UdpTypeOK ==
  /\ DOMAIN clients \subseteq Keys
  /\ \A k \in DOMAIN clients :
       clients[k].addr \in Clients \cup {NoAddr} /\ clients[k].ac_time \in 0..now
  /\ locker \in {"free", "sub_log", "write_to_sock", "destroyed"}
  /\ now \in Nat /\ net \subseteq Clients \X Commands /\ sends \in 0..MaxSends
  /\ rpc \in {"loop", "recv", "lock", "in", "reply", "ended"}
  /\ rpc \in {"lock", "in", "reply"} => dgram \in Clients \X Commands
  /\ uwpc \in {"idle", "lock", "loop", "crashed"}
  /\ atKey \in Nat /\ sent \in [Clients -> Nat] /\ writes \in 0..MaxWrites
  /\ m_run_ \in BOOLEAN /\ qpc \in {"run", "join", "destroy", "done"}
  /\ heard \in [Clients -> 0..now]
  /\ state \in [Clients -> States]

(* The two threads are never in the map together, also when stop has         *)
(* destroyed the mutex under the writer's feet.                              *)
MapExclusive == ~(rpc = "in" /\ uwpc = "loop")

Holds(c) == \E k \in DOMAIN clients : clients[k].addr = c

(* A client that has subscribed, has not cancelled, and whose commands have  *)
(* kept arriving within sixty seconds is in the map, unless a client with    *)
(* the same sum of IP and port has subscribed or cancelled since.            *)
KeepsLive ==
  \A c \in Clients : state[c] = "live" /\ now - heard[c] <= Limit => Holds(c)

(* Nothing is sent to a client that never subscribed or was displaced, and   *)
(* nothing to one whose key has been silent for more than sixty seconds: its *)
(* own commands count, and those of the clients it shares the key with.      *)
HeardAt(k) == \E d \in Clients : Key[d] = k /\ now - heard[d] <= Limit
SilentDropped ==
  [][\A c \in Clients :
       sent'[c] > sent[c] => HeardAt(Key[c]) /\ state[c] \notin {"none", "displaced"}]_udpVars

(* The map is the set of the clients that subscribed, as the comment at its  *)
(* definition says: a live client leaves it only by its own E.               *)
LeavesByItself ==
  [][\A c \in Clients :
       state[c] = "live" /\ now - heard[c] <= Limit /\ Holds(c) /\ ~Holds(c)'
       => state'[c] = "cancelled"]_udpVars

(* stop returns, unless the writer's iteration has crashed the program.      *)
StopReturns == qpc = "join" ~> qpc = "done" \/ ~Alive
=============================================================================
