---------------------------- MODULE FileTransfer ----------------------------
(***************************************************************************)
(* The file drop server (src/文件传送/server) and the client program that  *)
(* stores what it sends (src/文件传送/client).                             *)
(*                                                                         *)
(* Three threads share the list vectorfilename and the descriptor          *)
(* acceptfd: CheckDir scans the directory into the list, FunWrite sends    *)
(* and removes the listed files, FunAccept overwrites acceptfd with every  *)
(* new connection.  Two semaphores hand the list back and forth; acceptfd  *)
(* is not protected.  main creates CheckDir before it initialises the      *)
(* semaphores.                                                             *)
(***************************************************************************)
EXTENDS Integers, Sequences, FiniteSets

CONSTANTS
  Files,       \* names that may appear in the directory
  Clients,     \* client programs
  MaxConn,     \* bound: connections of one client program the server gets to see
  MaxVersion,  \* bound: times one name is written into the directory
  MaxReplaced, \* bound: names written into the directory more than once
  MaxVec,      \* bound: entries of vectorfilename from which on a scan adds no repeats
  Capacity,    \* pieces a connection buffers before write() blocks
  MaxFaults,   \* bound: calls that fail in one behaviour
  Faults,      \* calls that may fail: a subset of {"opendir","accept","remove"}
  NoFd,        \* the initial value 0 of acceptfd
  BadFd,       \* the value -1 a failed accept leaves in acceptfd
  Junk         \* a file name made of another file's contents

ASSUME FTAssumption ==
  /\ MaxConn \in Nat /\ MaxVersion \in Nat \ {0}
  /\ MaxReplaced \in Nat /\ MaxVec \in Nat /\ MaxFaults \in Nat /\ Capacity \in Nat
  /\ IsFiniteSet(Files)
  /\ Faults \subseteq {"opendir", "accept", "remove"}
  /\ Junk \notin Files
  /\ {NoFd, BadFd} \cap (Clients \X (1..MaxConn)) = {}

Conns == Clients \X (1..MaxConn)

(* What one write() puts on a connection: a length or the bytes it announces, *)
(* of a file's name or of its data.  Of data, size is the version stat() saw  *)
(* and body the version the bytes were read from.                             *)
Pieces == [kind : {"len", "body"}, of : {"name", "data"}, file : Files,
           size : 0..MaxVersion, body : 0..MaxVersion]

VARIABLES
  content,  \* content[f]: version of f in the directory, 0 when there is none
  made,     \* made[f]: versions of f written so far
  mpc,      \* main
  sem1,     \* sem_id1
  sem2,     \* sem_id2
  wiped,    \* history: sem_init(&sem_id2) discarded a post
  cpc,      \* CheckDir
  must,     \* files present when the running scan started
  seen,     \* entries the running scan has returned
  vec,      \* vectorfilename
  acceptfd, \* the connection FunWrite writes to
  apc,      \* FunAccept
  backlog,  \* connections waiting in listen()'s queue
  wpc,      \* FunWrite
  wfd,      \* the descriptor a blocked write() was called with, NoFd when none
  at,       \* index of the range-for over vectorfilename
  size,     \* buffile.st_size, as the version it is the size of
  data,     \* version of the bytes read into data
  sent,     \* history: <<f, v>> -> times version v of f was sent, up to 2
  kept,     \* history: <<f, v>> whose remove() failed
  chan,     \* pieces written to a connection and not yet read
  sock,     \* sock[c]: number of client c's last connection, 0 when none
  closed,   \* connections their client closed at once, its connect() having failed
  rpc,      \* rpc[c]: what client c reads next, "down" when it has no connection
  name,     \* name[c]: the file name client c has read and not yet used, or Junk
  stored    \* what the clients have stored

dirVars    == <<content, made>>
scanVars   == <<cpc, must, seen>>
acceptVars == <<acceptfd, apc, backlog>>
writeVars  == <<wpc, wfd, at, size, data, sent, kept>>
clientVars == <<sock, closed, rpc, name, stored>>
vars == <<dirVars, mpc, sem1, sem2, wiped, scanVars, vec, acceptVars, writeVars, chan, clientVars>>

Present == {f \in Files : content[f] # 0}

One(b) == IF b THEN 1 ELSE 0
MayFail(call) ==
  /\ call \in Faults
  /\ One(cpc = "ended") + One(apc = "ended") + Cardinality(kept) < MaxFaults

-----------------------------------------------------------------------------
(* The process that drops files into the directory: it creates or replaces. *)
Drop(f) ==
  /\ made[f] < MaxVersion
  /\ made[f] = 1 => Cardinality({g \in Files : made[g] > 1}) < MaxReplaced
  /\ made' = [made EXCEPT ![f] = @ + 1]
  /\ content' = [content EXCEPT ![f] = made'[f]]
  /\ UNCHANGED <<wiped, mpc, sem1, sem2, scanVars, vec, acceptVars, writeVars, chan, clientVars>>

-----------------------------------------------------------------------------
(* main: CheckDir is created first, then each semaphore is initialised, then *)
(* listen() and the other two threads.                                       *)
CreateCheckDir ==
  /\ mpc = "create"
  /\ mpc' = "init1" /\ cpc' = "wait"
  /\ UNCHANGED <<wiped, dirVars, sem1, sem2, must, seen, vec, acceptVars, writeVars, chan, clientVars>>

InitSem1 ==
  /\ mpc = "init1"
  /\ mpc' = "init2" /\ sem1' = 1
  /\ UNCHANGED <<wiped, dirVars, sem2, scanVars, vec, acceptVars, writeVars, chan, clientVars>>

InitSem2To(v) ==
  /\ mpc = "init2"
  /\ mpc' = "listen" /\ sem2' = v
  /\ wiped' = (sem2 > v)
  /\ UNCHANGED <<dirVars, sem1, scanVars, vec, acceptVars, writeVars, chan, clientVars>>

\* Mutant: both semaphores start at one.
InitSem2Raised == InitSem2To(1)
InitSem2 == InitSem2To(0)

StartThreads ==
  /\ mpc = "listen"
  /\ mpc' = "join" /\ apc' = "accept" /\ wpc' = "wait"
  /\ UNCHANGED <<wiped, dirVars, sem1, sem2, scanVars, vec, acceptfd, backlog,
                 wfd, at, size, data, sent, kept, chan, clientVars>>

-----------------------------------------------------------------------------
(* CheckDir.  A thread that reaches sem_wait before sem_init sleeps on a     *)
(* semaphore whose value main then overwrites: sem_init wakes nobody, and the *)
(* post that would comes from FunWrite, which waits for CheckDir.            *)
SleepEarly ==
  /\ cpc = "wait" /\ mpc = "init1" /\ sem1 = 0
  /\ cpc' = "asleep"
  /\ UNCHANGED <<wiped, dirVars, mpc, sem1, sem2, must, seen, vec, acceptVars, writeVars, chan, clientVars>>

ScanWait ==
  /\ cpc = "wait" /\ sem1 > 0
  /\ sem1' = sem1 - 1 /\ cpc' = "open"
  /\ UNCHANGED <<wiped, dirVars, mpc, sem2, must, seen, vec, acceptVars, writeVars, chan, clientVars>>

OpenDir ==
  /\ cpc = "open"
  /\ cpc' = "scan" /\ must' = Present /\ seen' = {}
  /\ UNCHANGED <<wiped, dirVars, mpc, sem1, sem2, vec, acceptVars, writeVars, chan, clientVars>>

(* opendir returned NULL: checkdir returns -1, holding what sem_id1 guards. *)
OpenDirFails ==
  /\ cpc = "open" /\ MayFail("opendir")
  /\ cpc' = "ended"
  /\ UNCHANGED <<wiped, dirVars, mpc, sem1, sem2, must, seen, vec, acceptVars, writeVars, chan, clientVars>>

(* readdir returns a regular file: one that was there at opendir, or one     *)
(* that arrived since.  (The bound: a list of MaxVec entries grows no more   *)
(* by names it already holds.)                                               *)
Listed(f) == \E i \in DOMAIN vec : vec[i] = f
ReadDir(f) ==
  /\ cpc = "scan" /\ f \in Present \ seen
  /\ seen' = seen \cup {f}
  /\ vec' = IF Len(vec) >= MaxVec /\ Listed(f) THEN vec ELSE Append(vec, f)
  /\ UNCHANGED <<wiped, dirVars, mpc, sem1, sem2, cpc, must, acceptVars, writeVars, chan, clientVars>>

CloseDir ==
  /\ cpc = "scan" /\ must \cap Present \subseteq seen
  /\ cpc' = "wait" /\ sem2' = sem2 + 1
  /\ must' = {} /\ seen' = {}
  /\ UNCHANGED <<wiped, dirVars, mpc, sem1, vec, acceptVars, writeVars, chan, clientVars>>

-----------------------------------------------------------------------------
(* FunAccept: every connection accepted replaces the one before, which is    *)
(* never closed; a failed accept leaves -1 behind and ends the thread.       *)
Accept ==
  /\ apc = "accept" /\ backlog # <<>>
  /\ acceptfd' = Head(backlog) /\ backlog' = Tail(backlog)
  /\ UNCHANGED <<wiped, dirVars, mpc, sem1, sem2, scanVars, vec, apc, writeVars, chan, clientVars>>

AcceptFails ==
  /\ apc = "accept" /\ MayFail("accept")
  /\ acceptfd' = BadFd /\ apc' = "ended"
  /\ UNCHANGED <<wiped, dirVars, mpc, sem1, sem2, scanVars, vec, backlog, writeVars, chan, clientVars>>

-----------------------------------------------------------------------------
(* FunWrite.                                                                 *)
WriteWait ==
  /\ wpc = "wait" /\ sem2 > 0
  /\ sem2' = sem2 - 1 /\ wpc' = "check"
  /\ UNCHANGED <<wiped, dirVars, mpc, sem1, scanVars, vec, acceptVars, wfd, at, size, data, sent, kept, chan, clientVars>>

(* Nothing listed, or nobody ever connected: the list is handed back as it   *)
(* is, so the next scan lists the same files again.                          *)
WriteSkip ==
  /\ wpc = "check" /\ (vec = <<>> \/ acceptfd = NoFd)
  /\ wpc' = "post"
  /\ UNCHANGED <<wiped, dirVars, mpc, sem1, sem2, scanVars, vec, acceptVars, wfd, at, size, data, sent, kept, chan, clientVars>>

WriteFrom(i) ==
  /\ wpc = "check" /\ vec # <<>> /\ acceptfd # NoFd
  /\ wpc' = "stat" /\ at' = i
  /\ UNCHANGED <<wiped, dirVars, mpc, sem1, sem2, scanVars, vec, acceptVars, wfd, size, data, sent, kept, chan, clientVars>>

\* Mutant: the loop skips the first entry.
WriteFromSecond == WriteFrom(2)
WriteBegin == WriteFrom(1)

Stat ==
  /\ wpc = "stat" /\ at <= Len(vec)
  /\ IF content[vec[at]] = 0
     THEN at' = at + 1 /\ UNCHANGED <<wpc, size>>
     ELSE wpc' = "nlen" /\ size' = content[vec[at]] /\ UNCHANGED at
  /\ UNCHANGED <<wiped, dirVars, mpc, sem1, sem2, scanVars, vec, acceptVars, wfd, data, sent, kept, chan, clientVars>>

(* mywrite is called with the value of acceptfd at that instant.  It blocks  *)
(* while that connection is full, whatever acceptfd becomes meanwhile; on a  *)
(* descriptor that is bad, or whose client has closed it or exited, it gives *)
(* up and the caller goes on as if it had written.                           *)
Sending == {"nlen", "name", "dlen", "data"}
Alive(fd) == fd \in Conns \ closed /\ rpc[fd[1]] # "exit"
Full(fd)  == Alive(fd) /\ Len(chan[fd]) >= Capacity
Target    == IF wfd = NoFd THEN acceptfd ELSE wfd

Block ==
  /\ wpc \in Sending /\ wfd = NoFd /\ Full(acceptfd)
  /\ wfd' = acceptfd
  /\ UNCHANGED <<wiped, dirVars, mpc, sem1, sem2, scanVars, vec, acceptVars, wpc,
                 at, size, data, sent, kept, chan, clientVars>>

Put(piece) ==
  /\ ~Full(Target)
  /\ chan' = IF Alive(Target)
             THEN [chan EXCEPT ![Target] = Append(@, piece)] ELSE chan
  /\ wfd' = NoFd

Piece(kind, of) ==
  [kind |-> kind, of |-> of, file |-> vec[at],
   size |-> IF of = "name" THEN 0 ELSE size, body |-> IF of = "name" THEN 0 ELSE data]

SendStep(from, kind, of, to) ==
  /\ wpc = from /\ wpc' = to
  /\ Put(Piece(kind, of))
  /\ UNCHANGED <<wiped, dirVars, mpc, sem1, sem2, scanVars, vec, acceptVars, at, size, data, kept, clientVars>>

SendNameLen == SendStep("nlen", "len", "name", "name") /\ UNCHANGED sent
\* Mutant: a file that cannot be read is skipped after its name went out.
SendNameOnly == SendStep("name", "body", "name", "remove") /\ UNCHANGED sent
SendName    == SendStep("name", "body", "name", "read") /\ UNCHANGED sent

ReadFile ==
  /\ wpc = "read"
  /\ wpc' = "dlen" /\ data' = content[vec[at]]
  /\ UNCHANGED <<wiped, dirVars, mpc, sem1, sem2, scanVars, vec, acceptVars, wfd, at, size, sent, kept, chan, clientVars>>

SendDataLen == SendStep("dlen", "len", "data", "data") /\ UNCHANGED sent
SendData ==
  /\ SendStep("data", "body", "data", "remove")
  /\ sent' = [sent EXCEPT ![<<vec[at], data>>] = IF @ < 2 THEN @ + 1 ELSE @]

(* remove() takes away whatever version is there by now; its failure is only *)
(* printed.  The two locals of the loop's body end here.                     *)
Removing(taken) ==
  /\ wpc = "remove"
  /\ \/ /\ content' = [content EXCEPT ![vec[at]] = IF taken THEN 0 ELSE @]
        /\ UNCHANGED kept
     \/ /\ MayFail("remove")
        /\ kept' = kept \cup {<<vec[at], content[vec[at]]>>}
        /\ UNCHANGED content
  /\ wpc' = "stat" /\ at' = at + 1 /\ size' = 1 /\ data' = 0
  /\ UNCHANGED <<wiped, made, mpc, sem1, sem2, scanVars, vec, acceptVars, wfd, sent, chan, clientVars>>

\* Mutant: the file stays in the directory.
RemoveSkipped == Removing(FALSE)
Remove == Removing(TRUE)

WriteEnd ==
  /\ wpc = "stat" /\ at > Len(vec)
  /\ vec' = <<>> /\ wpc' = "post" /\ at' = 1
  /\ UNCHANGED <<wiped, dirVars, mpc, sem1, sem2, scanVars, acceptVars, wfd, size, data, sent, kept, chan, clientVars>>

Posting(n) ==
  /\ wpc = "post"
  /\ sem1' = sem1 + n /\ wpc' = "wait"
  /\ UNCHANGED <<wiped, dirVars, mpc, sem2, scanVars, vec, acceptVars, wfd, at, size, data, sent, kept, chan, clientVars>>
\* Mutant: the semaphore is not posted.
WritePostForgotten == Posting(0)
WritePost == Posting(1)

-----------------------------------------------------------------------------
(* The client program.  Its socket is non-blocking: a read that finds        *)
(* nothing is taken for an error, and the client opens a new connection      *)
(* without closing the old one.                                              *)
Reading == {"nlen", "name", "dlen", "data"}
ReadFails(c) ==
  \/ rpc[c] = "down"
  \/ rpc[c] \in Reading /\ chan[<<c, sock[c]>>] = <<>>

(* The server's kernel completes the connection, which waits for accept().   *)
Handshake(c) ==
  /\ mpc = "join" /\ sock[c] < MaxConn
  /\ sock' = [sock EXCEPT ![c] = @ + 1]
  /\ backlog' = Append(backlog, <<c, sock'[c]>>)

Connecting(c) ==
  /\ ReadFails(c)
  /\ name' = [name EXCEPT ![c] = Junk]
  /\ UNCHANGED <<wiped, dirVars, mpc, sem1, sem2, scanVars, vec, acceptfd, apc, writeVars, chan, stored>>

Connect(c) ==
  /\ Connecting(c) /\ Handshake(c)
  /\ rpc' = [rpc EXCEPT ![c] = "nlen"]
  /\ UNCHANGED closed

(* connect() on the non-blocking socket reports an error even while the      *)
(* connection is being made: the client closes the socket and has none to    *)
(* read.  The server saw nothing of it, or accepts a closed connection.      *)
ConnectFails(c) ==
  /\ Connecting(c)
  /\ rpc' = [rpc EXCEPT ![c] = "down"]
  /\ \/ Handshake(c) /\ closed' = closed \cup {<<c, sock'[c]>>}
     \/ UNCHANGED <<sock, backlog, closed>>

(* ReadBuf takes the next piece as a length or as the bytes after it.  Bytes *)
(* read as a length desynchronise the stream for good ("garbled": the model  *)
(* follows the client no further).  A name without a '/' ends the program.   *)
Take(c) ==
  /\ sock[c] > 0 /\ chan[<<c, sock[c]>>] # <<>>
  /\ chan' = [chan EXCEPT ![<<c, sock[c]>>] = Tail(@)]
  /\ UNCHANGED <<wiped, dirVars, mpc, sem1, sem2, scanVars, vec, acceptVars, writeVars, sock, closed>>

Next1(c) == Head(chan[<<c, sock[c]>>])

ReadLen(c) ==
  /\ rpc[c] \in {"nlen", "dlen"} /\ Take(c)
  /\ rpc' = [rpc EXCEPT ![c] =
               IF Next1(c).kind = "body" THEN "garbled"
               ELSE IF @ = "nlen" THEN "name" ELSE "data"]
  /\ UNCHANGED <<name, stored>>

ReadName(c) ==
  /\ rpc[c] = "name" /\ Take(c)
  /\ \/ /\ Next1(c).of = "name"
        /\ name' = [name EXCEPT ![c] = Next1(c).file]
        /\ rpc' = [rpc EXCEPT ![c] = "dlen"]
     \/ /\ Next1(c).of = "data"
        /\ name' = [name EXCEPT ![c] = Junk]
        /\ rpc' = [rpc EXCEPT ![c] = "dlen"]
     \/ /\ Next1(c).of = "data"
        /\ rpc' = [rpc EXCEPT ![c] = "exit"] /\ UNCHANGED name
  /\ UNCHANGED stored

ReadData(c) ==
  /\ rpc[c] = "data" /\ Take(c)
  /\ stored' = stored \cup {[by |-> c, name |-> name[c], bytes |-> Next1(c)]}
  /\ rpc' = [rpc EXCEPT ![c] = "nlen"]
  /\ name' = [name EXCEPT ![c] = Junk]

-----------------------------------------------------------------------------
Init ==
  /\ content = [f \in Files |-> 0] /\ made = [f \in Files |-> 0]
  /\ mpc = "create" /\ sem1 = 0 /\ sem2 = 0 /\ wiped = FALSE
  /\ cpc = "none" /\ must = {} /\ seen = {} /\ vec = <<>>
  /\ acceptfd = NoFd /\ apc = "none" /\ backlog = <<>>
  /\ wpc = "none" /\ wfd = NoFd /\ at = 1 /\ size = 1 /\ data = 0
  /\ sent = [p \in Files \X (0..MaxVersion) |-> 0] /\ kept = {}
  /\ chan = [k \in Conns |-> <<>>]
  /\ sock = [c \in Clients |-> 0] /\ closed = {} /\ rpc = [c \in Clients |-> "down"]
  /\ name = [c \in Clients |-> Junk] /\ stored = {}

Main == CreateCheckDir \/ InitSem1 \/ InitSem2 \/ StartThreads
CheckDir == ScanWait \/ OpenDir \/ (\E f \in Files : ReadDir(f)) \/ CloseDir
FunWrite ==
  \/ WriteWait \/ WriteSkip \/ WriteBegin \/ Stat \/ Block
  \/ SendNameLen \/ SendName \/ ReadFile \/ SendDataLen \/ SendData
  \/ Remove \/ WriteEnd \/ WritePost
Client(c) == Connect(c) \/ ConnectFails(c) \/ ReadLen(c) \/ ReadName(c) \/ ReadData(c)

Next ==
  \/ \E f \in Files : Drop(f)
  \/ Main
  \/ SleepEarly \/ CheckDir \/ OpenDirFails
  \/ Accept \/ AcceptFails
  \/ FunWrite
  \/ \E c \in Clients : Client(c)

Spec == Init /\ [][Next]_vars

(* main, CheckDir and FunWrite are scheduled and a readdir loop ends.        *)
(* Nothing forces files to appear, calls to fail, connections to be accepted, *)
(* or a client to connect or to read.                                        *)
Fairness ==
  WF_vars(Main) /\ WF_vars(CheckDir) /\ WF_vars(FunWrite)

FairSpec == Spec /\ Fairness

-----------------------------------------------------------------------------
(* Types.                                                                    *)
DirTypes ==
  content \in [Files -> 0..MaxVersion] /\ made \in [Files -> 0..MaxVersion]
MainTypes ==
  /\ mpc \in {"create", "init1", "init2", "listen", "join"}
  /\ sem1 \in 0..1 /\ sem2 \in 0..1
ScanTypes ==
  /\ cpc \in {"none", "wait", "asleep", "open", "scan", "ended"}
  /\ must \subseteq Files /\ seen \subseteq Files
AcceptTypes ==
  /\ acceptfd \in Conns \cup {NoFd, BadFd}
  /\ apc \in {"none", "accept", "ended"} /\ backlog \in Seq(Conns)
WriteTypes ==
  /\ wpc \in {"none", "wait", "check", "stat", "read", "remove", "post"} \cup Sending
  /\ wfd \in Conns \cup {NoFd}
  /\ at \in Nat \ {0} /\ size \in 1..MaxVersion /\ data \in 0..MaxVersion
  /\ sent \in [Files \X (0..MaxVersion) -> 0..2] /\ kept \subseteq Files \X (0..MaxVersion)
ClientTypes ==
  /\ sock \in [Clients -> 0..MaxConn] /\ closed \subseteq Conns
  /\ rpc \in [Clients -> Reading \cup {"down", "exit", "garbled"}]
  /\ name \in [Clients -> Files \cup {Junk}]
  /\ stored \subseteq [by : Clients, name : Files \cup {Junk}, bytes : Pieces]

TypeOK ==
  /\ DirTypes /\ MainTypes /\ ScanTypes /\ AcceptTypes /\ WriteTypes /\ ClientTypes
  /\ wiped \in BOOLEAN
  /\ vec \in Seq(Files)
  /\ chan \in [Conns -> Seq(Pieces)]

(* CheckDir and FunWrite never touch vectorfilename at the same time, though *)
(* nothing but the hand-over of the two semaphores keeps them apart and      *)
(* CheckDir may run before main has initialised either of them.              *)
Scanning == cpc \in {"open", "scan", "ended"}
Walking  == wpc \notin {"none", "wait"}
VectorExclusive == ~(Scanning /\ Walking)

(* While nobody is connected every scan lists the same files once more; all  *)
(* the same no version of a file is transmitted twice, because its first     *)
(* transmission removes it and the repeated entries find nothing to stat.    *)
(* Only a version that remove() failed to take away goes out again.          *)
OneSend == \A p \in DOMAIN sent : sent[p] <= 1 \/ p \in kept

(* FunWrite rereads acceptfd before each of a file's four writes, so a new   *)
(* connection cuts a file in the middle; yet no client stores one file's     *)
(* bytes under another's name (it may, under a piece of contents with a '/').*)
StoredMatches ==
  \A s \in stored : s.name \in Files => s.bytes.of = "data" /\ s.name = s.bytes.file

(* The directory is scanned again and again unless CheckDir has met one of   *)
(* the four ends the code gives it: it slept on a semaphore main initialised *)
(* later, main wiped out its first post, opendir failed, or FunWrite sits in *)
(* a write() nobody reads.                                                   *)
StalledForGood ==
  cpc \in {"asleep", "ended"} \/ wiped \/ wfd # NoFd
ScanGoesOn == []<>(cpc = "scan") \/ <>[]StalledForGood

(* Every file dropped into the directory is transmitted once somebody has    *)
(* connected, however clients come, go, stop reading or close at once, unless *)
(* the scan stops for good.  (The client may have left the connection it     *)
(* went to: that it is stored the code does not ensure.)                     *)
Transmitted(f) == \E v \in 1..MaxVersion : sent[<<f, v>>] > 0
Drained ==
  \/ <>[]StalledForGood
  \/ \A f \in Files : made[f] # 0 /\ acceptfd # NoFd ~> Transmitted(f)
=============================================================================
