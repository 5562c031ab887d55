------------------------ MODULE FileTransfer_proofs -------------------------
(***************************************************************************)
(* What holds of the file drop server for every set of files and clients   *)
(* and every bound: its types, the exclusive use of vectorfilename, that   *)
(* no version of a file is transmitted twice, that no file is removed      *)
(* unsent, that no client stores one file's data under another's name, and *)
(* that the two threads do not wait for each other.                        *)
(***************************************************************************)
EXTENDS FileTransfer, TLAPS

(* The right to use the list is a baton: it lies in one of the semaphores or *)
(* is held by one of the threads, and never exists twice.                    *)
Baton == sem1 + sem2 + One(Scanning) + One(Walking)

(* main's progress decides whether the baton exists yet.                     *)
Phases ==
  /\ mpc \in {"create", "init1", "init2", "listen", "join"}
  /\ sem1 \in Nat /\ sem2 \in Nat
  /\ cpc \in {"none", "wait", "asleep", "open", "scan", "ended"}
  /\ wpc \in {"none", "wait", "check", "stat", "read", "remove", "post"} \cup Sending
  /\ mpc \in {"create", "init1"} => sem1 = 0 /\ sem2 = 0 /\ ~Scanning
  /\ mpc # "join" => wpc = "none"

BatonInv == Phases /\ Baton <= 1

ctrl == <<mpc, sem1, sem2, cpc, wpc>>

LEMMA BatonInit == Init => BatonInv
BY DEF Init, BatonInv, Phases, Baton, One, Scanning, Walking, Sending

(* Every step keeps the baton single: sem_wait takes it, sem_post gives it   *)
(* back, sem_init creates it once.                                           *)
LEMMA BatonNext == BatonInv /\ [Next]_vars => BatonInv'
<1> USE DEF BatonInv, Phases, Baton, One, Scanning, Walking, Sending
<1> SUFFICES ASSUME BatonInv, [Next]_vars PROVE BatonInv'
  OBVIOUS
<1>0. CASE UNCHANGED ctrl
  BY <1>0 DEF ctrl
<1>1. CASE Main
  <2>1. CASE CreateCheckDir
    BY <2>1 DEF CreateCheckDir, writeVars
  <2>2. CASE InitSem1
    BY <2>2 DEF InitSem1, writeVars, scanVars
  <2>3. CASE InitSem2
    BY <2>3 DEF InitSem2, InitSem2To, writeVars, scanVars
  <2>4. CASE StartThreads
    BY <2>4 DEF StartThreads, scanVars
  <2> QED
    BY <1>1, <2>1, <2>2, <2>3, <2>4 DEF Main
<1>2. CASE SleepEarly \/ CheckDir \/ OpenDirFails
  <2>1. CASE SleepEarly
    BY <2>1 DEF SleepEarly, writeVars
  <2>2. CASE ScanWait
    BY <2>2 DEF ScanWait, writeVars
  <2>3. CASE OpenDir
    BY <2>3 DEF OpenDir, writeVars
  <2>4. ASSUME NEW f \in Files, ReadDir(f) PROVE BatonInv'
    BY <2>4 DEF ReadDir, writeVars
  <2>5. CASE CloseDir
    BY <2>5 DEF CloseDir, writeVars
  <2>6. CASE OpenDirFails
    BY <2>6 DEF OpenDirFails, writeVars
  <2> QED
    BY <1>2, <2>1, <2>2, <2>3, <2>4, <2>5, <2>6 DEF CheckDir
<1>3. CASE FunWrite
  <2>1. CASE WriteWait
    BY <2>1 DEF WriteWait, scanVars
  <2>2. CASE WriteSkip
    BY <2>2 DEF WriteSkip, scanVars
  <2>3. CASE WriteBegin
    BY <2>3 DEF WriteBegin, WriteFrom, scanVars
  <2>4. CASE Stat
    BY <2>4 DEF Stat, scanVars
  <2>5. CASE Block
    BY <2>5 DEF Block, scanVars
  <2>6. CASE SendNameLen \/ SendName \/ SendDataLen \/ SendData
    BY <2>6 DEF SendNameLen, SendName, SendDataLen, SendData, SendStep, scanVars
  <2>7. CASE ReadFile
    BY <2>7 DEF ReadFile, scanVars
  <2>8. CASE Remove
    BY <2>8 DEF Remove, Removing, scanVars
  <2>9. CASE WriteEnd
    BY <2>9 DEF WriteEnd, scanVars
  <2>10. CASE WritePost
    BY <2>10 DEF WritePost, Posting, scanVars
  <2> QED
    BY <1>3, <2>1, <2>2, <2>3, <2>4, <2>5, <2>6, <2>7, <2>8, <2>9, <2>10
    DEF FunWrite
<1>4. CASE (\E f \in Files : Drop(f)) \/ Accept \/ AcceptFails
  BY <1>4, <1>0 DEF Drop, Accept, AcceptFails, ctrl, scanVars, writeVars
<1>5. CASE \E c \in Clients : Client(c)
  BY <1>5, <1>0
  DEF Client, Connect, ConnectFails, Connecting, ReadLen, ReadName, ReadData, Take, ctrl, scanVars, writeVars
<1>6. CASE UNCHANGED vars
  BY <1>6, <1>0 DEF vars, ctrl, scanVars, writeVars
<1> QED
  BY <1>1, <1>2, <1>3, <1>4, <1>5, <1>6 DEF Next

LEMMA BatonAlways == Spec => []BatonInv
BY BatonInit, BatonNext, PTL DEF Spec

(* CheckDir and FunWrite never hold vectorfilename together.                 *)
THEOREM Exclusive == Spec => []VectorExclusive
<1>1. BatonInv => VectorExclusive
  BY DEF BatonInv, Phases, Baton, One, Scanning, Walking, VectorExclusive, Sending
<1> QED
  BY <1>1, BatonAlways, PTL

(* Nor does the baton get lost, except when sem_init discards it.            *)
BatonKept ==
  /\ mpc = "init2" => Baton = 1
  /\ mpc \in {"listen", "join"} => Baton = 1 \/ wiped
  /\ mpc # "create" => cpc # "none"
  /\ mpc = "join" => wpc # "none"

LEMMA BatonPassed ==
  ASSUME BatonInv, [Next]_vars, ~Main
  PROVE  /\ Baton' = Baton /\ UNCHANGED <<mpc, wiped>>
         /\ cpc' # cpc => cpc' # "none"
         /\ wpc' # wpc => wpc' # "none"
<1> USE DEF BatonInv, Phases, Baton, One, Scanning, Walking, Sending
<1>0. CASE UNCHANGED <<ctrl, wiped>>
  BY <1>0 DEF ctrl
<1>1. CASE SleepEarly \/ OpenDirFails
  BY <1>1 DEF SleepEarly, OpenDirFails, writeVars
<1>2. CASE CheckDir
  <2>1. CASE ScanWait
    BY <2>1 DEF ScanWait, writeVars
  <2>2. CASE OpenDir \/ CloseDir
    BY <2>2 DEF OpenDir, CloseDir, writeVars
  <2>3. ASSUME NEW f \in Files, ReadDir(f) PROVE UNCHANGED <<ctrl, wiped>>
    BY <2>3 DEF ReadDir, writeVars, ctrl
  <2> QED
    BY <1>0, <1>2, <2>1, <2>2, <2>3 DEF CheckDir
<1>3. CASE FunWrite
  <2>1. CASE WriteWait \/ WritePost
    BY <2>1 DEF WriteWait, WritePost, Posting, scanVars
  <2>2. CASE WriteSkip \/ WriteBegin \/ Stat \/ WriteEnd
    BY <2>2 DEF WriteSkip, WriteBegin, WriteFrom, Stat, WriteEnd, scanVars
  <2>3. CASE Block \/ ReadFile \/ Remove
    BY <2>3 DEF Block, ReadFile, Remove, Removing, scanVars
  <2>4. CASE SendNameLen \/ SendName \/ SendDataLen \/ SendData
    BY <2>4 DEF SendNameLen, SendName, SendDataLen, SendData, SendStep, scanVars
  <2> QED
    BY <1>3, <2>1, <2>2, <2>3, <2>4 DEF FunWrite
<1>4. CASE (\E f \in Files : Drop(f)) \/ Accept \/ AcceptFails
  BY <1>0, <1>4 DEF Drop, Accept, AcceptFails, ctrl, scanVars, writeVars
<1>5. CASE \E c \in Clients : Client(c)
  BY <1>0, <1>5 DEF Client, Connect, ConnectFails, Connecting, ReadLen, ReadName, ReadData, Take, ctrl, scanVars, writeVars
<1>6. CASE UNCHANGED vars
  BY <1>0, <1>6 DEF vars, ctrl, scanVars, writeVars
<1> QED
  BY <1>1, <1>2, <1>3, <1>4, <1>5, <1>6 DEF Next

LEMMA KeptNext == BatonInv /\ BatonKept /\ [Next]_vars => BatonKept'
<1> SUFFICES ASSUME BatonInv, BatonKept, [Next]_vars PROVE BatonKept'
  OBVIOUS
<1>1. CASE ~Main
  BY <1>1, BatonPassed DEF BatonKept
<1>2. CASE Main
  <2> USE DEF BatonInv, BatonKept, Phases, Baton, One, Scanning, Walking, Sending
  <2>1. CASE CreateCheckDir
    BY <2>1 DEF CreateCheckDir, writeVars
  <2>2. CASE InitSem1
    BY <2>2 DEF InitSem1, writeVars, scanVars
  <2>3. CASE InitSem2
    <3>1. UNCHANGED <<sem1, cpc, wpc>> /\ mpc = "init2" /\ mpc' = "listen" /\ sem2' = 0 /\ wiped' = (sem2 > 0)
      BY <2>3 DEF InitSem2, InitSem2To, writeVars, scanVars
    <3>2. CASE sem2 > 0
      BY <3>1, <3>2
    <3>3. CASE sem2 = 0
      BY <3>1, <3>3
    <3> QED
      BY <3>2, <3>3
  <2>4. CASE StartThreads
    BY <2>4 DEF StartThreads, scanVars
  <2> QED
    BY <1>2, <2>1, <2>2, <2>3, <2>4 DEF Main
<1> QED
  BY <1>1, <1>2

(* What ScanGoesOn needs of every state: when main has started the threads,  *)
(* CheckDir and FunWrite never both wait.  One of them has the list, or      *)
(* finds its semaphore raised, unless the scan has met one of its four ends. *)
SomeoneGoesOn ==
  mpc = "join" /\ ~StalledForGood =>
    \/ cpc = "wait" /\ sem1 = 1
    \/ wpc = "wait" /\ sem2 = 1
    \/ cpc \in {"open", "scan"}
    \/ wpc \in {"check", "stat", "read", "remove", "post"} \cup Sending

THEOREM NeverBothWait == Spec => []SomeoneGoesOn
<1>1. Init => BatonKept
  BY DEF Init, BatonKept
<1>2. BatonInv /\ BatonKept => SomeoneGoesOn
  BY DEF BatonInv, BatonKept, Phases, Baton, One, Scanning, Walking, SomeoneGoesOn, StalledForGood
<1> QED
  BY <1>1, <1>2, KeptNext, BatonAlways, PTL DEF Spec

-----------------------------------------------------------------------------
(* Types.  While FunWrite works on a file, its cursor stays inside the list: *)
(* nobody shortens vectorfilename under it.                                  *)
Cursor == wpc \in Sending \cup {"read", "remove"} => at <= Len(vec)
TypeInv == TypeOK /\ Cursor

(* The variables a step leaves alone keep their types.                       *)
LEMMA Frame ==
  /\ DirTypes /\ UNCHANGED dirVars => DirTypes'
  /\ MainTypes /\ UNCHANGED <<mpc, sem1, sem2>> => MainTypes'
  /\ ScanTypes /\ UNCHANGED scanVars => ScanTypes'
  /\ AcceptTypes /\ UNCHANGED acceptVars => AcceptTypes'
  /\ WriteTypes /\ UNCHANGED writeVars => WriteTypes'
  /\ ClientTypes /\ UNCHANGED clientVars => ClientTypes'
  /\ Cursor /\ UNCHANGED <<writeVars, vec>> => Cursor'
BY DEF DirTypes, dirVars, MainTypes, ScanTypes, scanVars, AcceptTypes, acceptVars,
       WriteTypes, writeVars, ClientTypes, clientVars, Cursor

(* Only sem_init(&sem_id2) can discard a post.                               *)
LEMMA WipedOnce == [Next]_vars => InitSem2 \/ UNCHANGED wiped
BY DEF Next, vars, Drop, Main, CreateCheckDir, InitSem1, StartThreads, SleepEarly, CheckDir,
       ScanWait, OpenDir, OpenDirFails, ReadDir, CloseDir, Accept, AcceptFails, FunWrite,
       WriteWait, WriteSkip, WriteBegin, WriteFrom, Stat, Block, SendNameLen, SendName,
       ReadFile, SendDataLen, SendData, SendStep, Remove, Removing, WriteEnd, WritePost,
       Posting, Client, Connect, ConnectFails, Connecting, ReadLen, ReadName, ReadData, Take

LEMMA TypeInit == Init => TypeInv
<1> SUFFICES ASSUME Init PROVE TypeInv
  OBVIOUS
<1> USE FTAssumption DEF Init
<1>1. DirTypes /\ MainTypes /\ ScanTypes
  BY DEF DirTypes, MainTypes, ScanTypes
<1>2. AcceptTypes /\ vec \in Seq(Files) /\ chan \in [Conns -> Seq(Pieces)]
  BY DEF AcceptTypes
<1>3. sent \in [Files \X (0..MaxVersion) -> 0..2]
  OBVIOUS
<1>4. WriteTypes
  BY <1>3 DEF WriteTypes
<1>5. ClientTypes
  BY DEF ClientTypes
<1>6. Cursor
  BY DEF Cursor, Sending
<1>7. wiped \in BOOLEAN
  BY Zenon
<1> QED
  BY <1>1, <1>2, <1>4, <1>5, <1>6, <1>7 DEF TypeInv, TypeOK

(* What mywrite leaves on the connections.                                   *)
LEMMA PutTypes ==
  ASSUME TypeOK, NEW piece \in Pieces, Put(piece)
  PROVE  chan' \in [Conns -> Seq(Pieces)] /\ wfd' \in Conns \cup {NoFd}
<1>1. CASE Alive(Target)
  <2>1. chan[Target] \in Seq(Pieces)
    BY <1>1 DEF TypeOK, Alive
  <2>2. Append(chan[Target], piece) \in Seq(Pieces)
    BY <2>1
  <2> QED
    BY <1>1, <2>2 DEF TypeOK, Put
<1>2. CASE ~Alive(Target)
  BY <1>2 DEF TypeOK, Put
<1> QED
  BY <1>1, <1>2

LEMMA PieceTypes ==
  ASSUME TypeInv, wpc \in Sending,
         NEW kind \in {"len", "body"}, NEW of \in {"name", "data"}
  PROVE  Piece(kind, of) \in Pieces
<1>1. vec[at] \in Files
  BY DEF TypeInv, TypeOK, WriteTypes, Cursor
<1> QED
  BY <1>1, FTAssumption DEF TypeInv, TypeOK, WriteTypes, Piece, Pieces

LEMMA SendTypes ==
  ASSUME TypeInv,
         NEW from \in Sending, NEW to \in Sending \cup {"read", "remove"},
         NEW kind \in {"len", "body"}, NEW of \in {"name", "data"},
         SendStep(from, kind, of, to),
         sent' \in [Files \X (0..MaxVersion) -> 0..2]
  PROVE  TypeInv'
<1>1. chan' \in [Conns -> Seq(Pieces)] /\ wfd' \in Conns \cup {NoFd}
  BY PieceTypes, PutTypes DEF SendStep, TypeInv
<1>2. WriteTypes'
  BY <1>1 DEF TypeInv, TypeOK, WriteTypes, SendStep, Sending
<1>3. Cursor'
  BY DEF TypeInv, Cursor, SendStep
<1> QED
  BY <1>1, <1>2, <1>3, Frame, Zenon DEF TypeInv, TypeOK, SendStep

(* The semaphores' types come from the baton; the rest step by step.         *)
LEMMA TypeNext == TypeInv /\ BatonInv' /\ [Next]_vars => TypeInv'
<1> SUFFICES ASSUME TypeInv, BatonInv', [Next]_vars PROVE TypeInv'
  OBVIOUS
<1> USE DEF TypeInv, TypeOK
<1>s. sem1' \in 0..1 /\ sem2' \in 0..1
  <2>1. One(Scanning') \in Nat /\ One(Walking') \in Nat
    BY DEF One
  <2>2. sem1' \in Nat /\ sem2' \in Nat
        /\ sem1' + sem2' + One(Scanning') + One(Walking') <= 1
    BY DEF BatonInv, Phases, Baton, One
  <2> QED
    BY SMTT(30), <2>1, <2>2
<1>w. wiped' \in BOOLEAN
  <2>1. CASE InitSem2
    <3> DEFINE posted == sem2 > 0
    <3>1. wiped' = posted
      BY <2>1, Zenon DEF InitSem2, InitSem2To
    <3> HIDE DEF posted
    <3>2. posted \in BOOLEAN
      BY DEF posted
    <3> QED
      BY <3>1, <3>2, Zenon
  <2>2. CASE UNCHANGED wiped
    BY <2>2, Zenon
  <2> QED
    BY <2>1, <2>2, WipedOnce
<1>1. ASSUME NEW f \in Files, Drop(f) PROVE TypeInv'
  <2>1. DirTypes'
    BY <1>1, FTAssumption DEF Drop, DirTypes
  <2> QED
    BY <1>1, <2>1, Frame, <1>w DEF Drop
<1>2. CASE Main
  <2>1. CASE CreateCheckDir \/ InitSem1 \/ InitSem2
    <3>1. MainTypes' /\ ScanTypes'
      BY <1>s, <2>1
      DEF CreateCheckDir, InitSem1, InitSem2, InitSem2To, MainTypes, ScanTypes, scanVars
    <3> QED
      BY <2>1, <3>1, Frame, <1>w DEF CreateCheckDir, InitSem1, InitSem2, InitSem2To
  <2>2. CASE StartThreads
    <3>1. MainTypes' /\ AcceptTypes' /\ WriteTypes' /\ Cursor'
      BY <2>2 DEF StartThreads, MainTypes, AcceptTypes, WriteTypes, Cursor, Sending
    <3> QED
      BY <2>2, <3>1, Frame, <1>w DEF StartThreads
  <2> QED
    BY <1>2, <2>1, <2>2 DEF Main
<1>3. CASE SleepEarly \/ ScanWait \/ OpenDir \/ OpenDirFails \/ CloseDir
  <2>1. MainTypes' /\ ScanTypes'
    BY <1>3, <1>s
    DEF SleepEarly, ScanWait, OpenDir, OpenDirFails, CloseDir, Present, MainTypes, ScanTypes
  <2> QED
    BY <1>3, <2>1, Frame, <1>w DEF SleepEarly, ScanWait, OpenDir, OpenDirFails, CloseDir
<1>4. ASSUME NEW f \in Files, ReadDir(f) PROVE TypeInv'
  <2>1. vec' \in Seq(Files) /\ Len(vec') >= Len(vec)
    BY <1>4 DEF ReadDir
  <2>2. ScanTypes'
    BY <1>4 DEF ReadDir, ScanTypes
  <2>3. Cursor'
    BY <1>4, <2>1 DEF ReadDir, WriteTypes, Cursor, writeVars
  <2> QED
    BY <1>4, <2>1, <2>2, <2>3, Frame, <1>w DEF ReadDir
<1>5. CASE Accept \/ AcceptFails
  <2>1. backlog # <<>> => Head(backlog) \in Conns /\ Tail(backlog) \in Seq(Conns)
    BY DEF AcceptTypes
  <2>2. AcceptTypes'
    BY <1>5, <2>1 DEF Accept, AcceptFails, AcceptTypes
  <2> QED
    BY <1>5, <2>2, Frame, <1>w DEF Accept, AcceptFails
<1>6. CASE FunWrite
  <2>1. CASE WriteWait \/ WriteSkip \/ WritePost
    <3>1. MainTypes' /\ WriteTypes' /\ Cursor'
      BY <2>1, <1>s
      DEF WriteWait, WriteSkip, WritePost, Posting, MainTypes, WriteTypes, Cursor, Sending
    <3> QED
      BY <2>1, <3>1, Frame, <1>w DEF WriteWait, WriteSkip, WritePost, Posting
  <2>2. CASE WriteBegin \/ Stat
    <3>1. WriteTypes' /\ Cursor'
      BY SMTT(30), <2>2
      DEF WriteBegin, WriteFrom, Stat, DirTypes, WriteTypes, Cursor, Sending
    <3> QED
      BY <2>2, <3>1, Frame, <1>w DEF WriteBegin, WriteFrom, Stat
  <2>3. CASE Block
    <3>1. WriteTypes' /\ Cursor'
      BY <2>3 DEF Block, Full, Alive, WriteTypes, Cursor
    <3> QED
      BY <2>3, <3>1, Frame, <1>w DEF Block
  <2>4. CASE SendNameLen
    BY <2>4, SendTypes DEF SendNameLen, Sending, WriteTypes
  <2>5. CASE SendName
    BY <2>5, SendTypes DEF SendName, Sending, WriteTypes
  <2>6. CASE SendDataLen
    BY <2>6, SendTypes DEF SendDataLen, Sending, WriteTypes
  <2>7. CASE SendData
    <3>1. \A p \in Files \X (0..MaxVersion) : sent[p] < 2 => sent[p] + 1 \in 0..2
      BY DEF WriteTypes
    <3>2. sent' \in [Files \X (0..MaxVersion) -> 0..2]
      <4> DEFINE p == <<vec[at], data>>
      <4>1. sent' = [sent EXCEPT ![p] = IF sent[p] < 2 THEN sent[p] + 1 ELSE sent[p]]
        BY <2>7 DEF SendData
      <4> HIDE DEF p
      <4> QED
        BY <4>1, <3>1 DEF WriteTypes
    <3> QED
      BY <2>7, <3>2, SendTypes DEF SendData, Sending
  <2>8. CASE ReadFile \/ Remove
    <3>1. vec[at] \in Files
      BY <2>8 DEF ReadFile, Remove, Removing, WriteTypes, Cursor
    <3>2. DirTypes'
      <4>1. MaxVersion \in Nat
        BY FTAssumption
      <4>2. made' = made /\ (content' = content \/ content' = [content EXCEPT ![vec[at]] = 0])
        BY <2>8 DEF ReadFile, Remove, Removing, dirVars
      <4> QED
        BY <4>1, <4>2, SMTT(30) DEF DirTypes
    <3>3. content[vec[at]] \in 0..MaxVersion
      BY <3>1 DEF DirTypes
    <3>k. kept' \subseteq Files \X (0..MaxVersion)
      BY <2>8, <3>1, <3>3 DEF ReadFile, Remove, Removing, WriteTypes
    <3>4. WriteTypes' /\ Cursor'
      BY <2>8, <3>3, <3>k, FTAssumption DEF ReadFile, Remove, Removing, WriteTypes, Cursor, Sending
    <3> QED
      BY <2>8, <3>2, <3>4, Frame, <1>w DEF ReadFile, Remove, Removing
  <2>9. CASE WriteEnd
    <3>1. WriteTypes' /\ Cursor' /\ vec' \in Seq(Files)
      BY <2>9 DEF WriteEnd, WriteTypes, Cursor, Sending
    <3> QED
      BY <2>9, <3>1, Frame, <1>w DEF WriteEnd
  <2> QED
    BY <1>6, <2>1, <2>2, <2>3, <2>4, <2>5, <2>6, <2>7, <2>8, <2>9 DEF FunWrite
<1>7. ASSUME NEW c \in Clients, Client(c) PROVE TypeInv'
  <2> DEFINE k == <<c, sock[c]>>
  <2>1. CASE Connect(c) \/ ConnectFails(c)
    <3> DEFINE Typed == /\ sock' \in [Clients -> 0..MaxConn] /\ closed' \subseteq Conns
                        /\ backlog' \in Seq(Conns)
    <3>1. ASSUME Handshake(c) PROVE Typed
      <4>1. sock[c] + 1 \in 1..MaxConn
        BY <3>1, FTAssumption DEF Handshake, ClientTypes
      <4>2. <<c, sock[c] + 1>> \in Conns
        BY <4>1 DEF Conns
      <4>3. /\ sock' \in [Clients -> 0..MaxConn] /\ sock'[c] = sock[c] + 1
            /\ backlog' \in Seq(Conns)
        BY <3>1, <4>1, <4>2, FTAssumption DEF Handshake, AcceptTypes, ClientTypes
      <4>4. closed' \subseteq Conns
        <5>1. <<c, sock'[c]>> \in Conns /\ closed \subseteq Conns
          BY <4>2, <4>3 DEF ClientTypes
        <5>2. closed' \subseteq closed \cup {<<c, sock'[c]>>}
          BY <2>1 DEF Connect, ConnectFails
        <5> QED
          BY <5>1, <5>2
      <4> QED
        BY <4>3, <4>4
    <3>2. ASSUME UNCHANGED <<sock, backlog, closed>> PROVE Typed
      BY <3>2 DEF AcceptTypes, ClientTypes
    <3>3. Typed
      BY <2>1, <3>1, <3>2 DEF Connect, ConnectFails
    <3>4. /\ rpc' \in [Clients -> Reading \cup {"down", "exit", "garbled"}]
          /\ name' \in [Clients -> Files \cup {Junk}]
          /\ UNCHANGED <<stored, acceptfd, apc>>
      BY <2>1 DEF Connect, ConnectFails, Connecting, ClientTypes, Reading
    <3>5. AcceptTypes' /\ ClientTypes'
      BY <3>3, <3>4 DEF AcceptTypes, ClientTypes
    <3> QED
      BY <2>1, <3>5, Frame, <1>w DEF Connect, ConnectFails, Connecting
  <2>2. CASE ReadLen(c) \/ ReadName(c) \/ ReadData(c)
    <3>1. Take(c)
      BY <2>2 DEF ReadLen, ReadName, ReadData
    <3>2. k \in Conns
      BY <3>1, FTAssumption DEF Take, Conns, ClientTypes
    <3>3. chan[k] \in Seq(Pieces) /\ chan[k] # <<>>
      BY <3>1, <3>2 DEF Take
    <3>4. Next1(c) \in Pieces /\ Tail(chan[k]) \in Seq(Pieces)
      BY <3>3 DEF Next1
    <3>5. chan' \in [Conns -> Seq(Pieces)]
      BY <3>1, <3>4 DEF Take
    <3>6. ClientTypes'
      <4>1. CASE ReadLen(c)
        BY <3>1, <4>1 DEF ReadLen, Take, ClientTypes, Reading
      <4>2. CASE ReadName(c)
        <5>1. Next1(c).file \in Files
          BY <3>4 DEF Pieces
        <5> QED
          BY <3>1, <4>2, <5>1 DEF ReadName, Take, ClientTypes, Reading
      <4>3. CASE ReadData(c)
        <5>1. [by |-> c, name |-> name[c], bytes |-> Next1(c)]
                \in [by : Clients, name : Files \cup {Junk}, bytes : Pieces]
          BY <3>4 DEF ClientTypes
        <5> QED
          BY <3>1, <4>3, <5>1 DEF ReadData, Take, ClientTypes, Reading
      <4> QED
        BY <2>2, <4>1, <4>2, <4>3
    <3> QED
      BY <3>1, <3>5, <3>6, Frame, <1>w DEF Take
  <2> QED
    BY <1>7, <2>1, <2>2 DEF Client
<1>8. CASE UNCHANGED vars
  BY <1>8, Frame, <1>w DEF vars
<1> QED
  BY <1>1, <1>2, <1>3, <1>4, <1>5, <1>6, <1>7, <1>8 DEF Next, CheckDir

LEMMA TypeAlways == Spec => []TypeInv
BY TypeInit, TypeNext, BatonAlways, PTL DEF Spec

(* Every variable keeps its type; the semaphores never exceed one.           *)
THEOREM TypeCorrect == Spec => []TypeOK
BY TypeAlways, PTL DEF TypeInv

-----------------------------------------------------------------------------
(* No version is transmitted twice, unless remove() failed on it.  A version *)
(* that was transmitted is no longer in the directory, unless FunWrite is    *)
(* about to remove it; what FunWrite has read and not yet transmitted was    *)
(* never transmitted before.                                                 *)
OnFile  == wpc \in Sending \cup {"read", "remove"}
HasRead == wpc \in {"dlen", "data"}

Dropped == \A f \in Files : content[f] <= made[f]
SentOnce ==
  \A f \in Files, v \in 0..MaxVersion :
    sent[<<f, v>>] # 0 /\ <<f, v>> \notin kept =>
      /\ sent[<<f, v>>] = 1
      /\ v # 0 /\ v <= made[f]
      /\ content[f] # v \/ (wpc = "remove" /\ vec[at] = f)
Working ==
  /\ OnFile => content[vec[at]] # 0
  /\ HasRead => /\ data # 0 /\ data <= made[vec[at]]
                /\ <<vec[at], data>> \in kept \/ sent[<<vec[at], data>>] = 0
SendInv == Dropped /\ SentOnce /\ Working

LEMMA SendInit == Init => SendInv
BY FTAssumption DEF Init, SendInv, Dropped, SentOnce, Working, OnFile, HasRead, Sending

(* A step that touches neither the directory nor FunWrite, and at most       *)
(* appends to the list.                                                      *)
LEMMA SendFrame ==
  ASSUME TypeInv, SendInv, UNCHANGED <<dirVars, writeVars>>,
         UNCHANGED vec \/ \E f \in Files : vec' = Append(vec, f)
  PROVE  SendInv'
<1>1. OnFile => vec'[at] = vec[at]
  <2>1. at \in Nat \ {0} /\ vec \in Seq(Files)
    BY DEF TypeInv, TypeOK, WriteTypes
  <2> QED
    BY <2>1 DEF OnFile, TypeInv, Cursor
<1>2. SentOnce'
  BY <1>1 DEF SendInv, SentOnce, OnFile, dirVars, writeVars
<1>3. Working' /\ Dropped'
  BY <1>1 DEF SendInv, Working, Dropped, OnFile, HasRead, Sending, dirVars, writeVars
<1> QED
  BY <1>2, <1>3 DEF SendInv

(* A step of FunWrite from one of its stages to another that neither reads   *)
(* nor transmits data and does not enter or leave "remove".                  *)
LEMMA SendStage ==
  ASSUME TypeInv, SendInv, UNCHANGED <<dirVars, vec, data, sent, kept>>,
         wpc # "remove", wpc' # "remove",
         OnFile' => (OnFile /\ at' = at) \/ content[vec[at']] # 0,
         HasRead' => HasRead /\ at' = at
  PROVE  SendInv'
<1>1. SentOnce' /\ Dropped'
  BY DEF SendInv, SentOnce, Dropped, dirVars
<1>2. Working'
  BY DEF SendInv, Working, OnFile, HasRead, dirVars
<1> QED
  BY <1>1, <1>2 DEF SendInv

LEMMA SendNext ==
  ASSUME BatonInv, TypeInv, SendInv, [Next]_vars
  PROVE  SendInv'
<1> USE DEF SendInv
<1>t. /\ content \in [Files -> 0..MaxVersion] /\ made \in [Files -> 0..MaxVersion]
      /\ sent \in [Files \X (0..MaxVersion) -> 0..2] /\ data \in 0..MaxVersion
      /\ MaxVersion \in Nat
  BY FTAssumption DEF TypeInv, TypeOK, DirTypes, WriteTypes
<1>v. OnFile => vec[at] \in Files
  BY DEF TypeInv, TypeOK, WriteTypes, Cursor, OnFile
<1>1. ASSUME NEW f \in Files, Drop(f) PROVE SendInv'
  <2>1. /\ made' = [made EXCEPT ![f] = made[f] + 1]
        /\ content' = [content EXCEPT ![f] = made[f] + 1]
        /\ UNCHANGED <<wpc, at, data, sent, kept, vec>>
    BY <1>1, <1>t DEF Drop, writeVars
  <2>2. Dropped'
    BY <2>1, <1>t DEF Dropped
  <2>3. SentOnce'
    BY <2>1, <1>t DEF SentOnce
  <2>4. Working'
    BY <2>1, <1>t, <1>v DEF Working, OnFile, HasRead, Sending
  <2> QED
    BY <2>2, <2>3, <2>4
<1>2. CASE Main
  <2>1. CASE CreateCheckDir \/ InitSem1 \/ InitSem2
    BY <2>1, SendFrame DEF CreateCheckDir, InitSem1, InitSem2, InitSem2To
  <2>2. CASE StartThreads
    <3>1. wpc = "none"
      BY <2>2 DEF StartThreads, BatonInv, Phases
    <3> QED
      BY <2>2, <3>1, SendStage DEF StartThreads, OnFile, HasRead, Sending
  <2> QED
    BY <1>2, <2>1, <2>2 DEF Main
<1>3. CASE SleepEarly \/ CheckDir \/ OpenDirFails
  BY <1>3, SendFrame
  DEF SleepEarly, CheckDir, ScanWait, OpenDir, ReadDir, CloseDir, OpenDirFails
<1>4. CASE Accept \/ AcceptFails
  BY <1>4, SendFrame DEF Accept, AcceptFails
<1>5. CASE FunWrite
  <2>1. CASE WriteWait \/ WriteSkip \/ WritePost
    BY <2>1, SendStage
    DEF WriteWait, WriteSkip, WritePost, Posting, OnFile, HasRead, Sending
  <2>2. CASE WriteBegin \/ Stat
    BY <2>2, SendStage DEF WriteBegin, WriteFrom, Stat, OnFile, HasRead, Sending
  <2>3. CASE Block
    BY <2>3, SendStage DEF Block, OnFile, HasRead, Sending
  <2>4. CASE SendNameLen \/ SendName \/ SendDataLen
    <3>1. UNCHANGED <<dirVars, vec, data, sent, kept, at>> /\ OnFile /\ OnFile'
      BY <2>4 DEF SendNameLen, SendName, SendDataLen, SendStep, OnFile, Sending
    <3>2. wpc # "remove" /\ wpc' # "remove" /\ (HasRead' => HasRead \/ wpc = "dlen")
      BY <2>4 DEF SendNameLen, SendName, SendDataLen, SendStep, HasRead
    <3> QED
      BY <3>1, <3>2, SendStage DEF HasRead
  <2>5. CASE ReadFile
    <3> DEFINE f == vec[at]
    <3>1. /\ wpc = "read" /\ wpc' = "dlen" /\ data' = content[f]
          /\ UNCHANGED <<content, made, sent, kept, vec, at>>
      BY <2>5 DEF ReadFile, dirVars
    <3>2. f \in Files /\ content[f] # 0
      BY <3>1, <1>v DEF OnFile, Working
    <3>3. (<<f, content[f]>> \in kept \/ sent[<<f, content[f]>>] = 0) /\ content[f] <= made[f]
      BY <3>1, <3>2, <1>t DEF SentOnce, Dropped
    <3>4. Working'
      BY <3>1, <3>2, <3>3 DEF Working, OnFile, HasRead
    <3>5. SentOnce' /\ Dropped'
      BY <3>1 DEF SentOnce, Dropped
    <3> QED
      BY <3>4, <3>5
  <2>6. CASE SendData
    <3> DEFINE f == vec[at]
    <3>1. /\ wpc = "data" /\ wpc' = "remove"
          /\ UNCHANGED <<content, made, data, kept, vec, at>>
          /\ sent' = [sent EXCEPT ![<<f, data>>] = IF sent[<<f, data>>] < 2
                                               THEN sent[<<f, data>>] + 1 ELSE sent[<<f, data>>]]
      BY <2>6 DEF SendData, SendStep, dirVars
    <3>2. /\ f \in Files /\ content[f] # 0 /\ data <= made[f]
          /\ <<f, data>> \in kept \/ sent[<<f, data>>] = 0
      BY <3>1, <1>v DEF OnFile, Working, HasRead, Sending
    <3>4. ASSUME NEW g \in Files, NEW v \in 0..MaxVersion, <<g, v>> # <<f, data>>
          PROVE  sent'[<<g, v>>] = sent[<<g, v>>]
      BY <3>1, <3>4, <1>t
    <3>5. <<f, data>> \in kept \/ sent'[<<f, data>>] = 1
      BY <3>1, <3>2, <1>t
    <3>6. SentOnce'
      <4> SUFFICES ASSUME NEW g \in Files, NEW v \in 0..MaxVersion,
                          sent'[<<g, v>>] # 0, <<g, v>> \notin kept
                   PROVE  /\ sent'[<<g, v>>] = 1 /\ v # 0 /\ v <= made[g]
                          /\ content[g] # v \/ f = g
        BY <3>1 DEF SentOnce
      <4>1. CASE g = f /\ v = data
        BY <3>1, <3>2, <3>5, <4>1 DEF Working, HasRead
      <4>2. CASE ~(g = f /\ v = data)
        BY <3>1, <3>4, <4>2 DEF SentOnce
      <4> QED
        BY <4>1, <4>2
    <3>7. Working' /\ Dropped'
      BY <3>1, <3>2 DEF Working, Dropped, OnFile, HasRead
    <3> QED
      BY <3>6, <3>7
  <2>7. CASE Remove
    <3>1. /\ wpc = "remove" /\ wpc' = "stat"
          /\ \/ content' = [content EXCEPT ![vec[at]] = 0] /\ kept' = kept
             \/ content' = content /\ kept' = kept \cup {<<vec[at], content[vec[at]]>>}
          /\ UNCHANGED <<made, sent, vec>>
      BY <2>7 DEF Remove, Removing
    <3>2. vec[at] \in Files
      BY <3>1, <1>v DEF OnFile
    <3>3. SentOnce'
      <4> SUFFICES ASSUME NEW g \in Files, NEW v \in 0..MaxVersion,
                          sent[<<g, v>>] # 0, <<g, v>> \notin kept'
                   PROVE  sent[<<g, v>>] = 1 /\ v # 0 /\ v <= made[g] /\ content'[g] # v
        BY <3>1 DEF SentOnce
      <4>1. <<g, v>> \notin kept
        BY <3>1
      <4>2. sent[<<g, v>>] = 1 /\ v # 0 /\ v <= made[g] /\ (content[g] # v \/ vec[at] = g)
        BY <4>1 DEF SentOnce
      <4> QED
        BY <3>1, <3>2, <4>2, <1>t
    <3>4. Dropped' /\ Working'
      BY <3>1, <3>2, <1>t DEF Dropped, Working, OnFile, HasRead, Sending
    <3> QED
      BY <3>3, <3>4
  <2>8. CASE WriteEnd
    <3>1. wpc = "stat" /\ wpc' = "post" /\ UNCHANGED <<content, made, data, sent, kept>>
      BY <2>8 DEF WriteEnd, dirVars
    <3> QED
      BY <3>1 DEF Dropped, SentOnce, Working, OnFile, HasRead, Sending
  <2> QED
    BY <1>5, <2>1, <2>2, <2>3, <2>4, <2>5, <2>6, <2>7, <2>8 DEF FunWrite
<1>6. ASSUME NEW c \in Clients, Client(c) PROVE SendInv'
  BY <1>6, SendFrame DEF Client, Connect, ConnectFails, Connecting, ReadLen, ReadName, ReadData, Take
<1>7. CASE UNCHANGED vars
  BY <1>7, SendFrame DEF vars
<1> QED
  BY <1>1, <1>2, <1>3, <1>4, <1>5, <1>6, <1>7 DEF Next

LEMMA SendAlways == Spec => []SendInv
<1>1. BatonInv /\ TypeInv /\ SendInv /\ [Next]_vars => SendInv'
  BY SendNext
<1> QED
  BY <1>1, SendInit, BatonAlways, TypeAlways, PTL DEF Spec

(* Repeated entries in the list, a file replaced while it is sent and a      *)
(* client that reconnects never make FunWrite transmit a version twice; only *)
(* a remove() that failed on it does.                                        *)
THEOREM SentAtMostOnce == Spec => []OneSend
<1>1. TypeInv /\ SendInv => OneSend
  <2> SUFFICES ASSUME TypeInv, SendInv, NEW p \in DOMAIN sent PROVE sent[p] <= 1 \/ p \in kept
    BY DEF OneSend
  <2>1. p \in Files \X (0..MaxVersion) /\ sent[p] \in 0..2
    BY DEF TypeInv, TypeOK, WriteTypes
  <2>2. PICK f \in Files, v \in 0..MaxVersion : p = <<f, v>>
    BY <2>1
  <2> QED
    BY <2>1, <2>2 DEF SendInv, SentOnce
<1> QED
  BY <1>1, SendAlways, TypeAlways, PTL

-----------------------------------------------------------------------------
(* No file is lost unsent.  FunWrite removes the file it has just read and   *)
(* handed to mywrite, whatever was dropped under its name meanwhile, whether *)
(* remove() works or not.                                                    *)
InData == wpc \in {"dlen", "data", "remove"}
HeldData ==
  /\ OnFile => content[vec[at]] # 0
  /\ InData => data # 0 /\ data <= made[vec[at]]
  /\ wpc = "remove" => sent[<<vec[at], data>>] # 0
GoneWasSent ==
  \A f \in Files :
    made[f] # 0 => content[f] # 0 \/ \E v \in 1..made[f] : sent[<<f, v>>] # 0
GoneInv == Dropped /\ HeldData /\ GoneWasSent

LEMMA GoneInit == Init => GoneInv
BY FTAssumption DEF Init, GoneInv, Dropped, HeldData, GoneWasSent, OnFile, InData, Sending

LEMMA GoneFrame ==
  ASSUME TypeInv, GoneInv, UNCHANGED <<dirVars, writeVars>>,
         UNCHANGED vec \/ \E f \in Files : vec' = Append(vec, f)
  PROVE  GoneInv'
<1>1. OnFile => vec'[at] = vec[at]
  <2>1. at \in Nat \ {0} /\ vec \in Seq(Files)
    BY DEF TypeInv, TypeOK, WriteTypes
  <2> QED
    BY <2>1 DEF OnFile, TypeInv, Cursor
<1>2. HeldData'
  BY <1>1 DEF GoneInv, HeldData, OnFile, InData, Sending, writeVars, dirVars
<1>3. Dropped' /\ GoneWasSent'
  BY DEF GoneInv, Dropped, GoneWasSent, dirVars, writeVars
<1> QED
  BY <1>2, <1>3 DEF GoneInv

LEMMA GoneStage ==
  ASSUME GoneInv, UNCHANGED <<dirVars, vec, data, sent, kept>>, wpc' # "remove",
         OnFile' => (OnFile /\ at' = at) \/ content[vec[at']] # 0,
         InData' => InData /\ at' = at
  PROVE  GoneInv'
<1>1. HeldData'
  BY DEF GoneInv, HeldData, OnFile, InData, dirVars
<1>2. Dropped' /\ GoneWasSent'
  BY DEF GoneInv, Dropped, GoneWasSent, dirVars
<1> QED
  BY <1>1, <1>2 DEF GoneInv

LEMMA GoneWrites ==
  ASSUME TypeInv, GoneInv, FunWrite
  PROVE  GoneInv'
<1>t. /\ content \in [Files -> 0..MaxVersion] /\ made \in [Files -> 0..MaxVersion]
      /\ sent \in [Files \X (0..MaxVersion) -> 0..2] /\ data \in 0..MaxVersion
      /\ MaxVersion \in Nat
  BY FTAssumption DEF TypeInv, TypeOK, DirTypes, WriteTypes
<1>v. OnFile => vec[at] \in Files
  BY DEF TypeInv, TypeOK, WriteTypes, Cursor, OnFile
<1> DEFINE f == vec[at]
<1>1. CASE WriteWait \/ WriteSkip \/ WritePost
  BY <1>1, GoneStage DEF WriteWait, WriteSkip, WritePost, Posting, OnFile, InData, Sending
<1>2. CASE WriteBegin \/ Stat
  BY <1>2, GoneStage DEF WriteBegin, WriteFrom, Stat, OnFile, InData, Sending
<1>3. CASE Block
  BY <1>3, GoneStage DEF Block, OnFile, InData, Sending
<1>4. CASE SendNameLen \/ SendName \/ SendDataLen
  <2>1. UNCHANGED <<dirVars, vec, data, sent, kept, at>> /\ OnFile /\ OnFile' /\ wpc' # "remove"
    BY <1>4 DEF SendNameLen, SendName, SendDataLen, SendStep, OnFile, Sending
  <2>2. InData' => InData
    BY <1>4 DEF SendNameLen, SendName, SendDataLen, SendStep, InData
  <2> QED
    BY <2>1, <2>2, GoneStage
<1>5. CASE ReadFile
  <2>1. /\ wpc = "read" /\ wpc' = "dlen" /\ data' = content[f]
        /\ UNCHANGED <<content, made, sent, vec, at>>
    BY <1>5 DEF ReadFile, dirVars
  <2>2. f \in Files /\ content[f] # 0 /\ content[f] <= made[f]
    BY <2>1, <1>v DEF OnFile, GoneInv, HeldData, Dropped
  <2>3. HeldData'
    BY <2>1, <2>2 DEF HeldData, OnFile, InData
  <2> QED
    BY <2>1, <2>3 DEF GoneInv, Dropped, GoneWasSent
<1>6. CASE SendData
  <2>1. /\ wpc = "data" /\ wpc' = "remove"
        /\ UNCHANGED <<content, made, data, vec, at>>
        /\ sent' = [sent EXCEPT ![<<f, data>>] = IF sent[<<f, data>>] < 2
                                             THEN sent[<<f, data>>] + 1 ELSE sent[<<f, data>>]]
    BY <1>6 DEF SendData, SendStep, dirVars
  <2>2. f \in Files /\ content[f] # 0 /\ data # 0 /\ data <= made[f]
    BY <2>1, <1>v DEF OnFile, InData, Sending, GoneInv, HeldData
  <2>3. sent'[<<f, data>>] # 0
    BY <2>1, <2>2, <1>t
  <2>4. ASSUME NEW g \in Files, NEW v \in 0..MaxVersion, sent[<<g, v>>] # 0
        PROVE  sent'[<<g, v>>] # 0
    <3>1. CASE <<g, v>> = <<f, data>>
      BY <2>3, <3>1
    <3>2. CASE <<g, v>> # <<f, data>>
      BY <2>1, <2>4, <3>2, <1>t
    <3> QED
      BY <3>1, <3>2
  <2>5. GoneWasSent'
    <3> SUFFICES ASSUME NEW g \in Files, made[g] # 0, content[g] = 0
                 PROVE  \E v \in 1..made[g] : sent'[<<g, v>>] # 0
      BY <2>1 DEF GoneWasSent
    <3>1. PICK v \in 1..made[g] : sent[<<g, v>>] # 0
      BY DEF GoneInv, GoneWasSent
    <3>2. v \in 0..MaxVersion
      BY <1>t
    <3> QED
      BY <2>4, <3>1, <3>2
  <2>6. HeldData' /\ Dropped'
    BY <2>1, <2>2, <2>3 DEF GoneInv, HeldData, Dropped, OnFile, InData
  <2> QED
    BY <2>5, <2>6 DEF GoneInv
<1>7. CASE Remove
  <2>1. /\ wpc = "remove" /\ wpc' = "stat" /\ UNCHANGED <<made, sent, vec>>
        /\ content' \in {content, [content EXCEPT ![f] = 0]}
    BY <1>7 DEF Remove, Removing
  <2>2. f \in Files /\ data # 0 /\ data <= made[f] /\ sent[<<f, data>>] # 0
    BY <2>1, <1>v DEF OnFile, InData, GoneInv, HeldData
  <2>3. GoneWasSent'
    <3> SUFFICES ASSUME NEW g \in Files, made[g] # 0, content'[g] = 0
                 PROVE  \E v \in 1..made[g] : sent[<<g, v>>] # 0
      BY <2>1 DEF GoneWasSent
    <3>1. CASE g = f
      <4>1. data \in 0..MaxVersion /\ made[f] \in 0..MaxVersion
        BY <2>2, <1>t
      <4>2. data \in 1..made[g]
        BY <2>2, <3>1, <4>1, <1>t
      <4>3. sent[<<g, data>>] # 0
        BY <2>2, <3>1
      <4> QED
        BY <4>2, <4>3
    <3>2. CASE g # f
      <4>1. content[g] = 0
        BY <2>1, <3>2, <1>t
      <4> QED
        BY <4>1 DEF GoneInv, GoneWasSent
    <3> QED
      BY <3>1, <3>2
  <2>4. Dropped' /\ HeldData'
    BY <2>1, <2>2, <1>t DEF GoneInv, Dropped, HeldData, OnFile, InData, Sending
  <2> QED
    BY <2>3, <2>4 DEF GoneInv
<1>8. CASE WriteEnd
  BY <1>8 DEF WriteEnd, dirVars, GoneInv, Dropped, HeldData, GoneWasSent, OnFile, InData, Sending
<1> QED
  BY <1>1, <1>2, <1>3, <1>4, <1>5, <1>6, <1>7, <1>8 DEF FunWrite

LEMMA GoneNext == BatonInv /\ TypeInv /\ GoneInv /\ [Next]_vars => GoneInv'
<1> SUFFICES ASSUME BatonInv, TypeInv, GoneInv, [Next]_vars PROVE GoneInv'
  OBVIOUS
<1>t. /\ content \in [Files -> 0..MaxVersion] /\ made \in [Files -> 0..MaxVersion]
      /\ MaxVersion \in Nat
  BY FTAssumption DEF TypeInv, TypeOK, DirTypes
<1>v. OnFile => vec[at] \in Files
  BY DEF TypeInv, TypeOK, WriteTypes, Cursor, OnFile
<1>1. ASSUME NEW f \in Files, Drop(f) PROVE GoneInv'
  <2>1. /\ made' = [made EXCEPT ![f] = made[f] + 1]
        /\ content' = [content EXCEPT ![f] = made[f] + 1]
        /\ UNCHANGED <<wpc, at, data, sent, vec>>
    BY <1>1, <1>t DEF Drop, writeVars
  <2>2. Dropped' /\ GoneWasSent'
    <3>1. /\ content'[f] = made'[f] /\ made'[f] \in Nat \ {0}
          /\ \A g \in Files : g # f => content'[g] = content[g] /\ made'[g] = made[g]
      BY <2>1, <1>t
    <3>2. Dropped'
      BY <3>1 DEF GoneInv, Dropped
    <3>3. GoneWasSent'
      BY <2>1, <3>1 DEF GoneInv, GoneWasSent
    <3> QED
      BY <3>2, <3>3
  <2>3. OnFile => made[vec[at]] <= made'[vec[at]] /\ (content[vec[at]] # 0 => content'[vec[at]] # 0)
    BY <2>1, <1>t, <1>v
  <2>4. InData => OnFile
    BY DEF InData, OnFile, Sending
  <2>5. data \in Nat /\ (OnFile => made[vec[at]] \in Nat /\ made'[vec[at]] \in Nat)
    BY <2>1, <1>t, <1>v DEF TypeInv, TypeOK, WriteTypes
  <2>6. HeldData'
    BY <2>1, <2>3, <2>4, <2>5 DEF GoneInv, HeldData, OnFile, InData
  <2> QED
    BY <2>2, <2>6 DEF GoneInv
<1>2. CASE Main
  <2>1. CASE CreateCheckDir \/ InitSem1 \/ InitSem2
    BY <2>1, GoneFrame DEF CreateCheckDir, InitSem1, InitSem2, InitSem2To
  <2>2. CASE StartThreads
    BY <2>2, GoneStage DEF StartThreads, OnFile, InData, Sending
  <2> QED
    BY <1>2, <2>1, <2>2 DEF Main
<1>3. CASE SleepEarly \/ CheckDir \/ OpenDirFails
  BY <1>3, GoneFrame
  DEF SleepEarly, CheckDir, ScanWait, OpenDir, ReadDir, CloseDir, OpenDirFails
<1>4. CASE Accept \/ AcceptFails
  BY <1>4, GoneFrame DEF Accept, AcceptFails
<1>5. CASE FunWrite
  BY <1>5, GoneWrites
<1>6. ASSUME NEW c \in Clients, Client(c) PROVE GoneInv'
  BY <1>6, GoneFrame DEF Client, Connect, ConnectFails, Connecting, ReadLen, ReadName, ReadData, Take
<1>7. CASE UNCHANGED vars
  BY <1>7, GoneFrame DEF vars
<1> QED
  BY <1>1, <1>2, <1>3, <1>4, <1>5, <1>6, <1>7 DEF Next

(* A file that was dropped is in the directory until FunWrite has handed a   *)
(* version of it to mywrite: neither a client that never came, nor a list    *)
(* that holds it twice, nor a drop between the read and the remove() takes   *)
(* it away before.  (mywrite may give up on a dead connection, and the       *)
(* version removed may be newer than the one written.)                       *)
THEOREM NoneGoneUnsent == Spec => []GoneWasSent
<1>1. GoneInv => GoneWasSent
  BY DEF GoneInv
<1> QED
  BY <1>1, GoneInit, GoneNext, BatonAlways, TypeAlways, PTL DEF Spec

-----------------------------------------------------------------------------
(* No client stores one file's bytes under another's name.  A connection is  *)
(* written to from when it is accepted until the next one is, so that what   *)
(* a client reads is a piece of FunWrite's output without a gap: a client    *)
(* that has read a name gets that file's length and bytes next, wherever in  *)
(* the middle of a file its connection began.                                *)
Follows(p, q) ==
  /\ p.kind = "len" => q.kind = "body" /\ q.of = p.of /\ q.file = p.file
  /\ p.kind = "body" /\ p.of = "name" => q.kind = "len" /\ q.of = "data" /\ q.file = p.file
(* What a client that reads r next, having read the name n, must find.  A    *)
(* client whose connect() failed reads nothing.                              *)
Wants(r, n, q) ==
  /\ r = "name" => q.kind = "body"
  /\ n \in Files /\ r = "dlen" => q.kind = "len" /\ q.of = "data" /\ q.file = n
  /\ n \in Files /\ r = "data" => q.kind = "body" /\ q.of = "data" /\ q.file = n

Current(c) == <<c, sock[c]>>
(* Accepted or not, nothing has been written to it and nothing read from it. *)
Fresh(k) == chan[k] = <<>> /\ (sock[k[1]] = k[2] => rpc[k[1]] \in {"nlen", "down"})
(* What FunWrite writes next.                                                *)
Coming == [kind |-> IF wpc \in {"name", "data"} THEN "body" ELSE "len",
           of   |-> IF wpc \in {"read", "dlen", "data"} THEN "data" ELSE "name",
           file |-> IF wpc \in {"name", "read", "dlen", "data"} THEN vec[at] ELSE Junk]

Untouched ==
  /\ \A k \in Conns : k[2] > sock[k[1]] => Fresh(k) /\ k # acceptfd /\ k # wfd
  /\ \A i \in DOMAIN backlog :
        LET k == backlog[i] IN Fresh(k) /\ k # acceptfd /\ k # wfd /\ k[2] <= sock[k[1]]
  /\ \A i, j \in DOMAIN backlog : i < j => backlog[i] # backlog[j]
  /\ wfd # NoFd /\ acceptfd \in Conns /\ acceptfd # wfd => Fresh(acceptfd)
OnWire == \A k \in Conns : \A i \in 1..(Len(chan[k]) - 1) : Follows(chan[k][i], chan[k][i + 1])
AtClient ==
  \A c \in Clients : sock[c] > 0 /\ chan[Current(c)] # <<>> =>
    Wants(rpc[c], name[c], Head(chan[Current(c)]))
AtServer ==
  Alive(Target) =>
    IF chan[Target] # <<>> THEN Follows(chan[Target][Len(chan[Target])], Coming)
    ELSE Target[2] = sock[Target[1]] => Wants(rpc[Target[1]], name[Target[1]], Coming)
WireInv == Untouched /\ OnWire /\ AtClient /\ AtServer

LEMMA WireInit == Init => WireInv
<1> SUFFICES ASSUME Init PROVE WireInv
  OBVIOUS
<1>1. \A k \in Conns : chan[k] = <<>> /\ k[1] \in Clients /\ sock[k[1]] = 0 /\ rpc[k[1]] = "down"
  BY DEF Init, Conns
<1>2. acceptfd = NoFd /\ wfd = NoFd /\ backlog = <<>> /\ NoFd \notin Conns
  BY FTAssumption DEF Init, Conns
<1>3. Untouched
  BY <1>1, <1>2 DEF Untouched, Fresh
<1>4. OnWire
  BY <1>1 DEF OnWire
<1>5. AtClient
  BY DEF Init, AtClient
<1>6. AtServer
  BY <1>2 DEF AtServer, Alive, Target
<1> QED
  BY <1>3, <1>4, <1>5, <1>6 DEF WireInv

(* A step that leaves the connections and both their ends alone.             *)
LEMMA WireFrame ==
  ASSUME WireInv, UNCHANGED <<acceptfd, backlog, wfd, chan, sock, closed, rpc, name, Coming>>
  PROVE  WireInv'
<1>1. Untouched'
  BY DEF WireInv, Untouched, Fresh
<1>2. OnWire'
  BY DEF WireInv, OnWire
<1>3. AtClient'
  BY DEF WireInv, AtClient, Current
<1>4. AtServer'
  BY DEF WireInv, AtServer, Alive, Target
<1> QED
  BY <1>1, <1>2, <1>3, <1>4 DEF WireInv

(* FunWrite turns to the next connection, on which nothing is due.           *)
LEMMA WireAccept == ASSUME TypeInv, WireInv, Accept PROVE WireInv'
<1> DEFINE new == backlog[1]
<1>1. /\ backlog # <<>> /\ acceptfd' = new /\ backlog' = Tail(backlog)
      /\ UNCHANGED <<wfd, chan, sock, closed, rpc, name, wpc, at, vec>>
  BY DEF Accept, writeVars, clientVars
<1>2. backlog \in Seq(Conns) /\ new \in Conns /\ Len(backlog) \in Nat \ {0} /\ 1 \in DOMAIN backlog
  BY <1>1 DEF TypeInv, TypeOK, AcceptTypes
<1>3. \A i \in DOMAIN backlog' : i + 1 \in DOMAIN backlog /\ backlog'[i] = backlog[i + 1] /\ i \in Nat
  BY <1>1, <1>2
<1>4. Fresh(new) /\ new # acceptfd /\ new # wfd /\ new[2] <= sock[new[1]]
  BY <1>2 DEF WireInv, Untouched
<1>5. Untouched'
  <2>1. \A k \in Conns : k[2] > sock[k[1]] => k # new
    BY <1>2, <1>4, FTAssumption DEF TypeInv, TypeOK, ClientTypes, Conns
  <2>2. \A i \in DOMAIN backlog' : backlog'[i] # new
    BY <1>2, <1>3 DEF WireInv, Untouched
  <2>3. \A k : Fresh(k)' = Fresh(k)
    BY <1>1 DEF Fresh
  <2>4. \A i, j \in DOMAIN backlog' : i < j => backlog'[i] # backlog'[j]
    BY <1>3 DEF WireInv, Untouched
  <2> QED
    BY <1>1, <1>3, <1>4, <2>1, <2>2, <2>3, <2>4 DEF WireInv, Untouched
<1>6. OnWire' /\ AtClient'
  BY <1>1 DEF WireInv, OnWire, AtClient, Current
<1>7. AtServer'
  <2>1. Coming' = Coming
    BY <1>1 DEF Coming
  <2>2. CASE wfd = NoFd
    BY <1>1, <1>4, <2>2, FTAssumption DEF AtServer, Target, Fresh, Wants
  <2>3. CASE wfd # NoFd
    BY <1>1, <2>1, <2>3 DEF WireInv, AtServer, Target, Alive
  <2> QED
    BY <2>2, <2>3
<1> QED
  BY <1>5, <1>6, <1>7 DEF WireInv

LEMMA WireAcceptFails == ASSUME TypeInv, WireInv, AcceptFails PROVE WireInv'
<1>1. acceptfd' = BadFd /\ UNCHANGED <<backlog, wfd, chan, sock, closed, rpc, name, wpc, at, vec>>
  BY DEF AcceptFails, writeVars, clientVars
<1>2. BadFd \notin Conns
  BY FTAssumption DEF Conns
<1>3. Untouched'
  BY <1>1, <1>2 DEF WireInv, Untouched, Fresh, TypeInv, TypeOK, AcceptTypes
<1>4. OnWire' /\ AtClient'
  BY <1>1 DEF WireInv, OnWire, AtClient, Current
<1>5. AtServer'
  <2>1. Coming' = Coming
    BY <1>1 DEF Coming
  <2> QED
    BY <1>1, <1>2, <2>1 DEF WireInv, AtServer, Target, Alive
<1> QED
  BY <1>3, <1>4, <1>5 DEF WireInv

LEMMA WireBlock == ASSUME TypeInv, WireInv, Block PROVE WireInv'
<1>1. /\ wfd = NoFd /\ wfd' = acceptfd /\ acceptfd \in Conns
      /\ UNCHANGED <<acceptfd, backlog, chan, sock, closed, rpc, name, wpc, at, vec>>
  BY DEF Block, Full, Alive, acceptVars, clientVars
<1>2. Target' = Target
  BY <1>1 DEF Target
<1>3. Untouched'
  BY <1>1 DEF WireInv, Untouched, Fresh
<1>4. OnWire' /\ AtClient'
  BY <1>1 DEF WireInv, OnWire, AtClient, Current
<1>5. AtServer'
  <2>1. Coming' = Coming
    BY <1>1 DEF Coming
  <2> QED
    BY <1>1, <1>2, <2>1 DEF WireInv, AtServer, Alive
<1> QED
  BY <1>3, <1>4, <1>5 DEF WireInv

(* FunWrite writes a piece that is in turn, and what it writes next follows. *)
LEMMA WirePut ==
  ASSUME TypeInv, WireInv, NEW piece \in Pieces, Put(piece),
         UNCHANGED <<acceptfd, backlog, sock, closed, rpc, name>>,
         \A p \in Pieces : Follows(p, Coming) => Follows(p, piece),
         \A r, n : Wants(r, n, Coming) => Wants(r, n, piece),
         Follows(piece, Coming')
  PROVE  WireInv'
<1> DEFINE k == Target
<1>t. /\ chan \in [Conns -> Seq(Pieces)] /\ sock \in [Clients -> 0..MaxConn]
      /\ backlog \in Seq(Conns) /\ wfd \in Conns \cup {NoFd} /\ NoFd \notin Conns
  BY FTAssumption DEF TypeInv, TypeOK, AcceptTypes, WriteTypes, ClientTypes, Conns
<1>1. wfd' = NoFd /\ Target' = acceptfd
  BY DEF Put, Target
<1>2. \A x \in Conns : x # k => chan'[x] = chan[x]
  BY <1>t DEF Put
<1>3. Untouched'
  <2>1. \A x \in Conns : x[2] > sock[x[1]] => x # k
    BY DEF WireInv, Untouched, Target
  <2>2. \A i \in DOMAIN backlog : backlog[i] # k /\ backlog[i] \in Conns
    BY <1>t DEF WireInv, Untouched, Target
  <2>3. \A x \in Conns : x # k => Fresh(x)' = Fresh(x)
    BY <1>2 DEF Fresh
  <2> QED
    BY <1>t, <1>1, <2>1, <2>2, <2>3 DEF WireInv, Untouched
<1>4. CASE Alive(k)
  <2>1. k \in Conns /\ chan[k] \in Seq(Pieces) /\ chan'[k] = Append(chan[k], piece)
    BY <1>4, <1>t DEF Alive, Put
  <2>2. /\ Len(chan[k]) \in Nat /\ Len(chan'[k]) = Len(chan[k]) + 1 /\ chan'[k] # <<>>
        /\ chan'[k][Len(chan'[k])] = piece
        /\ \A i \in 1..Len(chan[k]) : chan'[k][i] = chan[k][i] /\ chan[k][i] \in Pieces
    BY <2>1
  <2>3. chan[k] # <<>> => Follows(chan[k][Len(chan[k])], piece)
    <3> SUFFICES ASSUME chan[k] # <<>> PROVE Follows(chan[k][Len(chan[k])], piece)
      OBVIOUS
    <3>1. Len(chan[k]) \in 1..Len(chan[k])
      BY <2>1
    <3>2. chan[k][Len(chan[k])] \in Pieces /\ Follows(chan[k][Len(chan[k])], Coming)
      BY <1>4, <2>2, <3>1 DEF WireInv, AtServer
    <3> QED
      BY <3>2
  <2>4. OnWire'
    <3> SUFFICES ASSUME NEW x \in Conns, NEW i \in 1..(Len(chan'[x]) - 1)
                 PROVE  Follows(chan'[x][i], chan'[x][i + 1])
      BY DEF OnWire
    <3>1. CASE x # k
      BY <1>2, <3>1 DEF WireInv, OnWire
    <3>2. CASE x = k /\ i < Len(chan[k])
      <4>1. i \in 1..(Len(chan[k]) - 1) /\ i \in 1..Len(chan[k]) /\ i + 1 \in 1..Len(chan[k])
        BY <2>2, <3>2
      <4>2. Follows(chan[k][i], chan[k][i + 1])
        BY <2>1, <4>1 DEF WireInv, OnWire
      <4> QED
        BY <2>2, <3>2, <4>1, <4>2
    <3>3. CASE x = k /\ ~(i < Len(chan[k]))
      <4>1. i = Len(chan[k]) /\ i \in 1..Len(chan[k]) /\ chan[k] # <<>> /\ i + 1 = Len(chan'[k])
        BY <2>1, <2>2, <3>3
      <4> QED
        BY <2>2, <2>3, <3>3, <4>1
    <3> QED
      BY <3>1, <3>2, <3>3
  <2>5. AtClient'
    <3> SUFFICES ASSUME NEW c \in Clients, sock[c] > 0, chan'[Current(c)] # <<>>
                 PROVE  Wants(rpc[c], name[c], Head(chan'[Current(c)]))
      BY DEF AtClient, Current
    <3>1. Current(c) \in Conns
      BY <1>t, FTAssumption DEF Current, Conns
    <3>2. CASE Current(c) # k
      BY <1>2, <3>1, <3>2 DEF WireInv, AtClient
    <3>3. CASE Current(c) = k /\ chan[k] # <<>>
      <4>1. Head(chan'[k]) = Head(chan[k])
        BY <2>1, <3>3
      <4> QED
        BY <3>3, <4>1 DEF WireInv, AtClient
    <3>4. CASE Current(c) = k /\ chan[k] = <<>>
      <4>1. Head(chan'[k]) = piece
        BY <2>1, <3>4
      <4>2. Wants(rpc[c], name[c], Coming)
        <5>1. k[1] = c /\ k[2] = sock[c]
          BY <3>4 DEF Current
        <5>2. AtServer
          BY DEF WireInv
        <5> HIDE DEF k
        <5>3. Alive(k) /\ chan[k] = <<>> /\ k = Target
          BY <1>4, <3>4 DEF k
        <5> QED
          BY <5>1, <5>2, <5>3 DEF AtServer
      <4> QED
        BY <3>4, <4>1, <4>2
    <3> QED
      BY <3>2, <3>3, <3>4
  <2>6. AtServer'
    <3>1. CASE acceptfd = k
      BY <1>1, <2>2, <3>1 DEF AtServer
    <3>2. CASE acceptfd # k
      <4>1. wfd # NoFd /\ acceptfd # wfd
        BY <3>2 DEF Target
      <4>2. acceptfd \in Conns => Fresh(acceptfd) /\ chan'[acceptfd] = chan[acceptfd]
        BY <1>2, <3>2, <4>1 DEF WireInv, Untouched
      <4> QED
        BY <1>1, <4>2 DEF AtServer, Fresh, Wants, Alive
    <3> QED
      BY <3>1, <3>2
  <2> QED
    BY <1>3, <2>4, <2>5, <2>6 DEF WireInv
<1>5. CASE ~Alive(k)
  <2>1. chan' = chan
    BY <1>5 DEF Put
  <2>2. OnWire' /\ AtClient'
    BY <2>1 DEF WireInv, OnWire, AtClient, Current
  <2>3. AtServer'
    <3>1. CASE acceptfd = k
      BY <1>1, <1>5, <3>1 DEF AtServer, Alive
    <3>2. CASE acceptfd # k
      BY <1>1, <2>1, <3>2 DEF WireInv, Untouched, AtServer, Fresh, Wants, Alive, Target
    <3> QED
      BY <3>1, <3>2
  <2> QED
    BY <1>3, <2>2, <2>3 DEF WireInv
<1> QED
  BY <1>4, <1>5

LEMMA WireSends ==
  ASSUME TypeInv, WireInv, SendNameLen \/ SendName \/ SendDataLen \/ SendData
  PROVE  WireInv'
<1>1. /\ UNCHANGED <<acceptfd, backlog, sock, closed, rpc, name, vec, at, size, data>>
      /\ wpc \in Sending
  BY DEF SendNameLen, SendName, SendDataLen, SendData, SendStep, acceptVars, clientVars, Sending
<1>2. ASSUME NEW kind \in {"len", "body"}, NEW of \in {"name", "data"}
      PROVE  Piece(kind, of) \in Pieces /\ Piece(kind, of).kind = kind
             /\ Piece(kind, of).of = of /\ Piece(kind, of).file = vec[at]
  BY <1>1, PieceTypes DEF Piece
<1>3. CASE SendNameLen
  <2>1. wpc = "nlen" /\ wpc' = "name" /\ Put(Piece("len", "name"))
    BY <1>3 DEF SendNameLen, SendStep
  <2>2. \A p \in Pieces : Follows(p, Coming) => p.kind = "body" /\ p.of = "data"
    BY <2>1 DEF Follows, Coming, Pieces
  <2> QED
    BY <1>1, <1>2, <2>1, <2>2, WirePut DEF Follows, Wants, Coming
<1>4. CASE SendName
  <2>1. wpc = "name" /\ wpc' = "read" /\ Put(Piece("body", "name"))
    BY <1>4 DEF SendName, SendStep
  <2> QED
    BY <1>1, <1>2, <2>1, WirePut DEF Follows, Wants, Coming
<1>5. CASE SendDataLen
  <2>1. wpc = "dlen" /\ wpc' = "data" /\ Put(Piece("len", "data"))
    BY <1>5 DEF SendDataLen, SendStep
  <2> QED
    BY <1>1, <1>2, <2>1, WirePut DEF Follows, Wants, Coming
<1>6. CASE SendData
  <2>1. wpc = "data" /\ wpc' = "remove" /\ Put(Piece("body", "data"))
    BY <1>6 DEF SendData, SendStep
  <2> QED
    BY <1>1, <1>2, <2>1, WirePut DEF Follows, Wants, Coming
<1> QED
  BY <1>3, <1>4, <1>5, <1>6

(* A client that has read all of its connection turns to a new one, or to    *)
(* none: no piece waits for it there.                                        *)
LEMMA WireHandshake ==
  ASSUME TypeInv, WireInv, NEW c \in Clients, Connecting(c), Handshake(c),
         NEW r \in {"nlen", "down"}, rpc' = [rpc EXCEPT ![c] = r],
         closed' \in {closed, closed \cup {<<c, sock'[c]>>}}
  PROVE  WireInv'
<1> DEFINE new == <<c, sock[c] + 1>>
           Stays(k) == chan'[k] = <<>> /\ (sock'[k[1]] = k[2] => rpc'[k[1]] \in {"nlen", "down"})
<1>t. /\ sock \in [Clients -> 0..MaxConn] /\ MaxConn \in Nat
      /\ rpc \in [Clients -> Reading \cup {"down", "exit", "garbled"}]
      /\ name \in [Clients -> Files \cup {Junk}] /\ backlog \in Seq(Conns)
  BY FTAssumption DEF TypeInv, TypeOK, ClientTypes, AcceptTypes
<1>1. /\ sock[c] < MaxConn /\ sock' = [sock EXCEPT ![c] = sock[c] + 1]
      /\ backlog' = Append(backlog, new) /\ rpc' = [rpc EXCEPT ![c] = r]
      /\ rpc[c] # "exit" /\ name' = [name EXCEPT ![c] = Junk]
      /\ UNCHANGED <<acceptfd, wfd, chan, wpc, at, vec>>
  BY <1>t DEF Connecting, Handshake, ReadFails, Reading, writeVars
<1>2. new \in Conns /\ sock'[c] = sock[c] + 1 /\ rpc'[c] = r /\ sock[c] \in Nat
  BY <1>t, <1>1 DEF Conns
<1>3. \A d \in Clients : d # c => sock'[d] = sock[d] /\ rpc'[d] = rpc[d] /\ name'[d] = name[d]
  BY <1>t, <1>1
<1>4. Fresh(new) /\ new # acceptfd /\ new # wfd
  BY <1>2 DEF WireInv, Untouched
<1>5. \A k \in Conns : Fresh(k) => Stays(k)
  BY <1>1, <1>2, <1>3 DEF Fresh, Conns
<1>6. Untouched'
  <2>1. \A k \in Conns : k[2] > sock'[k[1]] => k[2] > sock[k[1]]
    BY <1>2, <1>3, <1>t DEF Conns
  <2>2. \A k \in Conns : k[2] <= sock[k[1]] => k[2] <= sock'[k[1]] /\ k # new
    BY <1>2, <1>3, <1>t DEF Conns
  <2>3. ASSUME NEW i \in DOMAIN backlog'
        PROVE  \/ i \in DOMAIN backlog /\ backlog'[i] = backlog[i] /\ backlog[i] \in Conns
               \/ i = Len(backlog) + 1 /\ backlog'[i] = new
    BY <1>t, <1>1, <2>3
  <2>4. /\ DOMAIN backlog = 1..Len(backlog) /\ DOMAIN backlog' = 1..(Len(backlog) + 1)
        /\ Len(backlog) \in Nat /\ \A i \in DOMAIN backlog : backlog[i] \in Conns
    BY <1>t, <1>1
  <2>5. \A i \in DOMAIN backlog' :
          LET k == backlog'[i] IN Stays(k) /\ k # acceptfd /\ k # wfd /\ k[2] <= sock'[k[1]]
    BY <1>2, <1>4, <1>5, <2>2, <2>3, <2>4 DEF WireInv, Untouched
  <2>6. \A i, j \in DOMAIN backlog' : i < j => backlog'[i] # backlog'[j]
    <3> SUFFICES ASSUME NEW i \in DOMAIN backlog', NEW j \in DOMAIN backlog', i < j
                 PROVE  backlog'[i] # backlog'[j]
      OBVIOUS
    <3>1. i \in DOMAIN backlog /\ backlog'[i] = backlog[i]
      BY <2>3, <2>4
    <3>2. backlog[i] # new
      BY <2>2, <2>4, <3>1 DEF WireInv, Untouched
    <3> QED
      BY <2>3, <3>1, <3>2 DEF WireInv, Untouched
  <2>7. \A k \in Conns : k[2] > sock'[k[1]] => Stays(k) /\ k # acceptfd /\ k # wfd
    BY <1>5, <2>1 DEF WireInv, Untouched
  <2>8. wfd # NoFd /\ acceptfd \in Conns /\ acceptfd # wfd => Stays(acceptfd)
    BY <1>5 DEF WireInv, Untouched
  <2> QED
    BY <1>1, <2>5, <2>6, <2>7, <2>8 DEF Untouched, Fresh
<1>7. OnWire'
  BY <1>1 DEF WireInv, OnWire
<1>8. AtClient'
  <2> SUFFICES ASSUME NEW d \in Clients, sock'[d] > 0, chan[<<d, sock'[d]>>] # <<>>
               PROVE  Wants(rpc'[d], name'[d], Head(chan[<<d, sock'[d]>>]))
    BY <1>1 DEF AtClient, Current
  <2>1. d # c
    BY <1>2, <1>4 DEF Fresh
  <2> QED
    BY <1>3, <2>1 DEF WireInv, AtClient, Current
<1>9. AtServer'
  <2> SUFFICES ASSUME Alive(Target)' PROVE AtServer'
    BY DEF AtServer
  <2>1. Target' = Target /\ Coming' = Coming /\ Target \in Conns \ closed /\ Target[1] \in Clients
    BY <1>1 DEF Target, Coming, Alive, Conns
  <2>2. Alive(Target)
    BY <1>1, <1>3, <2>1 DEF Alive
  <2>3. CASE Target[1] = c
    BY <1>1, <1>2, <2>1, <2>2, <2>3 DEF WireInv, AtServer, Wants
  <2>4. CASE Target[1] # c
    BY <1>1, <1>3, <2>1, <2>2, <2>4 DEF WireInv, AtServer
  <2> QED
    BY <2>3, <2>4
<1> QED
  BY <1>6, <1>7, <1>8, <1>9 DEF WireInv

LEMMA WireConnect == ASSUME TypeInv, WireInv, NEW c \in Clients, Connect(c) PROVE WireInv'
BY WireHandshake DEF Connect

LEMMA WireConnectFails ==
  ASSUME TypeInv, WireInv, NEW c \in Clients, ConnectFails(c)
  PROVE  WireInv'
<1>t. /\ sock \in [Clients -> 0..MaxConn]
      /\ rpc \in [Clients -> Reading \cup {"down", "exit", "garbled"}]
      /\ name \in [Clients -> Files \cup {Junk}]
  BY DEF TypeInv, TypeOK, ClientTypes
<1>1. CASE Handshake(c)
  BY <1>1, WireHandshake DEF ConnectFails
<1>2. CASE UNCHANGED <<sock, backlog, closed>>
  <2>1. /\ rpc[c] # "exit" /\ rpc' = [rpc EXCEPT ![c] = "down"]
        /\ name' = [name EXCEPT ![c] = Junk]
        /\ UNCHANGED <<acceptfd, backlog, wfd, chan, sock, closed, wpc, at, vec>>
    BY <1>2, <1>t DEF ConnectFails, Connecting, ReadFails, Reading, writeVars
  <2>2. rpc'[c] = "down" /\ \A d \in Clients : d # c => rpc'[d] = rpc[d] /\ name'[d] = name[d]
    BY <1>t, <2>1
  <2>3. \A k \in Conns : Fresh(k) => Fresh(k)'
    BY <2>1, <2>2 DEF Fresh, Conns
  <2>4. Untouched'
    BY <2>1, <2>3 DEF WireInv, Untouched, TypeInv, TypeOK, AcceptTypes
  <2>5. OnWire'
    BY <2>1 DEF WireInv, OnWire
  <2>6. AtClient'
    BY <2>1, <2>2 DEF WireInv, AtClient, Current, Wants
  <2>7. AtServer'
    <3> SUFFICES ASSUME Alive(Target)' PROVE AtServer'
      BY DEF AtServer
    <3>1. Target' = Target /\ Coming' = Coming /\ Target \in Conns \ closed /\ Target[1] \in Clients
      BY <2>1 DEF Target, Coming, Alive, Conns
    <3>2. Alive(Target)
      BY <2>1, <2>2, <3>1 DEF Alive
    <3> QED
      BY <2>1, <2>2, <3>1, <3>2 DEF WireInv, AtServer, Wants
  <2> QED
    BY <2>4, <2>5, <2>6, <2>7 DEF WireInv
<1> QED
  BY <1>1, <1>2 DEF ConnectFails

(* A client takes a piece and wants the one that follows it.                 *)
LEMMA WireTake ==
  ASSUME TypeInv, WireInv, NEW c \in Clients, Take(c),
         \A d \in Clients : d # c => rpc'[d] = rpc[d] /\ name'[d] = name[d],
         rpc[c] # "exit",
         \A q : Follows(Next1(c), q) => Wants(rpc'[c], name'[c], q)
  PROVE  WireInv'
<1> DEFINE k == Current(c)
           h == Next1(c)
<1>t. chan \in [Conns -> Seq(Pieces)] /\ sock \in [Clients -> 0..MaxConn] /\ backlog \in Seq(Conns)
  BY DEF TypeInv, TypeOK, ClientTypes, AcceptTypes
<1>1. /\ sock[c] > 0 /\ chan[k] # <<>> /\ chan' = [chan EXCEPT ![k] = Tail(chan[k])]
      /\ UNCHANGED <<sock, closed, acceptfd, backlog, wfd, wpc, at, vec>>
  BY DEF Take, Current, acceptVars, writeVars
<1>2. k \in Conns /\ k[1] = c /\ k[2] = sock[c]
  BY <1>t, <1>1, FTAssumption DEF Current, Conns
<1>3. /\ chan[k] \in Seq(Pieces) /\ h = chan[k][1] /\ chan'[k] = Tail(chan[k])
      /\ \A x \in Conns : x # k => chan'[x] = chan[x]
  <2>1. h = Head(chan[k])
    BY DEF Next1, Current
  <2> HIDE DEF k, h
  <2>2. chan[k] \in Seq(Pieces)
    BY <1>t, <1>2
  <2> QED
    BY <1>t, <1>1, <1>2, <2>1, <2>2
<1>4. \A x \in Conns : Fresh(x) => Fresh(x)'
  <2> SUFFICES ASSUME NEW x \in Conns, Fresh(x) PROVE Fresh(x)'
    OBVIOUS
  <2>1. x # k
    BY <1>1 DEF Fresh
  <2>2. sock[x[1]] = x[2] => x[1] # c
    BY <2>1 DEF Current, Conns
  <2> QED
    BY <1>1, <1>3, <2>1, <2>2 DEF Fresh, Conns
<1>5. Untouched'
  BY <1>t, <1>1, <1>4 DEF WireInv, Untouched
<1>6. /\ chan'[k] \in Seq(Pieces) /\ Len(chan'[k]) \in Nat /\ Len(chan[k]) = Len(chan'[k]) + 1
      /\ \A i \in 1..Len(chan'[k]) : chan'[k][i] = chan[k][i + 1]
  <2>1. chan[k] \in Seq(Pieces) /\ chan[k] # <<>> /\ chan'[k] = Tail(chan[k])
    BY <1>1, <1>3
  <2> DEFINE s == chan[k]
             rest == chan'[k]
  <2> HIDE DEF k, s, rest
  <2>2. s \in Seq(Pieces) /\ s # <<>> /\ rest = Tail(s)
    BY <2>1 DEF s, rest
  <2>3. rest \in Seq(Pieces) /\ Len(rest) \in Nat /\ Len(s) = Len(rest) + 1
        /\ \A i \in 1..Len(rest) : rest[i] = s[i + 1]
    BY <2>2
  <2> QED
    BY <2>3 DEF s, rest
<1>7. OnWire'
  <2> SUFFICES ASSUME NEW x \in Conns, NEW i \in 1..(Len(chan'[x]) - 1)
               PROVE  Follows(chan'[x][i], chan'[x][i + 1])
    BY DEF OnWire
  <2>1. CASE x # k
    BY <1>3, <2>1 DEF WireInv, OnWire
  <2>2. CASE x = k
    <3>1. i + 1 \in 1..(Len(chan[k]) - 1) /\ i \in 1..Len(chan'[k]) /\ i + 1 \in 1..Len(chan'[k])
      BY <1>6, <2>2
    <3>2. Follows(chan[k][i + 1], chan[k][i + 2])
      BY <1>2, <3>1 DEF WireInv, OnWire
    <3>3. chan'[k][i] = chan[k][i + 1] /\ chan'[k][i + 1] = chan[k][i + 2]
      BY <1>6, <3>1
    <3> QED
      BY <2>2, <3>2, <3>3
  <2> QED
    BY <2>1, <2>2
<1>8. AtClient'
  <2> SUFFICES ASSUME NEW d \in Clients, sock[d] > 0, chan'[Current(d)] # <<>>
               PROVE  Wants(rpc'[d], name'[d], Head(chan'[Current(d)]))
    BY <1>1 DEF AtClient, Current
  <2>1. CASE d # c
    <3>1. Current(d) # k /\ Current(d) \in Conns
      BY <1>t, <2>1, FTAssumption DEF Current, Conns
    <3> QED
      BY <1>3, <2>1, <3>1 DEF WireInv, AtClient
  <2>2. CASE d = c
    <3>0. chan'[k] # <<>>
      BY <2>2
    <3>1. 1 \in 1..Len(chan'[k]) /\ 1 \in 1..(Len(chan[k]) - 1)
      <4>1. Len(chan'[k]) # 0
        <5> HIDE DEF k
        <5> QED
          BY <1>6, <3>0
      <4> QED
        BY <1>6, <4>1
    <3>2. Follows(h, chan[k][2])
      BY <1>2, <1>3, <3>1 DEF WireInv, OnWire
    <3>3. Head(chan'[k]) = chan[k][2]
      BY <1>6, <3>1
    <3> QED
      BY <2>2, <3>2, <3>3
  <2> QED
    BY <2>1, <2>2
<1>9. AtServer'
  <2> SUFFICES ASSUME Alive(Target)' PROVE AtServer'
    BY DEF AtServer
  <2>1. Target' = Target /\ Coming' = Coming /\ Target \in Conns \ closed /\ Target[1] \in Clients
    BY <1>1 DEF Target, Coming, Alive, Conns
  <2>2. Alive(Target) /\ AtServer
    BY <2>1 DEF Alive, WireInv
  <2>3. CASE Target # k
    <3>1. Target[2] = sock[Target[1]] => Target[1] # c
      BY <2>1, <2>3 DEF Current, Conns
    <3> QED
      BY <1>1, <1>3, <2>1, <2>2, <2>3, <3>1 DEF AtServer
  <2>4. CASE Target = k /\ chan'[k] # <<>>
    <3>1. Len(chan'[k]) \in 1..Len(chan'[k])
      BY <1>3, <1>6, <2>4
    <3>2. chan'[k][Len(chan'[k])] = chan[k][Len(chan[k])]
      BY <1>6, <3>1
    <3>3. Follows(chan[k][Len(chan[k])], Coming)
      BY <1>1, <2>2, <2>4 DEF AtServer
    <3> QED
      BY <2>1, <2>4, <3>2, <3>3 DEF AtServer
  <2>5. CASE Target = k /\ chan'[k] = <<>>
    <3>1. Len(chan[k]) = 1
      BY <1>6, <2>5
    <3>2. Follows(h, Coming)
      BY <1>1, <1>3, <2>2, <2>5, <3>1 DEF AtServer
    <3>3. Wants(rpc'[c], name'[c], Coming)
      BY <3>2
    <3> QED
      BY <1>2, <2>1, <2>5, <3>3 DEF AtServer
  <2> QED
    BY <2>3, <2>4, <2>5
<1> QED
  BY <1>5, <1>7, <1>8, <1>9 DEF WireInv

LEMMA WireReads ==
  ASSUME TypeInv, WireInv, NEW c \in Clients, ReadLen(c) \/ ReadName(c) \/ ReadData(c)
  PROVE  WireInv'
<1>t. /\ rpc \in [Clients -> Reading \cup {"down", "exit", "garbled"}]
      /\ name \in [Clients -> Files \cup {Junk}] /\ Junk \notin Files
  BY FTAssumption DEF TypeInv, TypeOK, ClientTypes
<1>1. Take(c) /\ rpc[c] # "exit"
  BY DEF ReadLen, ReadName, ReadData
<1>2. \A d \in Clients : d # c => rpc'[d] = rpc[d] /\ name'[d] = name[d]
  BY <1>t DEF ReadLen, ReadName, ReadData
<1>3. Wants(rpc[c], name[c], Next1(c))
  BY <1>1 DEF WireInv, AtClient, Take, Next1, Current
<1>4. ASSUME NEW q, Follows(Next1(c), q) PROVE Wants(rpc'[c], name'[c], q)
  <2>1. CASE ReadLen(c)
    <3>1. /\ name' = name
          /\ Next1(c).kind # "body" => \/ rpc[c] = "nlen" /\ rpc'[c] = "name"
                                       \/ rpc[c] = "dlen" /\ rpc'[c] = "data"
          /\ Next1(c).kind = "body" => rpc'[c] = "garbled"
      BY <1>t, <2>1 DEF ReadLen
    <3>2. Next1(c).kind \in {"len", "body"}
      <4>1. Current(c) \in Conns /\ chan[Current(c)] \in Seq(Pieces) /\ chan[Current(c)] # <<>>
        BY <1>1, FTAssumption DEF Take, Current, Conns, TypeInv, TypeOK, ClientTypes
      <4>2. Head(chan[Current(c)]) \in Pieces
        BY <4>1
      <4> QED
        BY <4>2 DEF Next1, Current, Pieces
    <3> QED
      BY <1>3, <1>4, <3>1, <3>2 DEF Wants, Follows
  <2>2. CASE ReadName(c)
    <3>1. /\ rpc[c] = "name"
          /\ \/ Next1(c).of = "name" /\ name'[c] = Next1(c).file /\ rpc'[c] = "dlen"
             \/ name'[c] = Junk /\ rpc'[c] = "dlen"
             \/ rpc'[c] = "exit"
      BY <1>t, <2>2 DEF ReadName
    <3> QED
      BY <1>t, <1>3, <1>4, <3>1 DEF Wants, Follows
  <2>3. CASE ReadData(c)
    BY <1>t, <2>3 DEF ReadData, Wants
  <2> QED
    BY <2>1, <2>2, <2>3
<1> QED
  BY <1>1, <1>2, <1>4, WireTake

LEMMA WireNext == BatonInv /\ TypeInv /\ WireInv /\ [Next]_vars => WireInv'
<1> SUFFICES ASSUME BatonInv, TypeInv, WireInv, [Next]_vars PROVE WireInv'
  OBVIOUS
<1> DEFINE apart == <<acceptfd, backlog, wfd, chan, sock, closed, rpc, name>>
<1>1. ASSUME NEW f \in Files, Drop(f) PROVE WireInv'
  BY <1>1, WireFrame DEF Drop, acceptVars, writeVars, clientVars, Coming
<1>2. CASE Main
  <2>1. UNCHANGED apart
    BY <1>2 DEF Main, CreateCheckDir, InitSem1, InitSem2, InitSem2To, StartThreads,
                acceptVars, writeVars, clientVars
  <2>2. UNCHANGED Coming
    BY <1>2 DEF Main, CreateCheckDir, InitSem1, InitSem2, InitSem2To, StartThreads,
                writeVars, Coming, BatonInv, Phases
  <2> QED
    BY <2>1, <2>2, WireFrame
<1>3. CASE SleepEarly \/ CheckDir \/ OpenDirFails
  <2>1. UNCHANGED <<acceptVars, writeVars, chan, clientVars>>
        /\ (UNCHANGED vec \/ \E f \in Files : vec' = Append(vec, f))
    BY <1>3 DEF SleepEarly, CheckDir, ScanWait, OpenDir, ReadDir, CloseDir, OpenDirFails
  <2>2. wpc \in Sending \cup {"read"} => vec'[at] = vec[at]
    <3>1. at \in Nat \ {0} /\ vec \in Seq(Files)
      BY DEF TypeInv, TypeOK, WriteTypes
    <3> QED
      BY <2>1, <3>1 DEF TypeInv, Cursor
  <2>3. UNCHANGED Coming
    BY <2>1, <2>2 DEF Coming, writeVars, Sending
  <2> QED
    BY <2>1, <2>3, WireFrame DEF acceptVars, writeVars, clientVars
<1>4. CASE Accept \/ AcceptFails
  BY <1>4, WireAccept, WireAcceptFails
<1>5. CASE FunWrite
  <2>1. CASE WriteWait \/ WriteSkip \/ WriteBegin \/ Stat \/ ReadFile \/ Remove \/ WriteEnd \/ WritePost
    <3>1. UNCHANGED apart
      BY <2>1 DEF WriteWait, WriteSkip, WriteBegin, WriteFrom, Stat, ReadFile, Remove, Removing,
                  WriteEnd, WritePost, Posting, acceptVars, clientVars
    <3>2. UNCHANGED Coming
      BY <2>1 DEF WriteWait, WriteSkip, WriteBegin, WriteFrom, Stat, ReadFile, Remove, Removing,
                  WriteEnd, WritePost, Posting, Coming
    <3> QED
      BY <3>1, <3>2, WireFrame
  <2> QED
    BY <1>5, <2>1, WireBlock, WireSends DEF FunWrite
<1>6. ASSUME NEW c \in Clients, Client(c) PROVE WireInv'
  BY <1>6, WireConnect, WireConnectFails, WireReads DEF Client
<1>7. CASE UNCHANGED vars
  BY <1>7, WireFrame DEF vars, acceptVars, writeVars, clientVars, Coming
<1> QED
  BY <1>1, <1>2, <1>3, <1>4, <1>5, <1>6, <1>7 DEF Next

(* However many clients connect, reconnect or give up while files are sent,  *)
(* what is stored under a file's name is that file's data.                   *)
THEOREM StoresMatch == Spec => []StoredMatches
<1>1. Init => StoredMatches
  BY DEF Init, StoredMatches
<1>2. TypeInv /\ WireInv /\ StoredMatches /\ [Next]_vars => StoredMatches'
  <2> SUFFICES ASSUME TypeInv, WireInv, StoredMatches, [Next]_vars PROVE StoredMatches'
    OBVIOUS
  <2>1. CASE UNCHANGED stored
    BY <2>1 DEF StoredMatches
  <2>2. ASSUME NEW c \in Clients, ReadData(c) PROVE StoredMatches'
    <3>1. rpc[c] = "data" /\ sock[c] > 0 /\ chan[Current(c)] # <<>>
          /\ stored' = stored \cup {[by |-> c, name |-> name[c], bytes |-> Next1(c)]}
      BY <2>2 DEF ReadData, Take, Current
    <3>2. Wants("data", name[c], Next1(c))
      BY <3>1 DEF WireInv, AtClient, Next1, Current
    <3> QED
      BY <3>1, <3>2 DEF StoredMatches, Wants
  <2>3. UNCHANGED stored \/ \E c \in Clients : ReadData(c)
    BY DEF Next, vars, Drop, Main, CreateCheckDir, InitSem1, InitSem2, InitSem2To, StartThreads,
           SleepEarly, CheckDir, ScanWait, OpenDir, OpenDirFails, ReadDir, CloseDir, Accept,
           AcceptFails, FunWrite, WriteWait, WriteSkip, WriteBegin, WriteFrom, Stat, Block,
           SendNameLen, SendName, ReadFile, SendDataLen, SendData, SendStep, Remove, Removing,
           WriteEnd, WritePost, Posting, Client, Connect, ConnectFails, Connecting, ReadLen, ReadName, clientVars
  <2> QED
    BY <2>1, <2>2, <2>3
<1> QED
  BY <1>1, <1>2, WireInit, WireNext, BatonAlways, TypeAlways, PTL DEF Spec
=============================================================================
