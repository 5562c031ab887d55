------------------------ MODULE VideoSwitch_proofs ------------------------
(* Theorems about VideoSwitch, for any number of restarts, reboots and       *)
(* failing calls.                                                            *)
EXTENDS VideoSwitch, TLAPS

Phases == {"clock", "open", "read", "decide", "wait", "dead"}
LEMMA ExceptType ==
    ASSUME NEW S, NEW T, NEW f \in [S -> T], NEW s \in S, NEW c \in T
    PROVE  [f EXCEPT ![s] = c] \in [S -> T]
OBVIOUS

LEMMA TypesNext == TypeOK /\ [Next]_vars => TypeOK'
<1> SUFFICES ASSUME TypeOK, [Next]_vars PROVE TypeOK'
  OBVIOUS
<1> USE VSAssumption DEF TypeOK, program, Fault, Shells
<1>1. CASE UNCHANGED vars
  BY <1>1 DEF vars
<1>2. CASE Tick
  <2>1. \A x \in 0..23 : (x + 1) % 24 \in 0..23
    OBVIOUS
  <2> QED
    BY <1>2, <2>1 DEF Tick
<1>3. CASE ReadClock
  BY <1>3 DEF ReadClock
<1>4. CASE OpenDir \/ OpenDirFails
  <2>1. seen' \subseteq Files /\ todo' \subseteq Files /\ pc' \in {"read", "clock"}
    BY <1>4 DEF OpenDir, OpenDirFails
  <2>2. rounds' \in 0..2 /\ faults' \in 0..MaxFaults
    BY <1>4 DEF OpenDir, OpenDirFails
  <2> QED
    BY <1>4, <2>1, <2>2 DEF OpenDir, OpenDirFails
<1>5. ASSUME NEW n \in Files, ReadEntry(n) PROVE TypeOK'
  <2>1. pc' \in {"decide", "read"} /\ seen' \subseteq Files /\ todo' \subseteq Files
    BY <1>5 DEF ReadEntry
  <2> QED
    BY <1>5, <2>1 DEF ReadEntry
<1>6. CASE LeaveAsIs
  BY <1>6 DEF LeaveAsIs, NextRound
<1>7. CASE PopenFails
  BY <1>7 DEF PopenFails
<1>8. CASE Waited
  <2>1. 0 \in 0..MaxFaults
    OBVIOUS
  <2> QED
    BY <1>8, <2>1 DEF Waited, NextRound
<1>9. ASSUME NEW s \in Shells, Switch(s) PROVE TypeOK'
  <2>1. Wanted \in Videos
    BY <1>9 DEF Switch, Wanted, Videos
  <2> QED
    BY <1>9, <2>1 DEF Switch
<1>10. ASSUME NEW s \in Shells, Mv(s) PROVE TypeOK'
  <2>1. shell[s] \in [kind : Videos, at : 1..2]
    BY <1>10 DEF Mv, Running
  <2>2. From(shell[s]) \in Files /\ To(shell[s]) \in Files
    BY DEF From, To, Files
  <2>3. file' \in [Files -> Videos \cup {"none"}]
    BY <1>10, <2>2 DEF Mv
  <2>4. shell' \in [Shells -> [kind : Videos, at : 1..2] \cup {None}]
    <3>1. [shell[s] EXCEPT !.at = 2] \in [kind : Videos, at : 1..2]
      BY <2>1
    <3>2. PICK c \in {[shell[s] EXCEPT !.at = 2], None} : shell' = [shell EXCEPT ![s] = c]
      BY <1>10 DEF Mv
    <3>3. shell \in [Shells -> [kind : Videos, at : 1..2] \cup {None}]
      OBVIOUS
    <3>4. c \in [kind : Videos, at : 1..2] \cup {None}
      BY <3>1
    <3> HIDE DEF TypeOK, program, Fault, Shells
    <3>5. [shell EXCEPT ![s] = c] \in [Shells -> [kind : Videos, at : 1..2] \cup {None}]
      BY <3>3, <3>4, ExceptType
    <3> QED
      BY <3>2, <3>5
  <2>5. UNCHANGED <<hour, program, rounds, faults, cut, overtaken>>
    BY <1>10 DEF Mv
  <2> QED
    BY <2>3, <2>4, <2>5
<1>11. CASE StartUp
  <2>1. 0 \in 0..MaxFaults /\ {} \subseteq Files
    OBVIOUS
  <2>2. overtaken' \in BOOLEAN
    BY <1>11 DEF StartUp
  <2> QED
    BY <1>11, <2>1, <2>2 DEF StartUp, Restarted
<1>12. CASE Reboot
  <2>1. 0 \in 0..MaxFaults /\ {} \subseteq Files
    OBVIOUS
  <2>2. cut' \in BOOLEAN
    BY <1>12 DEF Reboot
  <2> QED
    BY <1>12, <2>1, <2>2 DEF Reboot, Restarted
<1> QED
  BY <1>1, <1>2, <1>3, <1>4, <1>5, <1>6, <1>7, <1>8, <1>9, <1>10, <1>11, <1>12 DEF Next, Program

LEMMA TypesInit == Init => TypeOK
<1> SUFFICES ASSUME Init PROVE TypeOK
  OBVIOUS
<1>1. file \in [Files -> Videos \cup {"none"}]
  BY DEF Init, ByDay, ByNight, Files, Videos
<1>2. 0 \in Shells /\ 0 \in 0..MaxFaults
  BY VSAssumption DEF Shells
<1>3. shell \in [Shells -> [kind : Videos, at : 1..2] \cup {None}]
  BY DEF Init
<1>4. 0 \in 0..23 /\ 0 \in 0..2 /\ {} \subseteq Files
  OBVIOUS
<1> QED
  BY <1>1, <1>2, <1>3, <1>4 DEF Init, TypeOK

(* The types of the variables.                                               *)
THEOREM TypeCorrect == Spec => []TypeOK
BY TypesInit, TypesNext, PTL DEF Spec

-----------------------------------------------------------------------------
(* While star_up.sh has not overtaken a shell there is at most one shell, the *)
(* one the program waits for, and the files are where that shell, or a       *)
(* reboot, has left them: as by day, as by night, or with no video for the   *)
(* page.  The program reads the directory only while no shell renames, so it *)
(* sees exactly the names there are.                                         *)
Parked == [n \in Files |-> CASE n = "e0281.mp4"   -> "none"
                             [] n = "e0281.mp4bc" -> "day"
                             [] n = "e082b.mp4bc" -> "night"]
Present == {n \in Files : file[n] # "none"}
Alone == Running \subseteq {mine} /\ (Running # {} => pc = "wait")
Placed ==
  /\ file \in {ByDay, ByNight, Parked}
  /\ cut => file = Parked
  /\ file = Parked /\ ~cut => \E s \in Running : shell[s].at = 2
  /\ \A s \in Running :
       /\ shell[s].at = 2 => file = Parked /\ ~cut
       /\ shell[s].at = 1 /\ ~cut => file = IF shell[s].kind = "night" THEN ByDay ELSE ByNight
Seen ==
  /\ pc = "read" => seen = Present \ todo
  /\ pc = "decide" => seen = Present
Right(x) == (Night(x) => file = ByNight) /\ (Day(x) => file = ByDay)
InTime ==
  /\ rounds # 0 /\ pc \in {"open", "read", "decide", "wait"} => h = hour
  /\ pc = "wait" /\ ~cut =>
       /\ Running = {} => Right(h)
       /\ \A s \in Running : IF shell[s].kind = "night" THEN Night(h) ELSE Day(h)
  /\ rounds = 2 /\ ~cut /\ Running = {} => Right(hour)
PlaceInv == ~overtaken => Alone /\ Placed /\ Seen /\ InTime

LEMMA Names ==
  /\ ByDay["e0281.mp4"] = "day" /\ ByDay["e0281.mp4bc"] = "none" /\ ByDay["e082b.mp4bc"] = "night"
  /\ ByNight["e0281.mp4"] = "night" /\ ByNight["e0281.mp4bc"] = "day"
  /\ ByNight["e082b.mp4bc"] = "none"
  /\ Parked["e0281.mp4"] = "none" /\ Parked["e0281.mp4bc"] = "day"
  /\ Parked["e082b.mp4bc"] = "night"
BY DEF ByDay, ByNight, Parked, Files

(* A shell renames: the first mv parks the video shown, the second shows the *)
(* other; where a reboot has parked both, the first finds nothing.           *)
LEMMA PlaceMv ==
  ASSUME TypeOK, ~overtaken, Alone, Placed, Seen, InTime, NEW s \in Shells, Mv(s)
  PROVE  Alone' /\ Placed' /\ Seen' /\ InTime'
<1> DEFINE c == shell[s]
<1>1. s \in Running /\ Running = {s} /\ mine = s /\ pc = "wait"
  BY DEF Mv, Alone
<1>2. c \in [kind : Videos, at : 1..2]
  BY <1>1 DEF TypeOK, Running
<1>3. /\ pc' = pc /\ mine' = mine /\ h' = h /\ hour' = hour /\ rounds' = rounds
      /\ cut' = cut /\ UNCHANGED <<todo, seen>>
  BY DEF Mv, program
<1>4. ASSUME NEW x \in Shells, x # s PROVE shell'[x] = shell[x] /\ shell[x] = None
  BY <1>1, <1>4 DEF Mv, TypeOK, Running
<1>5. CASE c.at = 1 /\ ~cut
  <2>1. file = IF c.kind = "night" THEN ByDay ELSE ByNight
    BY <1>1, <1>5 DEF Placed
  <2>2. file' = Parked
    <3>1. CASE c.kind = "night"
      BY <1>5, <2>1, <3>1, Names DEF Mv, From, To, TypeOK, Files, Parked, ByDay
    <3>2. CASE c.kind = "day"
      BY <1>5, <2>1, <3>2, Names DEF Mv, From, To, TypeOK, Files, Parked, ByNight
    <3> QED
      BY <1>2, <3>1, <3>2 DEF Videos
  <2>3. shell'[s] = [c EXCEPT !.at = 2]
    BY <1>2, <1>5, <2>1, Names DEF Mv, From, TypeOK, Videos
  <2>4. shell'[s].at = 2 /\ shell'[s].kind = c.kind /\ shell'[s] # None
    BY <1>2, <2>3 DEF None
  <2>5. Running' = {s}
    BY <1>4, <2>4 DEF Running
  <2> QED
    BY <1>1, <1>3, <1>5, <2>2, <2>4, <2>5 DEF Alone, Placed, Seen, InTime
<1>6. CASE c.at = 2
  <2>1. file = Parked /\ ~cut
    BY <1>1, <1>6 DEF Placed
  <2>2. file' = IF c.kind = "night" THEN ByNight ELSE ByDay
    BY <1>2, <1>6, <2>1, Names DEF Mv, From, To, TypeOK, Files, Parked, ByDay, ByNight, Videos
  <2>3. shell'[s] = None
    BY <1>2, <1>6, <2>1, Names DEF Mv, From, TypeOK, Videos
  <2>4. Running' = {}
    BY <1>4, <2>3 DEF Running
  <2>5. file' # Parked
    BY <2>2, Names
  <2>6. IF c.kind = "night" THEN Night(h) ELSE Day(h)
    BY <1>1, <2>1 DEF InTime
  <2>7. ~(Night(h) /\ Day(h))
    BY DEF Night, Day, TypeOK
  <2>8. Right(h)'
    BY <1>3, <2>2, <2>6, <2>7 DEF Right, Night, Day
  <2>9. rounds # 0 => h = hour
    BY <1>1 DEF InTime
  <2> QED
    BY <1>1, <1>3, <2>1, <2>2, <2>4, <2>5, <2>8, <2>9 DEF Alone, Placed, Seen, InTime, Right, Night, Day
<1>7. CASE c.at = 1 /\ cut
  <2>1. file = Parked
    BY <1>7 DEF Placed
  <2>2. file' = file /\ shell'[s] = None
    BY <1>2, <1>7, <2>1, Names DEF Mv, From, TypeOK
  <2>3. Running' = {}
    BY <1>4, <2>2 DEF Running
  <2> QED
    BY <1>1, <1>3, <1>7, <2>1, <2>2, <2>3 DEF Alone, Placed, Seen, InTime, Parked, Files
<1> QED
  BY <1>2, <1>5, <1>6, <1>7

LEMMA PlaceNext == TypeOK /\ PlaceInv /\ [Next]_vars => PlaceInv'
<1> SUFFICES ASSUME TypeOK, PlaceInv, [Next]_vars, ~overtaken'
             PROVE  Alone' /\ Placed' /\ Seen' /\ InTime'
  BY DEF PlaceInv
<1> DEFINE Goal == Alone' /\ Placed' /\ Seen' /\ InTime'
<1>1. CASE UNCHANGED vars
  BY <1>1 DEF vars, PlaceInv, Alone, Placed, Seen, InTime, Running, Present, Right
<1>2. ~overtaken
  <2>1. CASE StartUp \/ Reboot \/ UNCHANGED vars
    BY <2>1 DEF StartUp, Reboot, vars, TypeOK
  <2>2. CASE Tick \/ \E s \in Shells : Mv(s)
    BY <2>2 DEF Tick, Mv
  <2>3. CASE Program
    BY <2>3 DEF Program, ReadClock, OpenDir, OpenDirFails, ReadEntry, LeaveAsIs, Switch, PopenFails, Waited
  <2> QED
    BY <2>1, <2>2, <2>3 DEF Next
<1>3. Alone /\ Placed /\ Seen /\ InTime
  BY <1>2 DEF PlaceInv
<1>4. ASSUME UNCHANGED <<file, shell, cut>>,
             \/ Tick \/ ReadClock \/ OpenDir \/ OpenDirFails \/ \E n \in Files : ReadEntry(n)
             \/ LeaveAsIs \/ PopenFails \/ Waited \/ StartUp
      PROVE  Goal
  <2>1. Running' = Running /\ Present' = Present
    BY <1>4 DEF Running, Present
  <2>2. Placed'
    BY <1>3, <1>4, <2>1 DEF Placed
  <2>3. \A x : Right(x)' <=> Right(x)
    BY <1>4 DEF Right
  <2>4. CASE Tick
    BY <1>3, <1>4, <2>1, <2>2, <2>3, <2>4 DEF Tick, program, Alone, Seen, InTime
  <2>5. CASE ReadClock
    BY <1>3, <1>4, <2>1, <2>2, <2>3, <2>5 DEF ReadClock, Alone, Seen, InTime
  <2>6. CASE OpenDir
    BY <1>3, <1>4, <2>1, <2>2, <2>3, <2>6 DEF OpenDir, Alone, Seen, InTime, Present
  <2>7. CASE OpenDirFails
    BY <1>3, <1>4, <2>1, <2>2, <2>3, <2>7 DEF OpenDirFails, Alone, Seen, InTime
  <2>8. ASSUME NEW n \in Files, ReadEntry(n) PROVE Goal
    <3>1. Running = {}
      BY <1>3, <2>8 DEF ReadEntry, Alone
    <3>2. seen' = Present \ todo'
      BY <1>3, <2>8 DEF ReadEntry, Seen, Present
    <3>3. pc' = "decide" => todo' = {}
      BY <2>8 DEF ReadEntry
    <3> QED
      BY <1>3, <1>4, <2>1, <2>2, <2>3, <2>8, <3>1, <3>2, <3>3 DEF ReadEntry, Alone, Seen, InTime
  <2>9. CASE LeaveAsIs
    <3>1. Running = {} /\ seen = Present
      BY <1>3, <2>9 DEF LeaveAsIs, Alone, Seen
    <3>2. ~cut => Right(h)
      <4>1. CASE file = ByDay
        BY <2>9, <3>1, <4>1, Names DEF LeaveAsIs, Wanted, IsInitiateState, Found, Present, Files, Right
      <4>2. CASE file = ByNight
        <5>1. seen = {"e0281.mp4", "e0281.mp4bc"}
          BY <3>1, <4>2, Names DEF Present, Files
        <5>2. IsInitiateState = 2
          BY <5>1 DEF IsInitiateState, Found
        <5>3. ~Day(h)
          BY <2>9, <5>2 DEF LeaveAsIs, Wanted, Night, Day, TypeOK
        <5> QED
          BY <4>2, <5>3 DEF Right
      <4> QED
        BY <1>3, <3>1, <4>1, <4>2 DEF Placed
    <3> QED
      BY <1>3, <1>4, <2>1, <2>2, <2>3, <2>9, <3>1, <3>2
         DEF LeaveAsIs, NextRound, Alone, Seen, InTime, TypeOK
  <2>10. CASE PopenFails
    BY <1>3, <1>4, <2>1, <2>2, <2>3, <2>10 DEF PopenFails, Alone, Seen, InTime
  <2>11. CASE Waited
    <3>1. Running = {}
      BY <1>3, <2>11 DEF Waited, Alone
    <3> QED
      BY <1>3, <1>4, <2>1, <2>2, <2>3, <2>11, <3>1
         DEF Waited, NextRound, Alone, Seen, InTime, TypeOK
  <2>12. CASE StartUp
    <3>1. Running = {}
      BY <2>12 DEF StartUp
    <3> QED
      BY <1>3, <1>4, <2>1, <2>2, <2>3, <2>12, <3>1 DEF StartUp, Restarted, Alone, Seen, InTime
  <2> QED
    BY <1>4, <2>4, <2>5, <2>6, <2>7, <2>8, <2>9, <2>10, <2>11, <2>12
<1>5. ASSUME NEW s \in Shells, Switch(s) PROVE Goal
  <2>1. Running = {} /\ seen = Present
    BY <1>3, <1>5 DEF Switch, Alone, Seen
  <2>2. /\ shell' = [shell EXCEPT ![s] = [kind |-> Wanted, at |-> 1]]
        /\ mine' = s /\ pc' = "wait" /\ UNCHANGED <<hour, file, h, rounds, cut>>
    BY <1>5 DEF Switch
  <2>3. shell'[s] = [kind |-> Wanted, at |-> 1] /\ shell'[s] # None
    BY <2>2 DEF TypeOK, None
  <2>4. shell'[s].kind = Wanted /\ shell'[s].at = 1
    BY <2>3
  <2>5. Running' = {s}
    BY <2>1, <2>2, <2>3 DEF Running, TypeOK
  <2>6. IF Wanted = "night" THEN Night(h) ELSE Day(h)
    BY <1>5 DEF Switch, Wanted
  <2>7. ~cut => file = IF Wanted = "night" THEN ByDay ELSE ByNight
    <3>1. ~cut => file \in {ByDay, ByNight}
      BY <1>3, <2>1 DEF Placed
    <3>2. CASE Wanted = "night"
      <4>1. Found("e082b.mp4bc")
        BY <3>2 DEF Wanted, IsInitiateState
      <4>2. file # ByNight
        BY <2>1, <4>1, Names DEF Found, Present
      <4> QED
        BY <3>1, <3>2, <4>2
    <3>3. CASE Wanted = "day"
      <4>1. ~Found("e082b.mp4bc")
        BY <3>3 DEF Wanted, IsInitiateState
      <4>2. file # ByDay
        BY <2>1, <4>1, Names DEF Found, Present, Files
      <4> QED
        BY <3>1, <3>3, <4>2
    <3> QED
      BY <1>5, <3>2, <3>3 DEF Switch, Wanted
  <2>8. cut => file = Parked
    BY <1>3 DEF Placed
  <2>9. ~cut => file # Parked
    BY <2>7, Names
  <2>10. Alone' /\ Placed'
    BY <2>1, <2>2, <2>4, <2>5, <2>7, <2>8, <2>9 DEF Alone, Placed
  <2>11. Seen'
    BY <2>2 DEF Seen
  <2>12. InTime'
    BY <1>3, <1>5, <2>2, <2>4, <2>5, <2>6 DEF Switch, InTime, Night, Day
  <2> QED
    BY <2>10, <2>11, <2>12
<1>6. ASSUME NEW s \in Shells, Mv(s) PROVE Goal
  BY <1>2, <1>3, <1>6, PlaceMv
<1>7. CASE Reboot
  <2>1. Running' = {}
    BY <1>7 DEF Reboot, Running
  <2>2. pc' = "clock" /\ rounds' = 0 /\ file' = file
    BY <1>7 DEF Reboot, Restarted
  <2>3. cut' => file = Parked
    <3>1. CASE cut
      BY <1>3, <3>1 DEF Placed
    <3>2. ASSUME NEW s \in Shells, shell[s].at = 2 PROVE file = Parked
      BY <1>3, <3>2 DEF Placed, Running, None
    <3> QED
      BY <1>7, <3>1, <3>2 DEF Reboot
  <2>4. ~cut' => file # Parked
    BY <1>3, <1>7 DEF Reboot, Placed, Running
  <2> QED
    BY <1>3, <2>1, <2>2, <2>3, <2>4 DEF Alone, Placed, Seen, InTime
<1>8. ASSUME Tick \/ ReadClock \/ OpenDir \/ OpenDirFails \/ (\E n \in Files : ReadEntry(n))
             \/ LeaveAsIs \/ PopenFails \/ Waited \/ StartUp
      PROVE  UNCHANGED <<file, shell, cut>>
  BY <1>8 DEF Tick, ReadClock, OpenDir, OpenDirFails, ReadEntry, LeaveAsIs, PopenFails, Waited,
              StartUp, Restarted
<1> QED
  BY <1>1, <1>4, <1>5, <1>6, <1>7, <1>8 DEF Next, Program

LEMMA PlaceInit == Init => PlaceInv
<1> SUFFICES ASSUME Init PROVE Alone /\ Placed /\ Seen /\ InTime
  BY DEF PlaceInv
<1>1. Running = {}
  BY DEF Init, Running
<1>2. file # Parked
  BY Names DEF Init
<1> QED
  BY <1>1, <1>2 DEF Init, Alone, Placed, Seen, InTime

LEMMA Invariant == Spec => [](TypeOK /\ PlaceInv)
<1>1. Init => TypeOK /\ PlaceInv
  BY TypesInit, PlaceInit
<1>2. TypeOK /\ PlaceInv /\ [Next]_vars => (TypeOK /\ PlaceInv)'
  BY TypesNext, PlaceNext
<1> QED
  BY <1>1, <1>2, PTL DEF Spec

-----------------------------------------------------------------------------
(* Neither video is lost while no shell is overtaken: each of the three      *)
(* placements has both.                                                      *)
THEOREM BothKept == Spec => []KeepsBoth
<1>1. TypeOK /\ PlaceInv => KeepsBoth
  <2> SUFFICES ASSUME PlaceInv, ~overtaken, NEW v \in Videos PROVE \E n \in Files : file[n] = v
    BY DEF KeepsBoth
  <2>1. file \in {ByDay, ByNight, Parked}
    BY DEF PlaceInv, Placed
  <2> QED
    BY <2>1, Names DEF Files, Videos
<1> QED
  BY <1>1, Invariant, PTL

(* The page is without a video only between two mv, or after a reboot there. *)
THEOREM PageIsServed == Spec => []PageServed
<1>1. TypeOK /\ PlaceInv => PageServed
  BY Names DEF PlaceInv, Placed, PageServed
<1> QED
  BY <1>1, Invariant, PTL

(* The page plays the video of the hour, except in the hours 0, 6 and 22.    *)
THEOREM ClockFollowed == Spec => []FollowsClock
<1>1. TypeOK /\ PlaceInv => FollowsClock
  <2> SUFFICES ASSUME TypeOK, PlaceInv, rounds = 2, Running = {}, ~cut, ~overtaken
               PROVE  /\ hour \in {23} \cup 1..5 => file["e0281.mp4"] = "night"
                      /\ hour \in 7..21 => file["e0281.mp4"] = "day"
    BY DEF FollowsClock
  <2>1. Right(hour)
    BY DEF PlaceInv, InTime
  <2>2. hour \in {23} \cup 1..5 => Night(hour)
    BY DEF Night
  <2>3. hour \in 7..21 => Day(hour)
    BY DEF Day
  <2> QED
    BY <2>1, <2>2, <2>3, Names DEF Right
<1> QED
  BY <1>1, Invariant, PTL
=============================================================================
