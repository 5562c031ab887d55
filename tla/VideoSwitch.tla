---------------------------- MODULE VideoSwitch ----------------------------
(***************************************************************************)
(* The program that shows one video by day and another by night.  The page *)
(* plays e0281.mp4; the video that is not shown waits in the same          *)
(* directory, as e0281.mp4bc by night and as e082b.mp4bc by day.  Once a   *)
(* second the program reads the clock and the directory, and when the      *)
(* names do not fit the hour it has a shell rename both files, one after   *)
(* the other.  star_up.sh kills the program and starts it again; a shell   *)
(* the program was waiting for goes on, and a reboot ends everything.      *)
(***************************************************************************)
EXTENDS Naturals, FiniteSets

CONSTANT MaxFaults   \* bound: restarts, reboots, and calls that fail

ASSUME VSAssumption == MaxFaults \in Nat

Videos == {"day", "night"}
Shells == 0..MaxFaults        \* the program's own, and those of programs killed
None == [kind |-> "none", at |-> 0]

VARIABLES
    hour,        \* the system's clock
    file,        \* the video under each name
    shell,       \* what each shell is for, and which of its two mv is next
    pc, h,       \* of the program: its step, and the hour it has read
    todo, seen,  \* the entries readdir has still to come to, and those in filename
    mine,        \* the shell the program waits for
    rounds,      \* full rounds of the program in this hour, up to 2
    faults,      \* counts faults
    cut,         \* history: a reboot came between the two mv of a shell
    overtaken    \* history: the program was started anew while a shell was running

vars == <<hour, file, shell, pc, h, todo, seen, mine, rounds, faults, cut, overtaken>>
program == <<pc, h, todo, seen, mine>>

Files == {"e0281.mp4", "e0281.mp4bc", "e082b.mp4bc"}
ByDay   == [n \in Files |-> CASE n = "e0281.mp4"   -> "day"
                              [] n = "e0281.mp4bc" -> "none"
                              [] n = "e082b.mp4bc" -> "night"]
ByNight == [n \in Files |-> CASE n = "e0281.mp4"   -> "night"
                              [] n = "e0281.mp4bc" -> "day"
                              [] n = "e082b.mp4bc" -> "none"]

Init ==
    /\ hour \in 0..23 /\ file \in {ByDay, ByNight}
    /\ shell = [s \in Shells |-> None]
    /\ pc = "clock" /\ h = 0 /\ todo = {} /\ seen = {} /\ mine = 0
    /\ rounds = 0 /\ faults = 0 /\ cut = FALSE /\ overtaken = FALSE

Running == {s \in Shells : shell[s] # None}
Fault == faults < MaxFaults /\ faults' = faults + 1

\* Mutant: the hours after midnight are forgotten.
NightEvening(x) == x > 22
Night(x) == x > 22 \/ (x > 0 /\ x < 6)
Day(x)   == x > 6 /\ x < 22

-----------------------------------------------------------------------------
\* The hour passes; how much the program gets done in it is open.
Tick ==
    /\ hour' = (hour + 1) % 24 /\ rounds' = 0
    /\ UNCHANGED <<file, shell, program, faults, cut, overtaken>>

ReadClock ==
    /\ pc = "clock" /\ pc' = "open" /\ h' = hour
    /\ UNCHANGED <<hour, file, shell, todo, seen, mine, rounds, faults, cut, overtaken>>

OpenDir ==
    /\ pc = "open" /\ pc' = "read" /\ seen' = {} /\ todo' = Files
    /\ UNCHANGED <<hour, file, shell, h, mine, rounds, faults, cut, overtaken>>

\* Without the directory nothing is known and nothing is done.
OpenDirFails ==
    /\ pc = "open" /\ Fault /\ pc' = "clock" /\ seen' = {} /\ rounds' = 0
    /\ UNCHANGED <<hour, file, shell, h, todo, mine, cut, overtaken>>

\* The names are read one by one, in any order, while a shell may rename.
ReadEntry(n) ==
    /\ pc = "read" /\ n \in todo
    /\ todo' = todo \ {n}
    /\ seen' = IF file[n] = "none" THEN seen ELSE seen \cup {n}
    /\ pc' = IF todo = {n} THEN "decide" ELSE "read"
    /\ UNCHANGED <<hour, file, shell, h, mine, rounds, faults, cut, overtaken>>

\* strstr finds "e0281.mp4" in "e0281.mp4bc" as well.
Found(n) == n \in seen \/ (n = "e0281.mp4" /\ "e0281.mp4bc" \in seen)
IsInitiateState ==
    CASE Found("e0281.mp4") /\ Found("e082b.mp4bc") -> 1
      [] Found("e0281.mp4") /\ Found("e0281.mp4bc") /\ ~Found("e082b.mp4bc") -> 2
      [] OTHER -> 3

\* Mutant: the names are not looked at.
WantedByHour == IF Night(h) THEN "night" ELSE IF Day(h) THEN "day" ELSE "none"
Wanted ==
    CASE Night(h) /\ IsInitiateState = 1 -> "night"
      [] Day(h) /\ IsInitiateState = 2 -> "day"
      [] OTHER -> "none"

NextRound == pc' = "clock" /\ rounds' = IF rounds < 2 THEN rounds + 1 ELSE 2

LeaveAsIs ==
    /\ pc = "decide" /\ Wanted = "none" /\ NextRound /\ seen' = {}
    /\ UNCHANGED <<hour, file, shell, h, todo, mine, faults, cut, overtaken>>

\* popen; the fclose after it waits for the shell, as pclose would.
Switch(s) ==
    /\ pc = "decide" /\ Wanted # "none"
    /\ s \notin Running /\ \A x \in Shells \ Running : s <= x
    /\ shell' = [shell EXCEPT ![s] = [kind |-> Wanted, at |-> 1]]
    /\ mine' = s /\ pc' = "wait" /\ seen' = {}
    /\ UNCHANGED <<hour, file, h, todo, rounds, faults, cut, overtaken>>

\* popen returns NULL, which fclose does not survive.
PopenFails ==
    /\ pc = "decide" /\ Wanted # "none" /\ Fault /\ pc' = "dead" /\ seen' = {}
    /\ UNCHANGED <<hour, file, shell, h, todo, mine, rounds, cut, overtaken>>

\* Mutant: fclose does not wait.
WaitedNot ==
    /\ pc = "wait" /\ NextRound /\ mine' = 0
    /\ UNCHANGED <<hour, file, shell, h, todo, seen, faults, cut, overtaken>>
Waited ==
    /\ pc = "wait" /\ mine \notin Running /\ NextRound /\ mine' = 0
    /\ UNCHANGED <<hour, file, shell, h, todo, seen, faults, cut, overtaken>>

-----------------------------------------------------------------------------
From(c) == IF c.at = 2 THEN (IF c.kind = "night" THEN "e082b.mp4bc" ELSE "e0281.mp4bc")
           ELSE "e0281.mp4"
To(c) == IF c.at = 2 THEN "e0281.mp4"
         ELSE (IF c.kind = "night" THEN "e0281.mp4bc" ELSE "e082b.mp4bc")

\* mv replaces its target; after one that fails && runs no other.
Mv(s) ==
    /\ s \in Running
    /\ LET c == shell[s] IN
       \/ /\ file[From(c)] # "none"
          /\ file' = [file EXCEPT ![To(c)] = file[From(c)], ![From(c)] = "none"]
          /\ shell' = [shell EXCEPT ![s] = IF c.at = 1 THEN [c EXCEPT !.at = 2] ELSE None]
       \/ /\ file[From(c)] = "none"
          /\ shell' = [shell EXCEPT ![s] = None] /\ UNCHANGED file
    /\ UNCHANGED <<hour, program, rounds, faults, cut, overtaken>>

Restarted ==
    /\ pc' = "clock" /\ h' = 0 /\ todo' = {} /\ seen' = {} /\ mine' = 0 /\ rounds' = 0
    /\ UNCHANGED <<hour, file>>

\* star_up.sh; the shell's command line does not name the program, so it is
\* not killed.
StartUp ==
    /\ Fault /\ Restarted
    /\ overtaken' = (overtaken \/ Running # {})
    /\ UNCHANGED <<shell, cut>>

Reboot ==
    /\ Fault /\ Restarted
    /\ shell' = [s \in Shells |-> None]
    /\ cut' = (cut \/ \E s \in Shells : shell[s].at = 2)
    /\ UNCHANGED overtaken

Program ==
    \/ ReadClock \/ OpenDir \/ OpenDirFails \/ \E n \in Files : ReadEntry(n)
    \/ LeaveAsIs \/ \E s \in Shells : Switch(s)
    \/ PopenFails \/ Waited

Next == Tick \/ Program \/ (\E s \in Shells : Mv(s)) \/ StartUp \/ Reboot

Spec == Init /\ [][Next]_vars

-----------------------------------------------------------------------------
TypeOK ==
    /\ hour \in 0..23 /\ h \in 0..23 /\ rounds \in 0..2 /\ faults \in 0..MaxFaults
    /\ file \in [Files -> Videos \cup {"none"}]
    /\ shell \in [Shells -> [kind : Videos, at : 1..2] \cup {None}] /\ mine \in Shells
    /\ pc \in {"clock", "open", "read", "decide", "wait", "dead"}
    /\ todo \subseteq Files /\ seen \subseteq Files
    /\ cut \in BOOLEAN /\ overtaken \in BOOLEAN

\* Two mv that each may replace a file, a directory read while they run,
\* restarts and reboots anywhere: neither video is overwritten, unless
\* star_up.sh ran while a shell did, whose names the new program misread.
KeepsBoth == overtaken \/ \A v \in Videos : \E n \in Files : file[n] = v

\* The page has a video, except between the two mv of a shell, and for good
\* after a reboot there: the program then finds e0281.mp4 in the name of
\* the other file and never gets any further than the first mv.
PageServed ==
    file["e0281.mp4"] = "none" =>
        cut \/ overtaken \/ \E s \in Running : shell[s].at = 2

\* Once the program has been around twice within an hour, the page plays
\* the video of the night from 23 to 6 and that of the day from 7 to 22,
\* whatever names it read before; in the hours 0, 6 and 22, which the tests
\* leave out, it keeps what it had.
FollowsClock ==
    rounds = 2 /\ Running = {} /\ ~cut /\ ~overtaken =>
        /\ hour \in {23} \cup 1..5 => file["e0281.mp4"] = "night"
        /\ hour \in 7..21 => file["e0281.mp4"] = "day"
=============================================================================
