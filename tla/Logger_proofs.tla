--------------------------- MODULE Logger_proofs ----------------------------
(***************************************************************************)
(* What holds of the logger for any number of threads and logs: the writer *)
(* never deletes the node the next log is linked to, and, while no lookup  *)
(* runs into an insertion, no list is ever more than one log behind the    *)
(* wake-ups still to come, and quit does not wait in vain.  At the end,    *)
(* what holds of the subscription to the logs, UdpWriter.                  *)
(***************************************************************************)
EXTENDS Logger, UdpWriter, TLAPS, SequenceTheorems

ListTypes ==
  /\ queues \subseteq Threads
  /\ list \in [Threads -> Seq(Nat)] /\ taken \in [Threads -> BOOLEAN]
  /\ curnode \in [Threads -> Nat] /\ freed \in [Threads -> Nat] /\ made \in [Threads -> Nat]
  /\ ppc \in [Threads -> {"idle", "find", "lock", "insert", "put", "header", "advance", "post"}]
  /\ sem \in Nat /\ at \in 0..N /\ wpc \in {"wait", "visit", "ended"}

(* What deleting the header and linking a node do to a list.                 *)
LEMMA TailFacts ==
  ASSUME NEW s \in Seq(Nat), Len(s) > 1
  PROVE  /\ Tail(s) \in Seq(Nat) /\ Tail(s) # <<>> /\ Len(Tail(s)) = Len(s) - 1
         /\ Head(s) = s[1] /\ 1 \in 1..Len(s)
         /\ \A i \in 1..Len(Tail(s)) : i + 1 \in 1..Len(s) /\ Tail(s)[i] = s[i + 1]
         /\ Tail(s)[Len(Tail(s))] = s[Len(s)]
<1>1. Tail(s) \in Seq(Nat) /\ Len(Tail(s)) = Len(s) - 1 /\ Len(s) \in Nat /\ Head(s) = s[1]
  OBVIOUS
<1>2. \A i \in 1..Len(Tail(s)) : Tail(s)[i] = s[i + 1]
  OBVIOUS
<1> QED
  BY <1>1, <1>2

LEMMA AppendFacts ==
  ASSUME NEW s \in Seq(Nat), NEW n \in Nat
  PROVE  /\ Append(s, n) \in Seq(Nat) /\ Append(s, n) # <<>>
         /\ Len(Append(s, n)) = Len(s) + 1 /\ Append(s, n)[Len(s) + 1] = n
         /\ Len(s) \in Nat /\ \A i \in 1..Len(s) : Append(s, n)[i] = s[i]
OBVIOUS

(* A list holds rising logs, all of them younger than what was deleted.  Its *)
(* last node is the one curnode_ points to, except between the two halves of *)
(* an append.                                                                *)
EndsWith(t, n) == list[t] # <<>> /\ list[t][Len(list[t])] = n
Ordered(t) ==
  /\ \A i, j \in 1..Len(list[t]) : i < j => list[t][i] < list[t][j]
  /\ \A i \in 1..Len(list[t]) : freed[t] < list[t][i] /\ list[t][i] <= made[t]
  /\ InHand(t) => freed[t] < made[t] /\ \A i \in 1..Len(list[t]) : list[t][i] < made[t]
Ended(t) ==
  /\ ppc[t] = "header" => list[t] = <<>> /\ curnode[t] = made[t]
  /\ ppc[t] = "advance" => EndsWith(t, made[t])
  /\ ppc[t] \notin {"header", "advance"} =>
       IF curnode[t] = 0 THEN list[t] = <<>> ELSE EndsWith(t, curnode[t])
Shape(t) == Ordered(t) /\ Ended(t) /\ freed[t] <= made[t]
ShapeInv == ListTypes /\ \A t \in Threads : Shape(t)

LEMMA ShapeInit == Init => ShapeInv
<1> SUFFICES ASSUME Init PROVE ShapeInv
  OBVIOUS
<1>1. ListTypes
  BY LGAssumption DEF Init, ListTypes, Threads
<1>2. ASSUME NEW t \in Threads PROVE Shape(t)
  BY DEF Init, Shape, Ordered, Ended, InHand, EndsWith
<1> QED
  BY <1>1, <1>2 DEF ShapeInv

LEMMA TypesNext == ListTypes /\ [Next]_vars => ListTypes'
<1> SUFFICES ASSUME ListTypes, [Next]_vars PROVE ListTypes'
  OBVIOUS
<1> USE DEF ListTypes, Goto, listVars, writerVars
<1>1. ASSUME NEW t \in Threads, WriteLog(t) \/ Logging(t) PROVE ListTypes'
  <2>1. CASE WriteLog(t)
    BY <2>1 DEF WriteLog
  <2>2. CASE Find(t) \/ FindMisses(t)
    BY <2>2 DEF Find, FindMisses
  <2>3. CASE Lock(t)
    BY <2>3 DEF Lock
  <2>4. CASE Post(t)
    BY <2>4 DEF Post
  <2>5. CASE Insert(t)
    BY <2>5 DEF Insert
  <2>6. CASE PutFirst(t)
    BY <2>6 DEF PutFirst
  <2>7. CASE SetHeader(t)
    BY <2>7 DEF SetHeader
  <2>8. CASE Advance(t)
    BY <2>8 DEF Advance
  <2>9. CASE PutNext(t)
    BY <2>9 DEF PutNext
  <2> QED
    BY <1>1, <2>1, <2>2, <2>3, <2>4, <2>5, <2>6, <2>7, <2>8, <2>9 DEF Logging
<1>4. ASSUME NEW t \in Threads, Overlook(t) PROVE ListTypes'
  BY <1>4 DEF Overlook, Threads
<1>5. ASSUME NEW t \in Threads, Visit(t) PROVE ListTypes'
  <2>1. CASE Len(list[t]) > 1
    <3>1. Tail(list[t]) \in Seq(Nat) /\ Head(list[t]) \in Nat
      BY <2>1
    <3>2. /\ list' = [list EXCEPT ![t] = Tail(@)] /\ taken' = [taken EXCEPT ![t] = FALSE]
          /\ freed' = [freed EXCEPT ![t] = Head(list[t])]
      BY <1>5, <2>1 DEF Visit, GetFront
    <3>3. list' \in [Threads -> Seq(Nat)]
      BY <3>1, <3>2
    <3>4. taken' \in [Threads -> BOOLEAN] /\ freed' \in [Threads -> Nat]
      BY <3>1, <3>2
    <3>5. UNCHANGED <<queues, curnode, made, ppc, sem, wpc>> /\ at' = t
      BY <1>5 DEF Visit, GetFront
    <3> QED
      BY <3>3, <3>4, <3>5 DEF Threads
  <2>2. CASE ~(Len(list[t]) > 1)
    <3>1. /\ taken' = [taken EXCEPT ![t] = list[t] # <<>>] /\ at' = t
          /\ UNCHANGED <<queues, list, curnode, freed, made, ppc, sem, wpc>>
      BY <1>5, <2>2 DEF Visit, GetFront
    <3> QED
      BY <3>1 DEF Threads
  <2> QED
    BY <2>1, <2>2
<1>6. CASE Wait \/ Output \/ Quit \/ QuitPost \/ Join
  <2>1. CASE Output
    <3>1. UNCHANGED <<queues, list, taken, curnode, freed, made, ppc, sem, at>>
          /\ wpc' \in {"wait", "ended"}
      BY <2>1 DEF Output
    <3> QED
      BY <3>1
  <2>2. CASE Wait \/ Quit \/ QuitPost \/ Join
    BY <2>2, LGAssumption DEF Wait, Quit, QuitPost, QuitPosts, Join
  <2> QED
    BY <1>6, <2>1, <2>2
<1>7. CASE UNCHANGED vars
  BY <1>7 DEF vars
<1> QED
  BY <1>1, <1>4, <1>5, <1>6, <1>7 DEF Next, Writer, Closing

(* A list whose thread does not act and which is not visited stays as it is. *)
LEMMA ShapeKept ==
  ASSUME NEW t \in Threads, Shape(t),
         list'[t] = list[t], curnode'[t] = curnode[t], freed'[t] = freed[t],
         made'[t] = made[t], ppc'[t] = ppc[t]
  PROVE  Shape(t)'
BY DEF Shape, Ordered, Ended, InHand, EndsWith

(* The writer visits a list: its last node, if any, is still there.          *)
LEMMA ShapeVisit ==
  ASSUME ShapeInv, NEW t \in Threads, GetFront(t), UNCHANGED <<made, ppc>>
  PROVE  Shape(t)'
<1> USE DEF ShapeInv, ListTypes
<1>1. CASE Len(list[t]) > 1
  <2>1. list'[t] = Tail(list[t]) /\ freed'[t] = list[t][1] /\ curnode'[t] = curnode[t]
    BY <1>1, TailFacts DEF GetFront
  <2>2. /\ Len(list'[t]) = Len(list[t]) - 1 /\ list'[t] # <<>> /\ 1 \in 1..Len(list[t])
        /\ \A i \in 1..Len(list'[t]) :
             i + 1 \in 1..Len(list[t]) /\ list'[t][i] = list[t][i + 1]
        /\ list'[t][Len(list'[t])] = list[t][Len(list[t])]
    <3> DEFINE s == list[t]
               r == Tail(s)
    <3>1. s \in Seq(Nat) /\ Len(s) > 1
      BY <1>1
    <3>2. list'[t] = r
      BY <2>1
    <3> HIDE DEF ShapeInv, ListTypes, s
    <3>3. /\ r # <<>> /\ Len(r) = Len(s) - 1 /\ 1 \in 1..Len(s)
          /\ \A i \in 1..Len(r) : i + 1 \in 1..Len(s) /\ r[i] = s[i + 1]
          /\ r[Len(r)] = s[Len(s)]
      BY <3>1, TailFacts
    <3> HIDE DEF r
    <3>4. /\ Len(list'[t]) = Len(s) - 1 /\ list'[t] # <<>> /\ 1 \in 1..Len(s)
          /\ \A i \in 1..Len(list'[t]) : i + 1 \in 1..Len(s) /\ list'[t][i] = s[i + 1]
          /\ list'[t][Len(list'[t])] = s[Len(s)]
      BY <3>2, <3>3
    <3> QED
      BY <3>4 DEF s
  <2>3. Ordered(t)'
    <3>2. \A i \in 1..Len(list'[t]) :
            /\ freed'[t] < list'[t][i] /\ list'[t][i] <= made[t]
            /\ InHand(t) => list'[t][i] < made[t]
      <4> SUFFICES ASSUME NEW i \in 1..Len(list'[t])
                   PROVE  /\ list[t][1] < list[t][i + 1] /\ list[t][i + 1] <= made[t]
                          /\ InHand(t) => list[t][i + 1] < made[t]
        BY <2>1, <2>2
      <4>1. i + 1 \in 1..Len(list[t]) /\ 1 < i + 1
        BY <2>2
      <4> QED
        BY <2>2, <4>1 DEF Shape, Ordered
    <3>3. \A i, j \in 1..Len(list'[t]) : i < j => list'[t][i] < list'[t][j]
      <4> SUFFICES ASSUME NEW i \in 1..Len(list'[t]), NEW j \in 1..Len(list'[t]), i < j
                   PROVE  list'[t][i] < list'[t][j]
        OBVIOUS
      <4>1. i + 1 \in 1..Len(list[t]) /\ j + 1 \in 1..Len(list[t]) /\ i + 1 < j + 1
        BY <2>2
      <4> QED
        BY <2>2, <4>1 DEF Shape, Ordered
    <3>4. InHand(t) => freed'[t] < made[t]
      BY <2>1, <2>2 DEF Shape, Ordered
    <3> QED
      BY <3>2, <3>3, <3>4 DEF Ordered, InHand
  <2>4. \A n : EndsWith(t, n) => EndsWith(t, n)'
    BY <2>2 DEF EndsWith
  <2>5. Ended(t)'
    <3>1. list[t] # <<>>
      BY <1>1
    <3> QED
      BY <2>1, <2>4, <3>1 DEF Shape, Ended
  <2>6. freed'[t] <= made'[t]
    BY <2>1, <2>2 DEF Shape, Ordered
  <2> QED
    BY <2>3, <2>5, <2>6 DEF Shape
<1>2. CASE ~(Len(list[t]) > 1)
  BY <1>2, ShapeKept DEF GetFront
<1> QED
  BY <1>1, <1>2

LEMMA ShapeNext == ShapeInv /\ [Next]_vars => ShapeInv'
<1> SUFFICES ASSUME ShapeInv, [Next]_vars, NEW t \in Threads PROVE Shape(t)'
  BY TypesNext DEF ShapeInv
<1> USE DEF ShapeInv, ListTypes
<1>1. ASSUME NEW u \in Threads, u # t, WriteLog(u) \/ Logging(u) PROVE Shape(t)'
  <2>1. /\ list'[t] = list[t] /\ curnode'[t] = curnode[t] /\ freed'[t] = freed[t]
        /\ made'[t] = made[t] /\ ppc'[t] = ppc[t]
    BY <1>1
    DEF WriteLog, Logging, Find, FindMisses, Lock, Insert, PutFirst, SetHeader, PutNext, Advance, Post,
        Goto, listVars
  <2> QED
    BY <2>1, ShapeKept
<1>2. CASE WriteLog(t)
  BY <1>2 DEF WriteLog, Goto, listVars, Shape, Ordered, Ended, InHand, EndsWith
<1>3. CASE Find(t) \/ FindMisses(t) \/ Lock(t)
  BY <1>3 DEF Find, FindMisses, Lock, Goto, listVars, Shape, Ordered, Ended, InHand, EndsWith
<1>4. CASE Insert(t)
  <2>1. list'[t] = <<>> /\ curnode'[t] = 0 /\ freed'[t] = freed[t] /\ made'[t] = made[t]
        /\ ppc'[t] = "put" /\ InHand(t)
    BY <1>4 DEF Insert, Inserting, Goto, InHand
  <2> QED
    BY <2>1 DEF Shape, Ordered, Ended, InHand
<1>5. CASE PutFirst(t)
  BY <1>5 DEF PutFirst, Goto, Shape, Ordered, Ended, InHand, EndsWith
<1>6. CASE SetHeader(t)
  <2>1. /\ list'[t] = <<made[t]>> /\ curnode'[t] = made[t] /\ freed'[t] = freed[t]
        /\ made'[t] = made[t] /\ ppc'[t] = "post" /\ InHand(t)
    BY <1>6 DEF SetHeader, Goto, InHand, Shape, Ended
  <2>2. Len(list'[t]) = 1 /\ list'[t][1] = made[t] /\ list'[t] # <<>>
    BY <2>1
  <2> QED
    BY <2>1, <2>2 DEF Shape, Ordered, Ended, InHand, EndsWith
<1>7. CASE PutNext(t)
  <2>1. /\ list'[t] = Append(list[t], made[t]) /\ freed'[t] = freed[t]
        /\ made'[t] = made[t] /\ ppc'[t] = "advance" /\ InHand(t)
    BY <1>7 DEF PutNext, Goto, InHand
  <2>2. /\ Len(list'[t]) = Len(list[t]) + 1 /\ list'[t][Len(list'[t])] = made[t]
        /\ \A i \in 1..Len(list[t]) : list'[t][i] = list[t][i]
        /\ list'[t] # <<>> /\ Len(list[t]) \in Nat
    <3>1. list[t] \in Seq(Nat) /\ made[t] \in Nat
      OBVIOUS
    <3> HIDE DEF ShapeInv, ListTypes
    <3> QED
      BY <2>1, <3>1, AppendFacts
  <2>3. Ordered(t)'
    <3>1. \A i \in 1..Len(list'[t]) : i \in 1..Len(list[t]) \/ i = Len(list[t]) + 1
      BY <2>2
    <3>2. \A i \in 1..Len(list'[t]) : freed'[t] < list'[t][i] /\ list'[t][i] <= made'[t]
      BY <2>1, <2>2, <3>1 DEF Shape, Ordered
    <3>3. \A i, j \in 1..Len(list'[t]) : i < j => list'[t][i] < list'[t][j]
      <4> SUFFICES ASSUME NEW i \in 1..Len(list'[t]), NEW j \in 1..Len(list'[t]), i < j
                   PROVE  list'[t][i] < list'[t][j]
        OBVIOUS
      <4>1. i \in 1..Len(list[t])
        BY <2>2
      <4>2. j \in 1..Len(list[t]) \/ j = Len(list'[t])
        BY <2>2
      <4> QED
        BY <2>1, <2>2, <4>1, <4>2 DEF Shape, Ordered
    <3> QED
      BY <2>1, <3>2, <3>3 DEF Ordered, InHand
  <2>4. Ended(t)'
    BY <2>1, <2>2 DEF Ended, EndsWith
  <2> QED
    BY <2>1, <2>3, <2>4 DEF Shape
<1>8. CASE Advance(t)
  <2>1. /\ UNCHANGED <<list, freed, made>> /\ curnode'[t] = made[t]
        /\ ppc[t] = "advance" /\ ppc'[t] = "post"
    BY <1>8 DEF Advance, Goto
  <2>2. EndsWith(t, made[t])
    BY <2>1 DEF Shape, Ended
  <2>3. made[t] # 0
    <3>1. Len(list[t]) \in 1..Len(list[t])
      BY <2>2 DEF EndsWith
    <3>2. freed[t] < made[t]
      BY <2>2, <3>1 DEF EndsWith, Shape, Ordered
    <3> QED
      BY <3>2
  <2>4. Ordered(t)'
    BY <2>1 DEF Shape, Ordered, InHand
  <2> QED
    BY <2>1, <2>2, <2>3, <2>4 DEF Shape, Ended, EndsWith
<1>9. CASE Post(t)
  BY <1>9 DEF Post, Goto, listVars, Shape, Ordered, Ended, InHand, EndsWith
<1>10. ASSUME NEW u \in Threads, Visit(u) PROVE Shape(t)'
  <2>1. CASE u = t
    BY <1>10, <2>1, ShapeVisit DEF Visit
  <2>2. CASE u # t
    <3>1. /\ list'[t] = list[t] /\ curnode'[t] = curnode[t] /\ freed'[t] = freed[t]
          /\ made'[t] = made[t] /\ ppc'[t] = ppc[t]
      BY <1>10, <2>2 DEF Visit, GetFront
    <3> QED
      BY <3>1, ShapeKept
  <2> QED
    BY <2>1, <2>2
<1>11. ASSUME NEW u \in Threads, Overlook(u) PROVE Shape(t)'
  BY <1>11, ShapeKept DEF Overlook, listVars
<1>12. CASE Wait \/ Output \/ Quit \/ QuitPost \/ Join \/ UNCHANGED vars
  BY <1>12, ShapeKept DEF Wait, Output, Quit, QuitPost, QuitPosts, Join, listVars, vars
<1> QED
  BY <1>1, <1>2, <1>3, <1>4, <1>5, <1>6, <1>7, <1>8, <1>9, <1>10, <1>11, <1>12
  DEF Next, Logging, Writer, Closing

LEMMA ShapeAlways == Spec => []ShapeInv
BY ShapeInit, ShapeNext, PTL DEF Spec

(* put_back never links behind a node the writer has deleted, and the        *)
(* destructor of a list never deletes one again.                             *)
THEOREM TailStays == Spec => []TailAlive
<1>1. ShapeInv => TailAlive
  <2> SUFFICES ASSUME ShapeInv, NEW t \in Threads, ppc[t] \in {"idle", "put"}, curnode[t] # 0
               PROVE  curnode[t] > freed[t]
    BY DEF TailAlive
  <2>1. EndsWith(t, curnode[t])
    BY DEF ShapeInv, Shape, Ended
  <2>2. Len(list[t]) \in 1..Len(list[t])
    BY <2>1 DEF EndsWith, ShapeInv, ListTypes
  <2> QED
    BY <2>1, <2>2 DEF EndsWith, ShapeInv, ListTypes, Shape, Ordered
<1> QED
  BY <1>1, ShapeAlways, PTL
-----------------------------------------------------------------------------
(* How far a list is behind.  A wake-up that visits it takes a log, unless   *)
(* the header was taken before: then it only makes up for having been one    *)
(* ahead.  So a list whose header is taken owes no log beyond the wake-ups   *)
(* to come, any other at most one.                                           *)
Debt(t) == Len(list[t]) - (IF taken[t] THEN 1 ELSE 0)
Late(t) ==
  /\ taken[t] => list[t] # <<>> /\ Debt(t) <= Coming(t)
  /\ ~taken[t] => Debt(t) <= Coming(t) + 1
Placed(t) ==
  /\ t \notin queues => list[t] = <<>>
  /\ ppc[t] \in {"put", "header", "advance", "post"} => t \in queues
LateInv == \A t \in Threads : Late(t) /\ Placed(t)

LEMMA LateInit == Init => LateInv
BY LGAssumption DEF Init, LateInv, Late, Placed, Debt, Coming, ToVisit, ToPost, Threads

(* A list with as many nodes and at least as many wake-ups to come.          *)
LEMMA LateKept ==
  ASSUME ShapeInv, ShapeInv', NEW t \in Threads, Late(t),
         list'[t] = list[t], taken'[t] = taken[t], Coming(t) <= Coming(t)'
  PROVE  Late(t)'
<1>1. Coming(t) \in Int /\ Coming(t)' \in Int /\ Len(list[t]) \in Nat
  <2>1. sem \in Nat /\ sem' \in Nat /\ at \in Int /\ at' \in Int /\ t \in Int /\ list[t] \in Seq(Nat)
    BY LGAssumption DEF ShapeInv, ListTypes, Threads
  <2> QED
    BY <2>1 DEF Coming, ToVisit, ToPost
<1>2. CASE taken[t]
  <2>1. taken'[t] /\ list'[t] # <<>> /\ Len(list[t]) - 1 <= Coming(t)
    BY <1>2, <1>1 DEF Late, Debt
  <2> QED
    BY <1>1, <2>1 DEF Late, Debt
<1>3. CASE ~taken[t]
  <2>1. ~taken'[t] /\ Len(list[t]) <= Coming(t) + 1
    BY <1>3, <1>1 DEF Late, Debt
  <2> QED
    BY <1>1, <2>1 DEF Late, Debt
<1> QED
  BY <1>2, <1>3

LEMMA LateLogging ==
  ASSUME ~raced', ShapeInv, ShapeInv', LateInv, NEW u \in Threads, WriteLog(u) \/ Logging(u)
  PROVE  LateInv'
<1> SUFFICES ASSUME NEW t \in Threads PROVE Late(t)' /\ Placed(t)'
  BY DEF LateInv
<1>a. ListTypes /\ sem' \in Nat
  BY DEF ShapeInv, ListTypes
<1>b. at \in Int /\ t \in Int
  BY <1>a, LGAssumption DEF ListTypes, Threads
<1>0. /\ sem \in Nat /\ sem' \in Nat /\ at \in Int /\ t \in Int /\ list[t] \in Seq(Nat)
      /\ made[t] \in Nat /\ list \in [Threads -> Seq(Nat)] /\ taken \in [Threads -> BOOLEAN]
      /\ queues \subseteq Threads
      /\ ppc \in [Threads -> {"idle", "find", "lock", "insert", "put", "header", "advance", "post"}]
  BY <1>a, <1>b DEF ListTypes
<1>1. Late(t) /\ Placed(t)
  BY DEF LateInv
<1>2. CASE u # t
  <2>1. /\ list'[t] = list[t] /\ taken'[t] = taken[t] /\ ppc'[t] = ppc[t]
        /\ wpc' = wpc /\ at' = at /\ sem <= sem' /\ (t \in queues' <=> t \in queues)
    BY <1>0, <1>2
    DEF WriteLog, Logging, Find, FindMisses, Lock, Insert, PutFirst, SetHeader, PutNext, Advance, Post,
        Goto, listVars, writerVars
  <2>2. Coming(t) <= Coming(t)'
    <3>1. ToVisit(t)' = ToVisit(t) /\ ToVisit(t) \in Nat
      BY <1>0, <2>1 DEF ToVisit
    <3>2. ToPost(t)' = ToPost(t) /\ ToPost(t) \in Nat
      BY <2>1 DEF ToPost
    <3> QED
      BY <1>0, <2>1, <3>1, <3>2 DEF Coming
  <2> QED
    BY <1>1, <2>1, <2>2, LateKept DEF Placed
<1>3. CASE u = t /\ (WriteLog(t) \/ Find(t) \/ FindMisses(t) \/ Lock(t) \/ PutFirst(t))
  <2>1. /\ list'[t] = list[t] /\ taken'[t] = taken[t] /\ queues' = queues
        /\ wpc' = wpc /\ at' = at /\ sem' = sem
        /\ ppc[t] \notin {"advance", "post"} /\ ppc'[t] \notin {"advance", "post"}
    BY <1>0, <1>3 DEF WriteLog, Find, FindMisses, Lock, PutFirst, Goto, listVars, writerVars
  <2>2. ppc'[t] \in {"put", "header", "advance", "post"} => t \in queues
    BY <1>0, <1>1, <1>3 DEF WriteLog, Find, FindMisses, Lock, PutFirst, Goto, Placed
  <2>3. Coming(t) <= Coming(t)'
    BY <1>0, <2>1 DEF Coming, ToVisit, ToPost
  <2> QED
    BY <1>1, <2>1, <2>2, <2>3, LateKept DEF Placed
<1>4. CASE u = t /\ Insert(t)
  <2>1. list'[t] = <<>> /\ taken'[t] = FALSE /\ t \in queues' /\ wpc' = wpc /\ at' = at /\ sem' = sem
    BY <1>0, <1>4 DEF Insert, writerVars
  <2>2. Coming(t)' \in Nat
    BY <1>0, <2>1 DEF Coming, ToVisit, ToPost
  <2> QED
    BY <2>1, <2>2 DEF Late, Debt, Placed
<1>5. CASE u = t /\ (SetHeader(t) \/ PutNext(t))
  <2>1. /\ list'[t] # <<>> /\ Len(list'[t]) = Len(list[t]) + 1 /\ taken' = taken
        /\ queues' = queues /\ wpc' = wpc /\ at' = at /\ sem' = sem
    <3>1. CASE SetHeader(t)
      <4>1. list[t] = <<>> /\ list'[t] = <<made[t]>>
        BY <1>0, <3>1 DEF SetHeader, ShapeInv, Shape, Ended
      <4>2. Len(list[t]) = 0 /\ Len(list'[t]) = 1 /\ list'[t] # <<>>
        BY <4>1
      <4> QED
        BY <3>1, <4>2 DEF SetHeader, writerVars
    <3>2. CASE PutNext(t)
      <4>1. list'[t] = Append(list[t], made[t])
        BY <1>0, <3>2 DEF PutNext
      <4>2. list'[t] # <<>> /\ Len(list'[t]) = Len(list[t]) + 1
        <5>1. list[t] \in Seq(Nat) /\ made[t] \in Nat
          BY <1>0
        <5> QED
          BY <4>1, <5>1, AppendFacts
      <4> QED
        BY <3>2, <4>2 DEF PutNext, writerVars
    <3> QED
      BY <1>5, <3>1, <3>2
  <2>2. ppc[t] \in {"put", "header"} /\ ppc'[t] \in {"advance", "post"}
    BY <1>0, <1>5 DEF SetHeader, PutNext, Goto
  <2>3. Coming(t)' = Coming(t) + 1 /\ Coming(t) \in Nat /\ Len(list[t]) \in Nat
    BY <1>0, <2>1, <2>2 DEF Coming, ToVisit, ToPost
  <2>4. t \in queues
    BY <1>1, <2>2 DEF Placed
  <2>5. Late(t)'
    <3>1. CASE taken[t]
      <4>1. taken'[t] /\ Len(list[t]) - 1 <= Coming(t)
        BY <1>1, <2>1, <3>1 DEF Late, Debt
      <4> QED
        BY <2>1, <2>3, <4>1 DEF Late, Debt
    <3>2. CASE ~taken[t]
      <4>1. ~taken'[t] /\ Len(list[t]) <= Coming(t) + 1
        BY <1>1, <2>1, <2>3, <3>2 DEF Late, Debt
      <4> QED
        BY <2>1, <2>3, <4>1 DEF Late, Debt
    <3> QED
      BY <3>1, <3>2
  <2> QED
    BY <2>1, <2>4, <2>5 DEF Placed
<1>6. CASE u = t /\ (Advance(t) \/ Post(t))
  <2>1. /\ list'[t] = list[t] /\ taken'[t] = taken[t] /\ queues' = queues
        /\ wpc' = wpc /\ at' = at
        /\ \/ ppc[t] = "advance" /\ ppc'[t] = "post" /\ sem' = sem
           \/ ppc[t] = "post" /\ ppc'[t] = "idle" /\ sem' = sem + 1
    BY <1>0, <1>6 DEF Advance, Post, Goto, listVars, writerVars
  <2>2. Coming(t) <= Coming(t)'
    <3>1. ToVisit(t)' = ToVisit(t) /\ ToVisit(t) \in Nat
      BY <1>0, <2>1 DEF ToVisit
    <3>2. ToPost(t) = 1 /\ sem + 1 <= sem' + ToPost(t)' /\ ToPost(t)' \in Nat
      <4>1. CASE ppc[t] = "advance" /\ ppc'[t] = "post" /\ sem' = sem
        BY <1>0, <4>1 DEF ToPost
      <4>2. CASE ppc[t] = "post" /\ ppc'[t] = "idle" /\ sem' = sem + 1
        BY <1>0, <4>2 DEF ToPost
      <4> QED
        BY <2>1, <4>1, <4>2
    <3> QED
      BY <1>0, <3>1, <3>2 DEF Coming
  <2>3. t \in queues
    BY <1>1, <2>1 DEF Placed
  <2> QED
    BY <1>1, <2>1, <2>2, <2>3, LateKept DEF Placed
<1> QED
  BY <1>2, <1>3, <1>4, <1>5, <1>6 DEF Logging

LEMMA LateWriter ==
  ASSUME ~raced', ShapeInv, ShapeInv', LateInv, Writer
  PROVE  LateInv'
<1> SUFFICES ASSUME NEW t \in Threads PROVE Late(t)' /\ Placed(t)'
  BY DEF LateInv
<1>0. /\ sem \in Nat /\ sem' \in Nat /\ at \in Int /\ at' \in Int /\ t \in Int /\ list[t] \in Seq(Nat)
      /\ Len(list[t]) \in Nat /\ list \in [Threads -> Seq(Nat)] /\ taken \in [Threads -> BOOLEAN]
      /\ queues \subseteq Threads /\ t > 0
  <2>1. ListTypes /\ sem' \in Nat /\ at' \in 0..N
    BY DEF ShapeInv, ListTypes
  <2>2. N \in Nat /\ t \in 1..N
    BY LGAssumption DEF Threads
  <2>3. at \in Int /\ at' \in Int /\ t \in Int /\ t > 0
    BY <2>1, <2>2 DEF ListTypes
  <2> QED
    BY <2>1, <2>3 DEF ListTypes
<1>1. Late(t) /\ Placed(t)
  BY DEF LateInv
<1>2. CASE Wait
  <2>1. /\ UNCHANGED <<queues, list, taken, ppc>>
        /\ wpc = "wait" /\ wpc' = "visit" /\ at' = 0 /\ sem' = sem - 1
    BY <1>2 DEF Wait, listVars
  <2>2. Coming(t) <= Coming(t)'
    BY <1>0, <2>1 DEF Coming, ToVisit, ToPost
  <2> QED
    BY <1>1, <2>1, <2>2, LateKept DEF Placed
<1>3. CASE Output
  <2>1. /\ UNCHANGED <<queues, list, taken, ppc, sem, at>>
        /\ wpc = "visit" /\ wpc' # "visit" /\ (t \in queues => ~(t > at))
    BY <1>3 DEF Output, Ahead, listVars
  <2>2. CASE t \in queues
    <3>1. Coming(t) <= Coming(t)'
      BY <1>0, <2>1, <2>2 DEF Coming, ToVisit, ToPost
    <3> QED
      BY <1>1, <2>1, <3>1, LateKept DEF Placed
  <2>3. CASE t \notin queues
    <3>1. list'[t] = <<>> /\ taken'[t] = FALSE
      BY <1>0, <1>1, <2>1, <2>3 DEF Placed, Late
    <3>2. Coming(t)' \in Nat
      BY <1>0, <2>1 DEF Coming, ToVisit, ToPost
    <3> QED
      BY <1>1, <2>1, <3>1, <3>2 DEF Late, Debt, Placed
  <2> QED
    BY <2>2, <2>3
<1>4. ASSUME NEW u \in Threads, u # t, Visit(u) PROVE Late(t)' /\ Placed(t)'
  <2>1. /\ list'[t] = list[t] /\ taken'[t] = taken[t]
        /\ UNCHANGED <<queues, ppc, sem, wpc>> /\ wpc = "visit" /\ at' = u
        /\ u \in Int /\ (t \in queues /\ t > at => t > u)
    <3>1. u \in Int /\ IsNext(u) /\ at' = u /\ UNCHANGED <<queues, ppc, sem, wpc>> /\ wpc = "visit"
      BY <1>4, LGAssumption DEF Visit, GetFront, Threads
    <3>2. list'[t] = list[t] /\ taken'[t] = taken[t]
      BY <1>0, <1>4 DEF Visit, GetFront
    <3> QED
      BY <1>0, <1>4, <3>1, <3>2 DEF IsNext, Ahead
  <2>2. CASE t \in queues
    <3>1. Coming(t) <= Coming(t)'
      BY <1>0, <2>1, <2>2 DEF Coming, ToVisit, ToPost
    <3> QED
      BY <1>1, <2>1, <3>1, LateKept DEF Placed
  <2>3. CASE t \notin queues
    <3>1. list'[t] = <<>> /\ taken'[t] = FALSE
      BY <1>0, <1>1, <2>1, <2>3 DEF Placed, Late
    <3>2. Coming(t)' \in Nat
      BY <1>0, <2>1 DEF Coming, ToVisit, ToPost
    <3> QED
      BY <1>1, <2>1, <3>1, <3>2 DEF Late, Debt, Placed
  <2> QED
    BY <2>2, <2>3
<1>5. CASE Visit(t)
  <2>1. /\ UNCHANGED <<queues, ppc, sem, wpc>> /\ wpc = "visit" /\ at' = t
        /\ t > at /\ t \in queues
    BY <1>5 DEF Visit, GetFront, IsNext, Ahead
  <2>2. Coming(t)' = Coming(t) - 1 /\ Coming(t) \in Nat /\ Coming(t)' \in Nat
    BY <1>0, <2>1 DEF Coming, ToVisit, ToPost
  <2>3. CASE Len(list[t]) > 1
    <3>1. taken'[t] = FALSE /\ list'[t] = Tail(list[t])
      BY <1>0, <1>5, <2>3 DEF Visit, GetFront
    <3>2. Len(list'[t]) = Len(list[t]) - 1
      BY <1>0, <2>3, <3>1, TailFacts
    <3> QED
      <4>1. Len(list[t]) <= Coming(t) + 1
        <5>1. CASE taken[t]
          BY <1>0, <1>1, <2>2, <5>1 DEF Late, Debt
        <5>2. CASE ~taken[t]
          BY <1>0, <1>1, <2>2, <5>2 DEF Late, Debt
        <5> QED
          BY <5>1, <5>2
      <4>2. Late(t)'
        <5>1. ~taken'[t]
          BY <3>1
        <5>2. Len(list'[t]) <= Coming(t)' + 1 /\ Len(list'[t]) \in Int /\ Coming(t)' \in Int
          BY <1>0, <2>2, <3>2, <4>1
        <5> QED
          BY <5>1, <5>2 DEF Late, Debt
      <4> QED
        BY <2>1, <4>2 DEF Placed
  <2>4. CASE ~(Len(list[t]) > 1)
    <3>1. taken'[t] = (list[t] # <<>>) /\ list'[t] = list[t]
      BY <1>0, <1>5, <2>4 DEF Visit, GetFront
    <3> QED
      BY <1>0, <1>1, <2>1, <2>2, <2>4, <3>1 DEF Late, Debt, Placed
  <2> QED
    BY <2>3, <2>4
<1> QED
  BY <1>2, <1>3, <1>4, <1>5 DEF Writer

LEMMA LateNext ==
  ASSUME ~raced', ShapeInv, ShapeInv', LateInv, [Next]_vars
  PROVE  LateInv'
<1>1. CASE \E t \in Threads : WriteLog(t) \/ Logging(t)
  BY <1>1, LateLogging
<1>2. CASE Writer
  BY <1>2, LateWriter
<1>3. CASE Quit \/ Closing \/ UNCHANGED vars
  <2> SUFFICES ASSUME NEW t \in Threads PROVE Late(t)' /\ Placed(t)'
    BY DEF LateInv
  <2>1. UNCHANGED <<queues, list, taken, ppc, wpc, at>> /\ (sem' = sem \/ sem' = sem + 1)
    BY <1>3 DEF Quit, Closing, QuitPost, QuitPosts, Join, listVars, writerVars, vars
  <2>2. sem \in Nat /\ at \in Int /\ t \in Int
    BY LGAssumption DEF ShapeInv, ListTypes, Threads
  <2>3. Coming(t) <= Coming(t)'
    BY <2>1, <2>2 DEF Coming, ToVisit, ToPost
  <2> QED
    BY <2>1, <2>3, LateKept DEF LateInv, Placed
<1>4. ~\E t \in Threads : Overlook(t)
  BY DEF Overlook
<1> QED
  BY <1>1, <1>2, <1>3, <1>4 DEF Next

LEMMA RacedStays == raced /\ [Next]_vars => raced'
BY DEF Next, WriteLog, Logging, Find, FindMisses, Lock, Insert, PutFirst, SetHeader, PutNext,
       Advance, Post, Overlook, Writer, Wait, Visit, Output, Quit, Closing, QuitPost, QuitPosts,
       Join, vars

(* While no lookup has run into an insertion, no list is more than one log   *)
(* behind the wake-ups still to come: with none to come, all but its last    *)
(* log are taken.                                                            *)
THEOREM NeverTwoLate == Spec => []AtMostOneLate
<1>1. ShapeInv /\ (raced \/ LateInv) => AtMostOneLate
  <2> SUFFICES ASSUME ShapeInv, LateInv, NEW t \in Threads PROVE Len(Queued(t)) <= Coming(t) + 1
    BY DEF AtMostOneLate
  <2>1. list[t] \in Seq(Nat) /\ taken[t] \in BOOLEAN /\ Late(t)
    BY DEF ShapeInv, ListTypes, LateInv
  <2>2. sem \in Nat /\ Coming(t) \in Nat
    BY LGAssumption DEF ShapeInv, ListTypes, Coming, ToVisit, ToPost, Threads
  <2>3. CASE taken[t]
    <3>1. list[t] # <<>> /\ Queued(t) = Tail(list[t])
      BY <2>1, <2>3 DEF Late, Queued
    <3>2. Len(Queued(t)) = Len(list[t]) - 1
      BY <2>1, <3>1
    <3> QED
      BY <2>1, <2>2, <2>3, <3>2 DEF Late, Debt
  <2>4. CASE ~taken[t]
    BY <2>1, <2>2, <2>4 DEF Late, Debt, Queued
  <2> QED
    BY <2>1, <2>3, <2>4
<1>2. ShapeInv /\ ShapeInv' /\ (raced \/ LateInv) /\ [Next]_vars => raced' \/ LateInv'
  <2> SUFFICES ASSUME ShapeInv, ShapeInv', raced \/ LateInv, [Next]_vars, ~raced'
               PROVE  LateInv'
    OBVIOUS
  <2>1. raced => raced'
    BY RacedStays
  <2> QED
    BY <2>1, LateNext
<1>3. Init => raced \/ LateInv
  BY LateInit
<1>4. Spec => [](raced \/ LateInv)
  BY <1>2, <1>3, ShapeAlways, PTL DEF Spec
<1> QED
  BY <1>1, <1>4, ShapeAlways, PTL
-----------------------------------------------------------------------------
(* What is written, collected and queued of a thread's logs.                 *)
RestTypes ==
  /\ batch \in [Threads -> Seq(Nat)] /\ written \in [Threads -> Seq(Nat)]
  /\ isrun \in BOOLEAN /\ mpc \in {"run", "post", "join", "deleted"} /\ raced \in BOOLEAN

LEMMA RestInit == Init => RestTypes
<1>1. NoLogs \in [Threads -> Seq(Nat)]
  <2>1. <<>> \in Seq(Nat)
    OBVIOUS
  <2> QED
    BY <2>1 DEF NoLogs
<1> QED
  BY <1>1 DEF Init, RestTypes

LEMMA RestNext == ListTypes /\ RestTypes /\ [Next]_vars => RestTypes'
<1> SUFFICES ASSUME ListTypes, RestTypes, [Next]_vars PROVE RestTypes'
  OBVIOUS
<1> USE DEF RestTypes
<1>1. ASSUME NEW t \in Threads, WriteLog(t) \/ Logging(t) \/ Overlook(t) PROVE RestTypes'
  BY <1>1
  DEF WriteLog, Logging, Find, FindMisses, Lock, Insert, PutFirst, SetHeader, PutNext, Advance, Post,
      Overlook, writerVars
<1>2. ASSUME NEW t \in Threads, Visit(t) PROVE RestTypes'
  <2>1. UNCHANGED <<written, isrun, mpc, raced>>
    BY <1>2 DEF Visit
  <2>2. CASE Fresh(t)
    <3>1. Append(batch[t], Head(list[t])) \in Seq(Nat)
      BY <2>2 DEF Fresh, ListTypes
    <3>2. batch' = [batch EXCEPT ![t] = Append(@, Head(list[t]))]
      BY <1>2, <2>2 DEF Visit, GetFront
    <3> QED
      BY <2>1, <3>1, <3>2
  <2>3. CASE ~Fresh(t)
    BY <1>2, <2>1, <2>3 DEF Visit, GetFront
  <2> QED
    BY <2>2, <2>3
<1>3. CASE Output
  <2>1. \A t \in Threads : written[t] \o batch[t] \in Seq(Nat)
    OBVIOUS
  <2> QED
    BY <1>3, <2>1 DEF Output, NoLogs
<1>4. CASE Wait \/ Quit \/ QuitPost \/ Join \/ UNCHANGED vars
  BY <1>4 DEF Wait, Quit, QuitPost, QuitPosts, Join, writerVars, vars
<1> QED
  BY <1>1, <1>2, <1>3, <1>4 DEF Next, Writer, Closing

LEMMA RestAlways == Spec => []RestTypes
<1>1. Spec => []ListTypes
  BY ShapeAlways, PTL DEF ShapeInv
<1> QED
  BY <1>1, RestInit, RestNext, PTL DEF Spec

(* Every variable of the logger keeps its type.                              *)
THEOREM TypeCorrect == Spec => []TypeOK
<1>1. ShapeInv /\ RestTypes => TypeOK
  BY DEF ShapeInv, ListTypes, RestTypes, TypeOK
<1> QED
  BY <1>1, ShapeAlways, RestAlways, PTL

(* Concatenation of logs, without the type parameter of the library's fact.  *)
LEMMA Associative ==
  ASSUME NEW x \in Seq(Nat), NEW y \in Seq(Nat), NEW z \in Seq(Nat)
  PROVE  x \o (y \o z) = (x \o y) \o z
  BY ConcatAssociative, SMTT(30)

(* Moving the front of the queue to the back of the batch, and adding to the *)
(* queue, as seen by the whole trail.                                        *)
LEMMA MoveHead ==
  ASSUME NEW s \in Seq(Nat), NEW b \in Seq(Nat), NEW q \in Seq(Nat), q # <<>>
  PROVE  (s \o Append(b, Head(q))) \o Tail(q) = (s \o b) \o q
<1>1. /\ Head(q) \in Nat /\ Tail(q) \in Seq(Nat) /\ s \o b \in Seq(Nat)
      /\ <<Head(q)>> \in Seq(Nat)
  OBVIOUS
<1>2. s \o Append(b, Head(q)) = (s \o b) \o <<Head(q)>>
  <2>1. Append(b, Head(q)) = b \o <<Head(q)>>
    BY <1>1, AppendIsConcat
  <2>2. s \o (b \o <<Head(q)>>) = (s \o b) \o <<Head(q)>>
    BY <1>1, ConcatAssociative
  <2> QED
    BY <2>1, <2>2
<1>3. <<Head(q)>> \o Tail(q) = q
  OBVIOUS
<1>4. (s \o b) \o (<<Head(q)>> \o Tail(q)) = ((s \o b) \o <<Head(q)>>) \o Tail(q)
  <2> DEFINE logs  == Seq(Nat)
             front == s \o b
             first == <<Head(q)>>
             rest  == Tail(q)
  <2>1. \A x, y, z \in logs : x \o (y \o z) = (x \o y) \o z
    BY Associative
  <2>2. front \in logs /\ first \in logs /\ rest \in logs
    BY <1>1
  <2> HIDE DEF logs, front, first, rest
  <2>3. front \o (first \o rest) = (front \o first) \o rest
    BY <2>1, <2>2
  <2> QED
    BY <2>3 DEF front, first, rest
<1> QED
  BY <1>2, <1>3, <1>4

LEMMA AddLast ==
  ASSUME NEW s \in Seq(Nat), NEW q \in Seq(Nat), NEW n \in Nat
  PROVE  s \o Append(q, n) = Append(s \o q, n)
<1>1. s \o q \in Seq(Nat) /\ <<n>> \in Seq(Nat)
  OBVIOUS
<1>2. Append(q, n) = q \o <<n>>
  BY AppendIsConcat
<1>3. Append(s \o q, n) = (s \o q) \o <<n>>
  BY <1>1, AppendIsConcat
<1>4. s \o (q \o <<n>>) = (s \o q) \o <<n>>
  BY <1>1, ConcatAssociative
<1> QED
  BY <1>2, <1>3, <1>4

(* Expected(t): the number of the next log to be queued.                     *)
Expected(t) == IF InHand(t) THEN made[t] ELSE made[t] + 1
Counted(t) ==
  /\ \A i, j \in 1..Len(Trail(t)) : i < j => Trail(t)[i] < Trail(t)[j]
  /\ \A i \in 1..Len(Trail(t)) : Trail(t)[i] < Expected(t)
  /\ ~raced => Len(Trail(t)) = Expected(t) - 1 /\ \A i \in 1..Len(Trail(t)) : Trail(t)[i] = i
Ready(t) ==
  /\ Placed(t)
  /\ taken[t] => list[t] # <<>>
  /\ ~raced /\ ppc[t] \in {"lock", "insert"} => t \notin queues
EachInv == \A t \in Threads : Counted(t) /\ Ready(t)

LEMMA EachInit == Init => EachInv
<1> SUFFICES ASSUME Init, NEW t \in Threads PROVE Counted(t) /\ Ready(t)
  BY DEF EachInv
<1>1. /\ written[t] = <<>> /\ batch[t] = <<>> /\ list[t] = <<>> /\ ~taken[t]
      /\ ppc[t] = "idle" /\ made[t] = 0 /\ queues = {}
  BY DEF Init, NoLogs
<1>2. Trail(t) = <<>>
  BY <1>1 DEF Trail, Queued
<1> QED
  BY <1>1, <1>2 DEF Counted, Ready, Placed, Expected, InHand

LEMMA ReadyNext ==
  ASSUME ShapeInv, RestTypes, RestTypes', EachInv, [Next]_vars, NEW t \in Threads
  PROVE  Ready(t)'
<1>0. ListTypes /\ Ready(t)
  BY DEF ShapeInv, EachInv
<1> USE <1>0 DEF ListTypes, Ready, Placed
<1>1. ASSUME NEW u \in Threads, u # t, WriteLog(u) \/ Logging(u) PROVE Ready(t)'
  <2>1. /\ list'[t] = list[t] /\ taken'[t] = taken[t] /\ ppc'[t] = ppc[t]
        /\ (t \in queues' <=> t \in queues)
    BY <1>1
    DEF WriteLog, Logging, Find, FindMisses, Lock, Insert, PutFirst, SetHeader, PutNext, Advance, Post,
        Goto, listVars
  <2>2. raced => raced'
    BY RacedStays
  <2> QED
    BY <2>1, <2>2
<1>2. CASE WriteLog(t) \/ Find(t) \/ FindMisses(t) \/ Lock(t)
  BY <1>2 DEF WriteLog, Find, FindMisses, Lock, Goto, listVars
<1>3. CASE Insert(t)
  BY <1>3 DEF Insert, Goto
<1>4. CASE PutFirst(t) \/ Advance(t) \/ Post(t)
  BY <1>4 DEF PutFirst, Advance, Post, Goto, listVars
<1>5. CASE SetHeader(t)
  <2>1. list'[t] = <<made[t]>> /\ ppc'[t] = "post" /\ queues' = queues /\ t \in queues
    BY <1>5 DEF SetHeader, Goto
  <2> QED
    BY <2>1
<1>6. CASE PutNext(t)
  <2>1. list'[t] # <<>>
    BY <1>6, AppendFacts DEF PutNext
  <2>2. ppc'[t] = "advance" /\ queues' = queues /\ t \in queues
    BY <1>6 DEF PutNext, Goto
  <2> QED
    BY <2>1, <2>2
<1>7. ASSUME NEW u \in Threads, Visit(u) PROVE Ready(t)'
  <2>1. UNCHANGED <<queues, ppc, raced>>
    BY <1>7 DEF Visit, GetFront
  <2>2. CASE u # t
    BY <1>7, <2>1, <2>2 DEF Visit, GetFront
  <2>3. CASE u = t /\ Len(list[t]) > 1
    <3>1. list'[t] = Tail(list[t]) /\ taken'[t] = FALSE /\ list[t] # <<>>
      BY <1>7, <2>3 DEF Visit, GetFront
    <3> QED
      BY <2>1, <3>1
  <2>4. CASE u = t /\ ~(Len(list[t]) > 1)
    <3>1. list'[t] = list[t] /\ taken'[t] = (list[t] # <<>>)
      BY <1>7, <2>4 DEF Visit, GetFront
    <3> QED
      BY <2>1, <3>1
  <2> QED
    BY <2>2, <2>3, <2>4
<1>8. ASSUME NEW u \in Threads, Overlook(u) PROVE Ready(t)'
  BY <1>8 DEF Overlook, listVars
<1>9. CASE Wait \/ Output \/ Quit \/ QuitPost \/ Join \/ UNCHANGED vars
  BY <1>9 DEF Wait, Output, Quit, QuitPost, QuitPosts, Join, listVars, vars
<1> QED
  BY <1>1, <1>2, <1>3, <1>4, <1>5, <1>6, <1>7, <1>8, <1>9 DEF Next, Logging, Writer, Closing

(* A step that leaves the trail and the number expected next as they are.    *)
LEMMA CountedKept ==
  ASSUME NEW t \in Threads, Counted(t), Trail(t)' = Trail(t), Expected(t)' = Expected(t),
         raced => raced'
  PROVE  Counted(t)'
BY DEF Counted

(* A log is queued: the next one.                                            *)
LEMMA CountedAppend ==
  ASSUME NEW t \in Threads, Counted(t), Trail(t) \in Seq(Nat), Expected(t) \in Nat,
         Trail(t)' = Append(Trail(t), Expected(t)), Expected(t)' = Expected(t) + 1,
         raced' = raced
  PROVE  Counted(t)'
<1> DEFINE s == Trail(t)
           n == Expected(t)
<1>1. /\ Len(Trail(t)') = Len(s) + 1 /\ Len(s) \in Nat
      /\ Trail(t)'[Len(s) + 1] = n /\ \A i \in 1..Len(s) : Trail(t)'[i] = s[i]
  <2> HIDE DEF n
  <2> QED
    BY AppendFacts DEF n
<1>2. \A i \in 1..Len(s) : s[i] \in Nat
  BY ElementOfSeq
<1>3. \A i \in 1..Len(s) + 1 : i \in 1..Len(s) \/ i = Len(s) + 1
  BY <1>1
<1>4. \A i \in 1..Len(Trail(t)') : Trail(t)'[i] < n + 1
  BY <1>1, <1>2, <1>3 DEF Counted
<1>5. \A i, j \in 1..Len(Trail(t)') : i < j => Trail(t)'[i] < Trail(t)'[j]
  <2> SUFFICES ASSUME NEW i \in 1..Len(s) + 1, NEW j \in 1..Len(s) + 1, i < j
               PROVE  Trail(t)'[i] < Trail(t)'[j]
    BY <1>1
  <2>1. i \in 1..Len(s)
    BY <1>1
  <2>2. CASE j \in 1..Len(s)
    BY <1>1, <2>1, <2>2 DEF Counted
  <2>3. CASE j = Len(s) + 1
    BY <1>1, <2>1, <2>3 DEF Counted
  <2> QED
    BY <1>3, <2>2, <2>3
<1>6. ~raced' => Len(Trail(t)') = n + 1 - 1 /\ \A i \in 1..Len(Trail(t)') : Trail(t)'[i] = i
  BY <1>1, <1>3 DEF Counted
<1> QED
  BY <1>4, <1>5, <1>6 DEF Counted

(* The writer takes a log from the queue into the batch: the trail stays.    *)
LEMMA TrailVisit ==
  ASSUME ShapeInv, RestTypes, EachInv, NEW t \in Threads, Visit(t)
  PROVE  Trail(t)' = Trail(t)
<1>0. /\ list[t] \in Seq(Nat) /\ batch[t] \in Seq(Nat) /\ written[t] \in Seq(Nat)
      /\ batch \in [Threads -> Seq(Nat)] /\ list \in [Threads -> Seq(Nat)]
      /\ taken \in [Threads -> BOOLEAN] /\ taken[t] \in BOOLEAN
      /\ taken[t] => list[t] # <<>>
  BY DEF ShapeInv, ListTypes, RestTypes, EachInv, Ready
<1>1. written' = written
  BY DEF Visit
<1>2. CASE Fresh(t)
  <2>1. list[t] # <<>> /\ Queued(t) = list[t]
    BY <1>2 DEF Fresh, Queued
  <2>2. batch'[t] = Append(batch[t], Head(list[t]))
    BY <1>0, <1>2 DEF Visit, GetFront
  <2>3. Queued(t)' = Tail(list[t])
    <3>1. CASE Len(list[t]) > 1
      <4>1. list'[t] = Tail(list[t]) /\ taken'[t] = FALSE
        BY <1>0, <3>1 DEF Visit, GetFront
      <4> QED
        BY <4>1 DEF Queued
    <3>2. CASE ~(Len(list[t]) > 1)
      <4>1. list'[t] = list[t] /\ taken'[t] = TRUE
        BY <1>0, <2>1, <3>2 DEF Visit, GetFront
      <4> QED
        BY <4>1 DEF Queued
    <3> QED
      BY <3>1, <3>2
  <2>4. (written[t] \o Append(batch[t], Head(list[t]))) \o Tail(list[t])
          = (written[t] \o batch[t]) \o list[t]
    BY <1>0, <2>1, MoveHead
  <2> QED
    BY <1>1, <2>1, <2>2, <2>3, <2>4 DEF Trail
<1>3. CASE ~Fresh(t)
  <2>1. batch' = batch
    BY <1>3 DEF Visit, GetFront
  <2>2. Queued(t)' = Queued(t)
    <3>1. CASE list[t] = <<>>
      <4>1. Len(list[t]) = 0
        BY <3>1
      <4>2. list'[t] = <<>> /\ taken'[t] = FALSE /\ ~taken[t]
        BY <1>0, <3>1, <4>1 DEF Visit, GetFront
      <4> QED
        BY <3>1, <4>2 DEF Queued
    <3>2. CASE list[t] # <<>>
      <4>1. taken[t]
        BY <1>3, <3>2 DEF Fresh
      <4>2. CASE Len(list[t]) > 1
        <5>1. list'[t] = Tail(list[t]) /\ taken'[t] = FALSE
          BY <1>0, <4>2 DEF Visit, GetFront
        <5> QED
          BY <4>1, <5>1 DEF Queued
      <4>3. CASE ~(Len(list[t]) > 1)
        <5>1. list'[t] = list[t] /\ taken'[t] = TRUE
          BY <1>0, <3>2, <4>3 DEF Visit, GetFront
        <5> QED
          BY <4>1, <5>1 DEF Queued
      <4> QED
        BY <4>2, <4>3
    <3> QED
      BY <3>1, <3>2
  <2> QED
    BY <1>1, <2>1, <2>2 DEF Trail
<1> QED
  BY <1>2, <1>3

(* A log is linked to the list, or becomes its first.                        *)
LEMMA TrailPut ==
  ASSUME ShapeInv, RestTypes, EachInv, NEW t \in Threads, SetHeader(t) \/ PutNext(t)
  PROVE  Trail(t)' = Append(Trail(t), made[t]) /\ Trail(t) \in Seq(Nat)
<1>0. /\ list[t] \in Seq(Nat) /\ batch[t] \in Seq(Nat) /\ written[t] \in Seq(Nat)
      /\ list \in [Threads -> Seq(Nat)] /\ made[t] \in Nat /\ taken[t] \in BOOLEAN
      /\ taken[t] => list[t] # <<>>
  BY DEF ShapeInv, ListTypes, RestTypes, EachInv, Ready
<1>1. UNCHANGED <<batch, written, taken>>
  BY DEF SetHeader, PutNext, writerVars
<1>2. Queued(t)' = Append(Queued(t), made[t]) /\ Queued(t) \in Seq(Nat)
  <2>1. CASE SetHeader(t)
    <3>1. list[t] = <<>> /\ ~taken[t]
      BY <1>0, <2>1 DEF SetHeader, ShapeInv, Shape, Ended
    <3>2. list'[t] = <<made[t]>> /\ Append(<<>>, made[t]) = <<made[t]>>
      BY <1>0, <2>1 DEF SetHeader
    <3> QED
      BY <1>0, <1>1, <3>1, <3>2 DEF Queued
  <2>2. CASE PutNext(t)
    <3>1. list'[t] = Append(list[t], made[t])
      BY <1>0, <2>2 DEF PutNext
    <3>2. CASE taken[t]
      <4>1. Tail(Append(list[t], made[t])) = Append(Tail(list[t]), made[t])
            /\ Tail(list[t]) \in Seq(Nat)
        BY <1>0, <3>2, HeadTailAppend, HeadTailProperties
      <4> QED
        BY <1>1, <3>1, <3>2, <4>1 DEF Queued
    <3>3. CASE ~taken[t]
      BY <1>0, <1>1, <3>1, <3>3 DEF Queued
    <3> QED
      BY <3>2, <3>3
  <2> QED
    BY <2>1, <2>2
<1>3. written[t] \o batch[t] \in Seq(Nat)
  BY <1>0, ConcatProperties
<1>4. (written[t] \o batch[t]) \o Append(Queued(t), made[t])
        = Append((written[t] \o batch[t]) \o Queued(t), made[t])
  <2> DEFINE s == written[t] \o batch[t]
             q == Queued(t)
             n == made[t]
  <2>1. s \in Seq(Nat) /\ q \in Seq(Nat) /\ n \in Nat
    BY <1>0, <1>2, <1>3
  <2> HIDE DEF s, q, n
  <2>2. s \o Append(q, n) = Append(s \o q, n)
    BY <2>1, AddLast
  <2> QED
    BY <2>2 DEF s, q, n
<1> QED
  BY <1>1, <1>2, <1>3, <1>4, ConcatProperties DEF Trail

(* The batch goes to the file.                                               *)
LEMMA TrailOutput ==
  ASSUME ShapeInv, RestTypes, NEW t \in Threads, Output
  PROVE  Trail(t)' = Trail(t)
<1>1. written[t] \o batch[t] \in Seq(Nat)
  BY ConcatProperties DEF RestTypes
<1>2. written'[t] = written[t] \o batch[t] /\ batch'[t] = <<>> /\ Queued(t)' = Queued(t)
  BY DEF Output, NoLogs, Queued, listVars
<1>3. (written[t] \o batch[t]) \o <<>> = written[t] \o batch[t]
  BY <1>1, ConcatEmptySeq
<1> QED
  BY <1>2, <1>3 DEF Trail

(* An entry that a lookup has missed is replaced with what it holds; else    *)
(* there was none.                                                           *)
LEMMA CountedInsert ==
  ASSUME ShapeInv, RestTypes, RestTypes', EachInv, NEW t \in Threads, Insert(t)
  PROVE  Counted(t)'
<1>0. /\ list[t] \in Seq(Nat) /\ batch[t] \in Seq(Nat) /\ written[t] \in Seq(Nat)
      /\ list \in [Threads -> Seq(Nat)] /\ taken \in [Threads -> BOOLEAN]
      /\ taken[t] => list[t] # <<>>
      /\ Counted(t) /\ Ready(t) /\ made[t] \in Nat
  BY DEF ShapeInv, ListTypes, RestTypes, EachInv, Ready
<1>1. /\ UNCHANGED <<written, batch, made, raced>>
      /\ list'[t] = <<>> /\ taken'[t] = FALSE /\ InHand(t) /\ InHand(t)'
  BY <1>0 DEF Insert, Inserting, Goto, InHand, writerVars, ShapeInv, ListTypes
<1>2. Expected(t)' = Expected(t)
  BY <1>1 DEF Expected
<1>3. Queued(t) \in Seq(Nat)
  BY <1>0, HeadTailProperties DEF Queued
<1> DEFINE s == written[t] \o batch[t]
<1>4. s \in Seq(Nat) /\ s \o <<>> = s /\ Trail(t) = s \o Queued(t)
  BY <1>0, ConcatProperties, ConcatEmptySeq DEF Trail
<1>5. Trail(t)' = s
  BY <1>1, <1>4 DEF Trail, Queued
<1> HIDE DEF s
<1>6. CASE raced
  <2>1. /\ Len(s) \in Nat /\ Len(Queued(t)) \in Nat /\ Len(Trail(t)) = Len(s) + Len(Queued(t))
        /\ \A i \in 1..Len(s) : i \in 1..Len(Trail(t)) /\ Trail(t)[i] = s[i]
    BY <1>3, <1>4, ConcatProperties
  <2>2. \A i \in 1..Len(s) : s[i] < Expected(t)
    BY <1>0, <2>1 DEF Counted
  <2>3. \A i, j \in 1..Len(s) : i < j => s[i] < s[j]
    BY <1>0, <2>1 DEF Counted
  <2> QED
    BY <1>1, <1>2, <1>5, <1>6, <2>2, <2>3 DEF Counted
<1>7. CASE ~raced
  <2>1. t \notin queues
    BY <1>0, <1>7 DEF Ready, Insert, Inserting
  <2>2. Queued(t) = <<>>
    BY <1>0, <2>1 DEF Ready, Placed, Queued
  <2> QED
    BY <1>0, <1>1, <1>2, <1>4, <1>5, <2>2, CountedKept
<1> QED
  BY <1>6, <1>7, <1>0 DEF RestTypes

LEMMA CountedNext ==
  ASSUME ShapeInv, RestTypes, RestTypes', EachInv, [Next]_vars, NEW t \in Threads
  PROVE  Counted(t)'
<1>0. ListTypes /\ Counted(t) /\ made[t] \in Nat
  BY DEF ShapeInv, ListTypes, EachInv
<1>a. raced => raced'
  BY RacedStays
<1>1. ASSUME NEW u \in Threads, u # t, WriteLog(u) \/ Logging(u) PROVE Counted(t)'
  <2>1. /\ list'[t] = list[t] /\ taken'[t] = taken[t] /\ ppc'[t] = ppc[t] /\ made'[t] = made[t]
        /\ UNCHANGED <<batch, written>>
    BY <1>0, <1>1
    DEF WriteLog, Logging, Find, FindMisses, Lock, Insert, PutFirst, SetHeader, PutNext, Advance, Post,
        Goto, listVars, writerVars, ListTypes
  <2> QED
    BY <1>0, <1>a, <2>1, CountedKept DEF Trail, Queued, Expected, InHand
<1>2. CASE WriteLog(t)
  <2>1. /\ UNCHANGED <<list, taken, batch, written>>
        /\ made'[t] = made[t] + 1 /\ ~InHand(t) /\ InHand(t)'
    BY <1>0, <1>2 DEF WriteLog, Goto, InHand, listVars, writerVars, ListTypes
  <2> QED
    BY <1>0, <1>a, <2>1, CountedKept DEF Trail, Queued, Expected
<1>3. CASE Find(t) \/ FindMisses(t) \/ Lock(t) \/ PutFirst(t) \/ Advance(t) \/ Post(t)
  <2>1. /\ UNCHANGED <<list, taken, batch, written, made>> /\ (InHand(t)' <=> InHand(t))
    BY <1>0, <1>3
    DEF Find, FindMisses, Lock, PutFirst, Advance, Post, Goto, InHand, listVars, writerVars, ListTypes
  <2> QED
    BY <1>0, <1>a, <2>1, CountedKept DEF Trail, Queued, Expected
<1>4. CASE Insert(t)
  BY <1>4, CountedInsert
<1>5. CASE SetHeader(t) \/ PutNext(t)
  <2>1. made'[t] = made[t] /\ raced' = raced /\ InHand(t) /\ ~InHand(t)'
    BY <1>0, <1>5 DEF SetHeader, PutNext, Goto, InHand, ListTypes
  <2>2. Expected(t) = made[t] /\ Expected(t)' = made[t] + 1
    BY <2>1 DEF Expected
  <2> QED
    BY <1>0, <1>5, <2>1, <2>2, TrailPut, CountedAppend
<1>6. ASSUME NEW u \in Threads, Visit(u) PROVE Counted(t)'
  <2>1. UNCHANGED <<made, ppc, written>>
    BY <1>6 DEF Visit
  <2>2. CASE u # t
    <3>1. list'[t] = list[t] /\ taken'[t] = taken[t] /\ batch'[t] = batch[t]
      BY <1>0, <1>6, <2>2 DEF Visit, GetFront, ListTypes, RestTypes
    <3> QED
      BY <1>0, <1>a, <2>1, <3>1, CountedKept DEF Trail, Queued, Expected, InHand
  <2>3. CASE u = t
    BY <1>0, <1>a, <1>6, <2>1, <2>3, TrailVisit, CountedKept DEF Expected, InHand
  <2> QED
    BY <2>2, <2>3
<1>7. CASE Output
  <2>1. UNCHANGED <<made, ppc>>
    BY <1>7 DEF Output
  <2> QED
    BY <1>0, <1>a, <1>7, <2>1, TrailOutput, CountedKept DEF Expected, InHand
<1>8. CASE (\E u \in Threads : Overlook(u)) \/ Wait \/ Quit \/ QuitPost \/ Join \/ UNCHANGED vars
  <2>1. UNCHANGED <<list, taken, batch, written, made, ppc>>
    BY <1>8 DEF Overlook, Wait, Quit, QuitPost, QuitPosts, Join, listVars, writerVars, vars
  <2> QED
    BY <1>0, <1>a, <2>1, CountedKept DEF Trail, Queued, Expected, InHand
<1> QED
  BY <1>1, <1>2, <1>3, <1>4, <1>5, <1>6, <1>7, <1>8 DEF Next, Logging, Writer, Closing

(* A thread's logs reach the file in order and none twice, and none is       *)
(* missing from what is written, collected and queued as long as no lookup   *)
(* has run into an insertion.                                                *)
THEOREM InOrderOnce == Spec => []EachOnce
<1>1. ShapeInv /\ EachInv => EachOnce
  <2> SUFFICES ASSUME ShapeInv, EachInv, NEW t \in Threads, ~raced
               PROVE  Len(Trail(t)) = made[t] - (IF InHand(t) THEN 1 ELSE 0)
    BY DEF EachInv, Counted, EachOnce
  <2>1. made[t] \in Nat /\ Len(Trail(t)) = Expected(t) - 1
    BY DEF ShapeInv, ListTypes, EachInv, Counted
  <2> QED
    BY <2>1 DEF Expected
<1>2. ShapeInv /\ RestTypes /\ RestTypes' /\ EachInv /\ [Next]_vars => EachInv'
  BY CountedNext, ReadyNext DEF EachInv
<1> QED
  BY <1>1, <1>2, EachInit, ShapeAlways, RestAlways, PTL DEF Spec

LEMMA ConcatFacts ==
  ASSUME NEW s \in Seq(Nat), NEW q \in Seq(Nat)
  PROVE  /\ s \o q \in Seq(Nat) /\ Len(s \o q) = Len(s) + Len(q)
         /\ Len(s) \in Nat /\ Len(q) \in Nat
         /\ \A n \in 1..Len(s) : n \in 1..Len(s \o q) /\ (s \o q)[n] = s[n]
<1>1. s \o q \in Seq(Nat) /\ Len(s \o q) = Len(s) + Len(q) /\ Len(s) \in Nat /\ Len(q) \in Nat
  BY ConcatProperties
<1>2. \A n \in 1..Len(s) : n \in 1..(Len(s) + Len(q)) /\ n <= Len(s)
  BY <1>1
<1>3. \A n \in 1..(Len(s) + Len(q)) : (s \o q)[n] = IF n <= Len(s) THEN s[n] ELSE q[n - Len(s)]
  BY ConcatProperties
<1> QED
  BY <1>1, <1>2, <1>3

(* What the file holds between two rounds of the writer.                     *)
LEMMA BatchEmptied == Spec => [](wpc # "visit" => batch = NoLogs)
<1>1. Init => (wpc # "visit" => batch = NoLogs)
  BY DEF Init
<1>2. (wpc # "visit" => batch = NoLogs) /\ [Next]_vars => (wpc # "visit" => batch = NoLogs)'
  <2> SUFFICES ASSUME wpc # "visit" => batch = NoLogs, [Next]_vars, wpc' # "visit" PROVE batch' = NoLogs
    OBVIOUS
  <2>1. CASE Output
    BY <2>1 DEF Output
  <2>2. CASE ~Output
    <3>1. UNCHANGED <<wpc, batch>> \/ wpc' = "visit" \/ (wpc = "visit" /\ wpc' = wpc)
      BY <2>2 DEF Next, WriteLog, Logging, Find, FindMisses, Lock, Insert, PutFirst, SetHeader, PutNext,
         Advance, Post, Overlook, Writer, Wait, Visit, Quit, Closing, QuitPost, QuitPosts, Join, writerVars, vars
    <3> QED
      BY <3>1
  <2> QED
    BY <2>1, <2>2
<1> QED
  BY <1>1, <1>2, PTL DEF Spec

(* What AllButLastWritten needs of every state: while no lookup has run into *)
(* an insertion, the file has a thread's first logs, each in its place, and  *)
(* between two rounds of the writer all the thread has put except for one    *)
(* and one more for each wake-up still to come.  With no wake-up to come and *)
(* no log in hand, that is all but the last.                                 *)
LogsPut(t) == made[t] - (IF InHand(t) THEN 1 ELSE 0)
FileFollows ==
  ~raced => \A t \in Threads :
    /\ \A n \in 1..Len(written[t]) : written[t][n] = n
    /\ wpc # "visit" => LogsPut(t) <= Len(written[t]) + Coming(t) + 1

THEOREM AllButLastAtRest == Spec => []FileFollows
<1>1. /\ ShapeInv /\ RestTypes /\ EachInv /\ EachOnce /\ AtMostOneLate
      /\ (wpc # "visit" => batch = NoLogs)
      => FileFollows
  <2> SUFFICES ASSUME ShapeInv, RestTypes, EachInv, EachOnce, AtMostOneLate, wpc # "visit" => batch = NoLogs,
                      ~raced, NEW t \in Threads
               PROVE  /\ \A n \in 1..Len(written[t]) : written[t][n] = n
                      /\ wpc # "visit" => LogsPut(t) <= Len(written[t]) + Coming(t) + 1
    BY DEF FileFollows
  <2>1. /\ list[t] \in Seq(Nat) /\ batch[t] \in Seq(Nat) /\ written[t] \in Seq(Nat)
        /\ taken[t] => list[t] # <<>>
    BY DEF ShapeInv, ListTypes, RestTypes, EachInv, Ready
  <2>2. Queued(t) \in Seq(Nat)
    BY <2>1, HeadTailProperties DEF Queued
  <2> DEFINE s == written[t] \o batch[t]
  <2>3. /\ s \in Seq(Nat) /\ Len(s) = Len(written[t]) + Len(batch[t])
        /\ \A n \in 1..Len(written[t]) : n \in 1..Len(s) /\ s[n] = written[t][n]
    BY <2>1, ConcatFacts DEF s
  <2> HIDE DEF s
  <2>4. /\ Len(s \o Queued(t)) = Len(s) + Len(Queued(t))
        /\ \A n \in 1..Len(s) : n \in 1..Len(s \o Queued(t)) /\ (s \o Queued(t))[n] = s[n]
    BY <2>2, <2>3, ConcatFacts
  <2>5. Trail(t) = s \o Queued(t)
    BY DEF Trail, s
  <2>6. Len(written[t]) \in Nat /\ Len(batch[t]) \in Nat /\ Len(Queued(t)) \in Nat
    BY <2>1, <2>2
  <2>7. \A n \in 1..Len(written[t]) : written[t][n] = n
    <3> SUFFICES ASSUME NEW n \in 1..Len(written[t]) PROVE written[t][n] = n
      OBVIOUS
    <3>1. n \in 1..Len(s) /\ n \in 1..Len(Trail(t))
      BY <2>3, <2>4, <2>5
    <3>2. Trail(t)[n] = n
      BY <3>1 DEF EachInv, Counted
    <3> QED
      BY <2>3, <2>4, <2>5, <3>1, <3>2
  <2>8. ASSUME wpc # "visit" PROVE LogsPut(t) <= Len(written[t]) + Coming(t) + 1
    <3>1. Len(batch[t]) = 0
      BY <2>8 DEF NoLogs
    <3>2. Len(Queued(t)) <= Coming(t) + 1
      BY DEF AtMostOneLate
    <3>3. LogsPut(t) = Len(written[t]) + Len(Queued(t))
      <4>1. Len(Trail(t)) = Len(written[t]) + Len(Queued(t))
        BY <2>3, <2>4, <2>5, <2>6, <3>1
      <4>2. Len(Trail(t)) = LogsPut(t)
        BY DEF EachOnce, LogsPut
      <4> QED
        BY <4>1, <4>2
    <3>4. Coming(t) \in Nat
      BY LGAssumption DEF ShapeInv, ListTypes, Coming, ToVisit, ToPost, Threads
    <3> QED
      BY <2>6, <3>2, <3>3, <3>4
  <2> QED
    BY <2>7, <2>8
<1>2. ShapeInv /\ RestTypes /\ RestTypes' /\ EachInv /\ [Next]_vars => EachInv'
  BY CountedNext, ReadyNext DEF EachInv
<1>3. Spec => []EachInv
  BY <1>2, EachInit, ShapeAlways, RestAlways, PTL DEF Spec
<1> QED
  BY <1>1, <1>3, ShapeAlways, RestAlways, InOrderOnce, NeverTwoLate, BatchEmptied, PTL

(* The end.  From quit on nobody is about to log, the writer's last wake-up  *)
(* waits for it as long as it has not ended, and the logger is deleted only  *)
(* when it has.                                                              *)
AtRest == \A t \in Threads : ppc[t] = "idle"
HeardOf ==
  /\ mpc # "run" => ~isrun /\ AtRest
  /\ mpc = "join" => wpc \in {"visit", "ended"} \/ (wpc = "wait" /\ sem > 0)
  /\ mpc = "deleted" => wpc = "ended"

(* A quit that has begun returns: nothing comes between its sem_post and the *)
(* writer, which takes no wake-up without looking at m_isrun_ afterwards.    *)
(* After it nothing touches the deleted lists (quit, self_manager_func_ex).  *)
THEOREM QuitIsHeard == Spec => []HeardOf
<1>1. Init => HeardOf
  BY DEF Init, HeardOf
<1>2. ListTypes /\ HeardOf /\ [Next]_vars => HeardOf'
  <2> SUFFICES ASSUME ListTypes, HeardOf, [Next]_vars PROVE HeardOf'
    OBVIOUS
  <2> USE DEF HeardOf, AtRest, ListTypes
  <2>1. ASSUME NEW t \in Threads, WriteLog(t) \/ Logging(t) PROVE HeardOf'
    <3>1. mpc = "run" /\ mpc' = mpc
      BY <2>1 DEF WriteLog, Logging, Find, FindMisses, Lock, Insert, Inserting, PutFirst, SetHeader,
                  PutNext, Advance, Post
    <3> QED
      BY <3>1
  <2>2. ASSUME NEW t \in Threads, Visit(t) \/ Overlook(t) PROVE HeardOf'
    BY <2>2 DEF Visit, Overlook, GetFront, listVars
  <2>3. CASE Wait
    BY <2>3 DEF Wait
  <2>o. CASE Output
    <3>1. /\ UNCHANGED <<ppc, sem, isrun, mpc>> /\ wpc = "visit"
          /\ isrun => wpc' = "wait"
          /\ ~isrun => wpc' = "ended"
      BY Zenon, <2>o DEF Output
    <3> QED
      BY <3>1
  <2>4. CASE Quit
    BY <2>4 DEF Quit, writerVars
  <2>5. CASE QuitPost
    BY <2>5 DEF QuitPost, QuitPosts, writerVars
  <2>6. CASE Join
    BY <2>6 DEF Join, writerVars
  <2>7. CASE UNCHANGED vars
    BY <2>7 DEF vars, writerVars
  <2> QED
    BY <2>1, <2>2, <2>3, <2>o, <2>4, <2>5, <2>6, <2>7 DEF Next, Writer, Closing
<1>3. ShapeInv => ListTypes
  BY DEF ShapeInv
<1> QED
  BY <1>1, <1>2, <1>3, ShapeAlways, PTL DEF Spec

-----------------------------------------------------------------------------
(* The subscription to the logs, UdpWriter, for any clients and commands,    *)
(* whichever of the clients have the same sum of IP and port.                *)

-----------------------------------------------------------------------------
(* Whoever is in the map holds the mutex, except that the writer may be in   *)
(* it after the mutex was destroyed; by then the receiver has ended.         *)
MutexInv ==
  /\ rpc = "in" => locker = "sub_log"
  /\ uwpc = "loop" => locker \in {"write_to_sock", "destroyed"}
  /\ locker = "destroyed" => rpc = "ended"
  /\ qpc \in {"destroy", "done"} => rpc = "ended"

LEMMA MutexNext == MutexInv /\ [UdpNext]_udpVars => MutexInv'
<1> SUFFICES ASSUME MutexInv, [UdpNext]_udpVars PROVE MutexInv'
  OBVIOUS
<1> USE DEF MutexInv, recvVars, writeVars, stopVars, histVars
<1>1. CASE Tick \/ Write \/ Stop \/ UNCHANGED udpVars
  BY <1>1 DEF Tick, Write, Stop, udpVars
<1>2. ASSUME NEW c \in Clients, NEW cmd \in Commands, ClientSends(c, cmd) PROVE MutexInv'
  BY <1>2 DEF ClientSends
<1>3. CASE Loop \/ Recv \/ RecvTimeout \/ Reply
  BY <1>3 DEF Loop, Recv, RecvTimeout, Reply
<1>4. CASE LockClients
  BY <1>4 DEF LockClients, Take
<1>5. ASSUME NEW c \in Clients, NEW cmd \in Commands, Handle(c, cmd) PROVE MutexInv'
  BY <1>5 DEF Handle, Release
<1>6. CASE LockWrite \/ UnlockWrite
  BY <1>6 DEF LockWrite, UnlockWrite, Take, Release
<1>7. ASSUME NEW k \in DOMAIN clients, SendTo(k) \/ Erase(k) PROVE MutexInv'
  BY <1>7 DEF SendTo, Erase
<1>8. CASE JoinReceiver \/ Destroy
  BY <1>8 DEF JoinReceiver, Destroy
<1> QED
  BY <1>1, <1>2, <1>3, <1>4, <1>5, <1>6, <1>7, <1>8 DEF UdpNext, Receiver, Writing, Stopping

(* The mutex keeps the two threads out of each other's way also when stop    *)
(* destroys it before the logger's thread has ended.                         *)
THEOREM Excluded == UdpSpec => []MapExclusive
<1>1. UdpInit => MutexInv
  BY DEF UdpInit, MutexInv
<1>2. MutexInv => MapExclusive
  BY DEF MutexInv, MapExclusive
<1> QED
  BY <1>1, <1>2, MutexNext, PTL DEF UdpSpec

-----------------------------------------------------------------------------
(* The entries, against what the clients have asked for: an address stands   *)
(* under its own key, was not displaced, and has a time no later than the    *)
(* last command of a client with that key; a live client that was heard of   *)
(* within the limit has its own time there, or a later one.                  *)
Timed ==
  /\ now \in Nat /\ heard \in [Clients -> 0..now]
  /\ state \in [Clients -> States]
  /\ \A k \in DOMAIN clients : clients[k].ac_time \in 0..now
Owned(k) ==
  \A c \in Clients : clients[k].addr = c =>
    /\ k = Key[c] /\ state[c] \notin {"none", "displaced"}
    /\ \E d \in Clients : Key[d] = k /\ clients[k].ac_time <= heard[d]
Recent(c) ==
  state[c] = "live" /\ now - heard[c] <= Limit =>
    Key[c] \in DOMAIN clients /\ clients[Key[c]].addr = c /\ clients[Key[c]].ac_time >= heard[c]
EntryInv ==
  /\ Timed
  /\ \A k \in DOMAIN clients : Owned(k)
  /\ \A c \in Clients : Recent(c)

LEMMA EntryInit == UdpInit => EntryInv
<1> SUFFICES ASSUME UdpInit PROVE EntryInv
  OBVIOUS
<1>1. DOMAIN clients = {} /\ Limit + 1 \in Nat
  BY UWAssumption DEF UdpInit
<1> QED
  BY <1>1 DEF UdpInit, EntryInv, Timed, Recent, Owned, States

(* A command writes the entry under its sender's key.                        *)
LEMMA EntryHandle ==
  ASSUME EntryInv, NEW c \in Clients, NEW cmd \in Commands, Handle(c, cmd)
  PROVE  EntryInv'
<1> DEFINE e == Entry(c, cmd)
<1>1. /\ clients' = Put(Key[c], e) /\ now' = now
      /\ heard' = [heard EXCEPT ![c] = now]
      /\ state' = [d \in Clients |-> IF d = c THEN After(c, cmd)
                                   ELSE IF Takes(c, cmd, d) THEN "displaced" ELSE state[d]]
  BY DEF Handle
<1>2. Timed
  BY DEF EntryInv
<1>3. e.ac_time \in 0..now /\ (e.addr = c \/ e.addr = AddrAt(Key[c]))
  BY <1>2 DEF Entry, Timed
<1>4. cmd = "S" => e.addr = c /\ e.ac_time = now
  BY DEF Entry
<1>5. cmd = "keep" => e.addr = AddrAt(Key[c]) /\ e.ac_time = now
  BY DEF Entry
<1>e. cmd # "keep" => e.addr = c
  BY DEF Entry, Commands
<1> HIDE DEF e
<1>6. /\ DOMAIN clients' = DOMAIN clients \cup {Key[c]} /\ clients'[Key[c]] = e
      /\ \A k \in DOMAIN clients : k # Key[c] => clients'[k] = clients[k]
  BY <1>1 DEF Put
<1>7. /\ heard'[c] = now /\ \A d \in Clients : d # c => heard'[d] = heard[d]
      /\ state'[c] = After(c, cmd)
  BY <1>1, <1>2 DEF Timed
<1>t. \A d \in Clients : d # c => state'[d] = IF Takes(c, cmd, d) THEN "displaced" ELSE state[d]
  BY <1>1
<1>8. Timed'
  <2>1. After(c, cmd) \in States
    BY <1>2 DEF After, Timed, States
  <2>2. state' \in [Clients -> States]
    BY <1>1, <1>2, <2>1 DEF Timed, States
  <2>3. heard' \in [Clients -> 0..now'] /\ now' \in Nat
    BY <1>1, <1>2 DEF Timed
  <2>4. \A k \in DOMAIN clients' : clients'[k].ac_time \in 0..now'
    BY <1>1, <1>2, <1>3, <1>6 DEF Timed
  <2> QED
    BY <2>2, <2>3, <2>4 DEF Timed
<1>9. ASSUME NEW k \in DOMAIN clients' PROVE Owned(k)'
  <2> SUFFICES ASSUME NEW d \in Clients, clients'[k].addr = d
               PROVE  /\ k = Key[d] /\ state'[d] \notin {"none", "displaced"}
                      /\ \E h \in Clients : Key[h] = k /\ clients'[k].ac_time <= heard'[h]
    BY DEF Owned
  <2>1. CASE k = Key[c]
    <3>1. e.addr = d /\ clients'[k].ac_time <= heard'[c]
      BY <1>2, <1>3, <1>6, <1>7, <2>1 DEF Timed
    <3>2. CASE d = c
      <4>1. CASE cmd = "keep"
        <5>1. AddrAt(Key[c]) = c /\ c # NoAddr
          BY <1>5, <3>1, <3>2, <4>1, NoAddrAssumption
        <5>2. Key[c] \in DOMAIN clients /\ clients[Key[c]].addr = c
          BY <5>1 DEF AddrAt
        <5>3. state[c] \notin {"none", "displaced"}
          BY <5>2 DEF EntryInv, Owned
        <5>4. After(c, cmd) \in {"lapsed", state[c]}
          BY <4>1 DEF After
        <5> QED
          BY <1>7, <2>1, <3>1, <3>2, <5>3, <5>4
      <4>2. CASE cmd # "keep"
        <5>1. After(c, cmd) \in {"live", "cancelled"}
          BY <4>2 DEF After, Commands
        <5> QED
          BY <1>7, <2>1, <3>1, <3>2, <5>1
      <4> QED
        BY <4>1, <4>2
    <3>3. CASE d # c
      <4>1. cmd = "keep" /\ AddrAt(Key[c]) = d /\ d # NoAddr
        BY <1>5, <1>e, <3>1, <3>3, NoAddrAssumption
      <4>2. Key[c] \in DOMAIN clients /\ clients[Key[c]].addr = d
        BY <4>1 DEF AddrAt
      <4>3. Key[c] = Key[d] /\ state[d] \notin {"none", "displaced"}
        BY <4>2 DEF EntryInv, Owned
      <4>4. state'[d] = state[d]
        BY <1>t, <3>3, <4>1 DEF Takes
      <4> QED
        BY <2>1, <3>1, <4>3, <4>4
    <3> QED
      BY <3>2, <3>3
  <2>2. CASE k # Key[c]
    <3>1. k \in DOMAIN clients /\ clients'[k] = clients[k]
      BY <1>6, <2>2
    <3>2. k = Key[d] /\ state[d] \notin {"none", "displaced"}
      BY <3>1 DEF EntryInv, Owned
    <3>3. PICK h \in Clients : Key[h] = k /\ clients[k].ac_time <= heard[h]
      BY <3>1 DEF EntryInv, Owned
    <3>4. d # c /\ h # c
      BY <2>2, <3>2, <3>3
    <3>5. state'[d] = state[d]
      BY <1>t, <2>2, <3>2, <3>4 DEF Takes
    <3> QED
      BY <1>7, <3>1, <3>2, <3>3, <3>4, <3>5
  <2> QED
    BY <2>1, <2>2
<1>10. ASSUME NEW d \in Clients PROVE Recent(d)'
  <2>1. CASE d = c
    <3> SUFFICES ASSUME After(c, cmd) = "live"
                 PROVE  Key[c] \in DOMAIN clients' /\ e.addr = c /\ e.ac_time >= now
      BY <1>6, <1>7, <2>1 DEF Recent
    <3>n. now \in Nat
      BY <1>2 DEF Timed
    <3>1. CASE cmd = "S"
      BY <1>4, <1>6, <3>1, <3>n
    <3>2. CASE cmd = "keep"
      <4>1. state[c] = "live" /\ ~(now - heard[c] > Limit)
        BY <3>2 DEF After
      <4>2. now - heard[c] <= Limit
        BY <1>2, <4>1, UWAssumption DEF Timed
      <4>3. Key[c] \in DOMAIN clients /\ clients[Key[c]].addr = c
        BY <4>1, <4>2 DEF EntryInv, Recent
      <4> QED
        BY <1>5, <1>6, <3>2, <3>n, <4>3 DEF AddrAt
    <3> QED
      BY <3>1, <3>2 DEF After, Commands
  <2>2. CASE d # c
    <3> SUFFICES ASSUME state'[d] = "live", now - heard[d] <= Limit
                 PROVE  /\ Key[d] \in DOMAIN clients' /\ clients'[Key[d]].addr = d
                        /\ clients'[Key[d]].ac_time >= heard[d]
      BY <1>1, <1>7, <2>2 DEF Recent
    <3>1. state[d] = "live" /\ ~Takes(c, cmd, d)
      BY <1>t, <2>2
    <3>2. /\ Key[d] \in DOMAIN clients /\ clients[Key[d]].addr = d
          /\ clients[Key[d]].ac_time >= heard[d]
      BY <3>1 DEF EntryInv, Recent
    <3>3. CASE Key[d] # Key[c]
      BY <1>6, <3>2, <3>3
    <3>4. CASE Key[d] = Key[c]
      <4>1. cmd = "keep"
        BY <2>2, <3>1, <3>4 DEF Takes
      <4>2. e.addr = d /\ e.ac_time = now
        BY <1>5, <3>2, <3>4, <4>1 DEF AddrAt
      <4>3. now >= heard[d]
        BY <1>2 DEF Timed
      <4> QED
        BY <1>6, <3>4, <4>2, <4>3
    <3> QED
      BY <3>3, <3>4
  <2> QED
    BY <2>1, <2>2
<1> QED
  BY <1>8, <1>9, <1>10 DEF EntryInv

(* Only expired entries are erased.                                          *)
LEMMA EntryErase ==
  ASSUME EntryInv, NEW k \in DOMAIN clients, Erase(k)
  PROVE  EntryInv'
<1>1. /\ clients' = [x \in DOMAIN clients \ {k} |-> clients[x]]
      /\ now' = now /\ heard' = heard /\ state' = state /\ now - clients[k].ac_time > Limit
  BY DEF Erase, Expired, histVars
<1>2. ASSUME NEW x \in DOMAIN clients' PROVE Owned(x)' /\ clients'[x].ac_time \in 0..now'
  BY <1>1, <1>2 DEF EntryInv, Owned, Timed
<1>3. ASSUME NEW c \in Clients PROVE Recent(c)'
  <2> SUFFICES ASSUME state[c] = "live", now - heard[c] <= Limit
               PROVE  /\ Key[c] \in DOMAIN clients' /\ clients'[Key[c]].addr = c
                      /\ clients'[Key[c]].ac_time >= heard[c]
    BY <1>1 DEF Recent
  <2>1. Key[c] \in DOMAIN clients /\ clients[Key[c]].addr = c /\ clients[Key[c]].ac_time >= heard[c]
    BY DEF EntryInv, Recent
  <2>2. Key[c] # k
    BY <1>1, <2>1, UWAssumption DEF EntryInv, Timed
  <2> QED
    BY <1>1, <2>1, <2>2
<1> QED
  BY <1>1, <1>2, <1>3 DEF EntryInv, Timed

LEMMA EntryNext ==
  ASSUME EntryInv, [UdpNext]_udpVars
  PROVE  EntryInv'
<1>1. CASE Tick
  <2>1. now' = now + 1 /\ UNCHANGED <<clients, heard, state>>
    BY <1>1 DEF Tick, histVars
  <2>2. ASSUME NEW c \in Clients PROVE Recent(c)'
    BY <2>1, UWAssumption DEF EntryInv, Timed, Recent
  <2> QED
    BY <2>1, <2>2 DEF EntryInv, Timed, Owned
<1>2. ASSUME NEW c \in Clients, NEW cmd \in Commands, Handle(c, cmd) PROVE EntryInv'
  BY <1>2, EntryHandle
<1>3. ASSUME NEW k \in DOMAIN clients, Erase(k) PROVE EntryInv'
  BY <1>3, EntryErase
<1>4. ASSUME UNCHANGED <<clients, now, heard, state>> PROVE EntryInv'
  BY <1>4 DEF EntryInv, Timed, Owned, Recent
<1>5. CASE \/ \E c \in Clients, cmd \in Commands : ClientSends(c, cmd)
           \/ Loop \/ Recv \/ RecvTimeout \/ LockClients \/ Reply \/ Write \/ LockWrite \/ UnlockWrite
           \/ (\E k \in DOMAIN clients : SendTo(k)) \/ Stop \/ JoinReceiver \/ Destroy
           \/ UNCHANGED udpVars
  BY <1>4, <1>5
  DEF ClientSends, Loop, Recv, RecvTimeout, LockClients, Reply, Write, LockWrite, UnlockWrite,
      SendTo, Stop, JoinReceiver, Destroy, udpVars, histVars
<1> QED
  BY <1>1, <1>2, <1>3, <1>5 DEF UdpNext, Receiver, Writing, Stopping

LEMMA EntryAlways == UdpSpec => []EntryInv
<1>1. EntryInv /\ [UdpNext]_udpVars => EntryInv'
  BY EntryNext
<1> QED
  BY <1>1, EntryInit, PTL DEF UdpSpec

(* Whatever commands arrive, in whatever order and however often: a client   *)
(* that subscribed and keeps its subscription alive stays in the map until   *)
(* it cancels, or a client with the same sum of IP and port takes its entry  *)
(* by an S or an E.  A keep alive of such a client takes nothing.            *)
THEOREM LiveStay == UdpSpec => []KeepsLive
<1>1. EntryInv => KeepsLive
  BY DEF EntryInv, Recent, KeepsLive, Holds
<1> QED
  BY <1>1, EntryAlways, PTL

LEMMA SentOnly ==
  ASSUME [UdpNext]_udpVars, ~UnlockWrite, ~\E k \in DOMAIN clients : SendTo(k)
  PROVE  sent' = sent
BY DEF UdpNext, Receiver, Writing, Stopping, Tick, ClientSends, Loop, Recv, RecvTimeout, LockClients,
       Reply, Handle, Write, LockWrite, Erase, Stop, JoinReceiver, Destroy, udpVars, writeVars

SentTypes == sent \in [Clients -> Nat]

LEMMA SentAlways == UdpSpec => []SentTypes
<1>1. UdpInit => SentTypes
  BY DEF UdpInit, SentTypes
<1>2. SentTypes /\ [UdpNext]_udpVars => SentTypes'
  <2> SUFFICES ASSUME sent \in [Clients -> Nat], [UdpNext]_udpVars PROVE sent' \in [Clients -> Nat]
    BY DEF SentTypes
  <2>1. ASSUME NEW k \in DOMAIN clients, SendTo(k) PROVE sent' \in [Clients -> Nat]
    BY <2>1 DEF SendTo
  <2>2. CASE UnlockWrite
    BY <2>2 DEF UnlockWrite
  <2>3. ASSUME ~UnlockWrite, ~\E k \in DOMAIN clients : SendTo(k) PROVE sent' = sent
    BY <2>3, SentOnly
  <2> QED
    BY <2>1, <2>2, <2>3
<1> QED
  BY <1>1, <1>2, PTL DEF UdpSpec

(* Nothing is sent to a client whose entry was taken, nor to one of whose    *)
(* key no command has come for longer than the limit, wherever the erasures  *)
(* let the iteration jump.                                                   *)
THEOREM SilentAreDropped == UdpSpec => SilentDropped
<1>1. ASSUME EntryInv, SentTypes, [UdpNext]_udpVars
      PROVE  [\A c \in Clients : sent'[c] > sent[c] =>
                HeardAt(Key[c]) /\ state[c] \notin {"none", "displaced"}]_udpVars
  <2> SUFFICES ASSUME NEW c \in Clients, sent'[c] > sent[c]
               PROVE  HeardAt(Key[c]) /\ state[c] \notin {"none", "displaced"}
    OBVIOUS
  <2>0. sent[c] \in Nat /\ sent'[c] # sent[c]
    BY <1>1 DEF SentTypes
  <2>1. CASE UnlockWrite
    <3>1. sent'[c] = 0
      BY <2>1 DEF UnlockWrite
    <3> QED
      BY <2>0, <3>1
  <2>2. ASSUME NEW k \in DOMAIN clients, SendTo(k)
        PROVE  HeardAt(Key[c]) /\ state[c] \notin {"none", "displaced"}
    <3>1. clients[k].addr = c
      BY <2>0, <2>2 DEF SendTo
    <3>2. k = Key[c] /\ state[c] \notin {"none", "displaced"}
      BY <1>1, <2>2, <3>1 DEF EntryInv, Owned
    <3>3. PICK d \in Clients : Key[d] = k /\ clients[k].ac_time <= heard[d]
      BY <1>1, <2>2, <3>1 DEF EntryInv, Owned
    <3>4. ~(now - clients[k].ac_time > Limit)
      BY <2>2 DEF SendTo, Expired
    <3>5. now - heard[d] <= Limit
      BY <1>1, <2>2, <3>3, <3>4, UWAssumption DEF EntryInv, Timed
    <3> QED
      BY <3>2, <3>3, <3>5 DEF HeardAt
  <2>3. CASE ~UnlockWrite /\ ~\E k \in DOMAIN clients : SendTo(k)
    BY <1>1, <2>0, <2>3, SentOnly
  <2> QED
    BY <2>1, <2>2, <2>3
<1> QED
  BY <1>1, EntryAlways, SentAlways, PTL DEF UdpSpec, SilentDropped
-----------------------------------------------------------------------------
(* Types: an entry is an address or none, and a time that has passed.        *)
EntryTypes ==
  /\ DOMAIN clients \subseteq Keys
  /\ \A k \in DOMAIN clients :
       clients[k].addr \in Clients \cup {NoAddr} /\ clients[k].ac_time \in 0..now
  /\ now \in Nat /\ heard \in [Clients -> 0..now]
  /\ state \in [Clients -> States]
UdpTypes ==
  /\ locker \in {"free", "sub_log", "write_to_sock", "destroyed"}
  /\ net \subseteq Clients \X Commands /\ sends \in 0..MaxSends
  /\ rpc \in {"loop", "recv", "lock", "in", "reply", "ended"}
  /\ rpc \in {"lock", "in", "reply"} => dgram \in Clients \X Commands
  /\ uwpc \in {"idle", "lock", "loop", "crashed"}
  /\ atKey \in Nat /\ sent \in [Clients -> Nat] /\ writes \in 0..MaxWrites
  /\ m_run_ \in BOOLEAN /\ qpc \in {"run", "join", "destroy", "done"}

LEMMA SubscriptionTypesInit == UdpInit => EntryTypes /\ UdpTypes
<1> SUFFICES ASSUME UdpInit PROVE EntryTypes /\ UdpTypes
  OBVIOUS
<1>1. DOMAIN clients = {} /\ now \in Nat /\ 0 \in 0..now
  BY UWAssumption DEF UdpInit
<1>2. heard \in [Clients -> 0..now]
  BY <1>1 DEF UdpInit
<1>3. EntryTypes
  BY <1>1, <1>2 DEF UdpInit, EntryTypes, States
<1>4. net \subseteq Clients \X Commands /\ sends \in 0..MaxSends /\ writes \in 0..MaxWrites
  BY UWAssumption DEF UdpInit
<1>5. sent \in [Clients -> Nat]
  BY DEF UdpInit
<1>6. rpc \in {"loop", "ended"} /\ locker \in {"free", "destroyed"} /\ m_run_ \in BOOLEAN
  BY DEF UdpInit
<1>7. UdpTypes
  BY <1>4, <1>5, <1>6 DEF UdpInit, UdpTypes
<1> QED
  BY <1>3, <1>7

LEMMA EntryTypesNext == EntryTypes /\ [UdpNext]_udpVars => EntryTypes'
<1> SUFFICES ASSUME EntryTypes, [UdpNext]_udpVars PROVE EntryTypes'
  OBVIOUS
<1> USE DEF EntryTypes
<1>1. CASE Tick
  BY <1>1 DEF Tick, histVars
<1>2. ASSUME NEW c \in Clients, NEW cmd \in Commands, Handle(c, cmd) PROVE EntryTypes'
  <2> DEFINE e == Entry(c, cmd)
  <2>1. /\ clients' = Put(Key[c], e) /\ now' = now
        /\ heard' = [heard EXCEPT ![c] = now]
        /\ state' = [d \in Clients |-> IF d = c THEN After(c, cmd)
                                     ELSE IF Takes(c, cmd, d) THEN "displaced" ELSE state[d]]
    BY <1>2 DEF Handle
  <2>2. AddrAt(Key[c]) \in Clients \cup {NoAddr}
    BY DEF AddrAt
  <2>3. e.addr \in Clients \cup {NoAddr} /\ e.ac_time \in 0..now
    BY <2>2 DEF Entry
  <2> HIDE DEF e
  <2>4. /\ DOMAIN clients' = DOMAIN clients \cup {Key[c]} /\ clients'[Key[c]] = e
        /\ \A k \in DOMAIN clients : k # Key[c] => clients'[k] = clients[k]
    BY <2>1 DEF Put
  <2>5. Key[c] \in Keys
    BY DEF Keys
  <2>6. After(c, cmd) \in States
    BY DEF After, States
  <2>7. heard' \in [Clients -> 0..now'] /\ now' \in Nat
    BY <2>1
  <2>8. state' \in [Clients -> States]
    BY <2>1, <2>6 DEF States
  <2>9. \A k \in DOMAIN clients' :
          clients'[k].addr \in Clients \cup {NoAddr} /\ clients'[k].ac_time \in 0..now'
    BY <2>1, <2>3, <2>4
  <2> QED
    BY <2>4, <2>5, <2>7, <2>8, <2>9
<1>3. ASSUME NEW k \in DOMAIN clients, Erase(k) PROVE EntryTypes'
  BY <1>3 DEF Erase, histVars
<1>4. ASSUME UNCHANGED <<clients, now, heard, state>> PROVE EntryTypes'
  BY <1>4
<1>5. CASE \/ \E c \in Clients, cmd \in Commands : ClientSends(c, cmd)
           \/ Loop \/ Recv \/ RecvTimeout \/ LockClients \/ Reply \/ Write \/ LockWrite \/ UnlockWrite
           \/ (\E k \in DOMAIN clients : SendTo(k)) \/ Stop \/ JoinReceiver \/ Destroy
           \/ UNCHANGED udpVars
  BY <1>4, <1>5
  DEF ClientSends, Loop, Recv, RecvTimeout, LockClients, Reply, Write, LockWrite, UnlockWrite,
      SendTo, Stop, JoinReceiver, Destroy, udpVars, histVars
<1> QED
  BY <1>1, <1>2, <1>3, <1>5 DEF UdpNext, Receiver, Writing, Stopping

LEMMA KeysAreNumbers == \A k \in {0} \cup Keys : k \in Nat
<1>1. \A c \in Clients : Key[c] \in Nat
  BY UWAssumption
<1> QED
  BY <1>1 DEF Keys

LEMMA UdpTypesNext == EntryTypes /\ UdpTypes /\ [UdpNext]_udpVars => UdpTypes'
<1> SUFFICES ASSUME EntryTypes, UdpTypes, [UdpNext]_udpVars PROVE UdpTypes'
  OBVIOUS
<1> USE DEF UdpTypes, recvVars, writeVars, stopVars
<1>1. CASE Tick \/ UNCHANGED udpVars
  BY <1>1 DEF Tick, udpVars
<1>12. CASE Stop
  BY <1>12 DEF Stop
<1>2. CASE Write
  BY <1>2, UWAssumption DEF Write
<1>3. ASSUME NEW c \in Clients, NEW cmd \in Commands, ClientSends(c, cmd) PROVE UdpTypes'
  BY <1>3, UWAssumption DEF ClientSends
<1>4. CASE Loop \/ RecvTimeout \/ Reply
  BY <1>4 DEF Loop, RecvTimeout, Reply
<1>5. CASE Recv
  <2>1. dgram' \in Clients \X Commands /\ net' \subseteq Clients \X Commands
    BY <1>5 DEF Recv
  <2> QED
    BY <1>5, <2>1 DEF Recv
<1>6. CASE LockClients
  BY <1>6 DEF LockClients, Take
<1>7. ASSUME NEW c \in Clients, NEW cmd \in Commands, Handle(c, cmd) PROVE UdpTypes'
  BY <1>7 DEF Handle, Release
<1>8. CASE LockWrite
  BY <1>8 DEF LockWrite, Take
<1>9. CASE UnlockWrite
  BY <1>9 DEF UnlockWrite, Release
<1>10. ASSUME NEW k \in DOMAIN clients, SendTo(k) \/ Erase(k) PROVE UdpTypes'
  <2>1. k \in Nat
    BY KeysAreNumbers DEF EntryTypes
  <2>2. CASE SendTo(k)
    <3>1. sent' \in [Clients -> Nat]
      BY <2>2 DEF SendTo
    <3> QED
      BY <2>1, <2>2, <3>1 DEF SendTo
  <2>3. CASE Erase(k)
    <3>1. UNCHANGED <<locker, net, sends, rpc, dgram, sent, writes, m_run_, qpc>>
      BY <2>3 DEF Erase
    <3>2. \/ atKey' \in {0} \cup Keys /\ uwpc' = "loop"
          \/ atKey' = atKey /\ uwpc' = "crashed"
      BY <2>3 DEF Erase
    <3>3. atKey' \in Nat
      <4>1. CASE atKey' \in {0} \cup Keys
        BY <4>1, KeysAreNumbers
      <4>2. CASE atKey' = atKey
        BY <4>2
      <4> QED
        BY <3>2, <4>1, <4>2
    <3> QED
      BY <3>1, <3>2, <3>3
  <2> QED
    BY <1>10, <2>2, <2>3
<1>11. CASE JoinReceiver \/ Destroy
  BY <1>11 DEF JoinReceiver, Destroy
<1> QED
  BY <1>1, <1>12, <1>2, <1>3, <1>4, <1>5, <1>6, <1>7, <1>8, <1>9, <1>10, <1>11
  DEF UdpNext, Receiver, Writing, Stopping

(* The map holds only addresses of clients under their keys, with times that *)
(* have passed, whatever the threads do and wherever an iteration jumps.     *)
THEOREM SubscriptionTypes == UdpSpec => []UdpTypeOK
<1>1. EntryTypes /\ UdpTypes => UdpTypeOK
  BY DEF EntryTypes, UdpTypes, UdpTypeOK
<1> QED
  BY <1>1, SubscriptionTypesInit, EntryTypesNext, UdpTypesNext, PTL DEF UdpSpec

-----------------------------------------------------------------------------
(* Who waits for whom.  As long as the program has not crashed the mutex is  *)
(* held by a thread that is in the map and can go on, and a receiver that    *)
(* stop waits for is to end.                                                 *)
Kept ==
  /\ Alive /\ locker = "sub_log" => rpc = "in"
  /\ Alive /\ locker = "write_to_sock" => uwpc = "loop"
  /\ qpc # "run" => ~m_run_
ReceiverGoesOn ==
  \/ rpc \in {"loop", "recv", "reply"}
  \/ rpc = "in" /\ dgram \in Clients \X Commands
  \/ rpc = "lock" /\ (locker = "free" \/ uwpc = "loop")
WriterGoesOn == uwpc = "lock" => locker \in {"free", "destroyed"} \/ rpc = "in"
NobodyBlocks ==
  Alive => WriterGoesOn /\ (qpc = "join" => ~m_run_ /\ (rpc = "ended" \/ ReceiverGoesOn))

LEMMA KeptNext == EntryTypes /\ UdpTypes /\ MutexInv /\ Kept /\ [UdpNext]_udpVars => Kept'
<1> SUFFICES ASSUME EntryTypes, UdpTypes, MutexInv, Kept, [UdpNext]_udpVars PROVE Kept'
  OBVIOUS
<1> USE DEF Kept, MutexInv, Alive, UdpTypes, recvVars, writeVars, stopVars, histVars
<1>1. CASE Tick \/ Write \/ Stop \/ UNCHANGED udpVars
  BY <1>1 DEF Tick, Write, Stop, udpVars
<1>2. ASSUME NEW c \in Clients, NEW cmd \in Commands, ClientSends(c, cmd) PROVE Kept'
  BY <1>2 DEF ClientSends
<1>3. CASE Loop \/ Recv \/ RecvTimeout \/ Reply
  BY <1>3 DEF Loop, Recv, RecvTimeout, Reply
<1>4. CASE LockClients
  BY <1>4 DEF LockClients, Take
<1>5. ASSUME NEW c \in Clients, NEW cmd \in Commands, Handle(c, cmd) PROVE Kept'
  BY <1>5 DEF Handle, Release
<1>6. CASE LockWrite \/ UnlockWrite
  BY <1>6 DEF LockWrite, UnlockWrite, Take, Release
<1>7. ASSUME NEW k \in DOMAIN clients, SendTo(k) \/ Erase(k) PROVE Kept'
  BY <1>7 DEF SendTo, Erase
<1>8. CASE JoinReceiver \/ Destroy
  BY <1>8 DEF JoinReceiver, Destroy
<1> QED
  BY <1>1, <1>2, <1>3, <1>4, <1>5, <1>6, <1>7, <1>8 DEF UdpNext, Receiver, Writing, Stopping

(* Unless the writer's iteration crashes the program, neither thread waits   *)
(* for a mutex that nobody is about to release, whatever stop destroys, and  *)
(* stop never waits for a receiver that is to go on receiving (stop,         *)
(* sub_log, write_to_sock).                                                  *)
THEOREM StopIsNotBlocked == UdpSpec => []NobodyBlocks
<1>1. UdpInit => MutexInv /\ Kept
  BY DEF UdpInit, MutexInv, Kept
<1>2. MutexInv /\ Kept /\ EntryTypes /\ UdpTypes /\ UdpTypeOK => NobodyBlocks
  BY DEF MutexInv, Kept, UdpTypeOK, NobodyBlocks, ReceiverGoesOn, WriterGoesOn
<1> QED
  BY <1>1, <1>2, KeptNext, MutexNext, SubscriptionTypesInit, EntryTypesNext, UdpTypesNext,
     SubscriptionTypes, PTL DEF UdpSpec
=============================================================================
