------------------------ MODULE CloudStorage_proofs -------------------------
(***************************************************************************)
(* Proofs about CloudStorage for any number of uploads, clicks, failures   *)
(* and restarts: what is listed is complete, being saved or cut short; the *)
(* list is newest first; no click is lost that a readable page led to; an  *)
(* undisturbed upload arrives.                                             *)
(***************************************************************************)
EXTENDS CloudStorage, SequenceTheorems, TLAPS

-----------------------------------------------------------------------------
(* The two orders name the same seven hashes; the counter is the fourth to   *)
(* be set and the sixth to be read.                                          *)
LEMMA StoredOrder ==
  /\ Len(Stored) = 7
  /\ \A j \in 1..7 : Stored[j] \in Hashes /\ (Stored[j] = "PV" <=> j = 4)
  /\ \A h \in Hashes : \E j \in 1..7 : Stored[j] = h
<1>1. Len(Stored) = 7
  BY DEF Stored
<1>2. /\ Stored[1] = "NAME" /\ Stored[2] = "TIME" /\ Stored[3] = "USER" /\ Stored[4] = "PV"
      /\ Stored[5] = "TYPE" /\ Stored[6] = "URL" /\ Stored[7] = "SHARED"
  BY DEF Stored
<1>3. \A j \in 1..7 : j = 1 \/ j = 2 \/ j = 3 \/ j = 4 \/ j = 5 \/ j = 6 \/ j = 7
  OBVIOUS
<1>4. \A j \in 1..7 : Stored[j] \in Hashes /\ (Stored[j] = "PV" <=> j = 4)
  BY <1>2, <1>3 DEF Hashes
<1>5. \A h \in Hashes : \E j \in 1..7 : Stored[j] = h
  BY <1>2 DEF Hashes
<1>. QED
  BY <1>1, <1>4, <1>5

LEMMA IdsAreNumbers == NoId = 0 /\ FileIds \subseteq Nat
BY CSAssumption DEF NoId, FileIds, Files

LEMMA ReadOrder == Len(Read) = 7 /\ Read[6] = "PV"
BY DEF Read

-----------------------------------------------------------------------------
(* Types, as far as the proofs need them.                                    *)
Kinds ==
  /\ uploads \in Nat /\ tmp \in [Names -> Nat] /\ filename \in Names
  /\ list \in Seq(FileIds) /\ has \in [FileIds -> SUBSET Hashes]
  /\ pv \in [FileIds -> Nat] /\ clicks \in [FileIds -> Nat]
  /\ upc \in {"accept", "fdfs", "connect", "push", "hset", "dead"}
  /\ file_id \in FileIds /\ at \in 0..7
  /\ ids \in Seq(FileIds) /\ got \in Nat
  /\ uploads <= MaxUploads

(* The temporary file of the request at hand is the last upload's.           *)
Handed ==
  /\ upc = "fdfs" => file_id = NoId /\ tmp[filename] = uploads /\ uploads > 0
  /\ upc \in {"fdfs", "connect", "push"} => at = 0
  /\ upc \in {"connect", "push", "hset"} => file_id \in {NoId, uploads} /\ uploads > 0

(* What the current save has set so far.                                     *)
Progress ==
  upc = "hset" => file_id \in cut \/ \A j \in 1..at : Stored[j] \in has[file_id]

(* The list holds uploads so far, and not yet the one about to be listed.    *)
Fresh ==
  \A k \in DOMAIN list :
    list[k] <= uploads /\ (upc \in {"fdfs", "connect", "push"} => list[k] < uploads)

SaveInv == Kinds /\ Handed /\ Progress /\ ListedComplete /\ Fresh /\ NewestFirst

(* A page of the list is a list of ids.                                      *)
LEMMA PageIds ==
  ASSUME Kinds, NEW from \in Nat
  PROVE  Page(from) \in Seq(FileIds)
<1>. DEFINE m == from + 1
            n == IF from + Count < Len(list) THEN from + Count ELSE Len(list)
<1>1. m \in Int /\ n \in Int /\ m >= 1 /\ n <= Len(list)
  BY CSAssumption DEF Kinds
<1>2. \A i \in m..n : list[i] \in FileIds
  BY <1>1 DEF Kinds
<1>. HIDE DEF m, n
<1>3. SubSeq(list, m, n) \in Seq(FileIds)
  BY <1>1, <1>2, SubSeqProperties
<1>. QED
  BY <1>3 DEF Page, m, n

(* Putting an id at the head of the list.                                    *)
LEMMA Pushed ==
  ASSUME Kinds
  PROVE  LET new == <<file_id>> \o list IN
         /\ new \in Seq(FileIds) /\ Len(new) = Len(list) + 1
         /\ new[1] = file_id /\ \A k \in 2..(Len(list) + 1) : new[k] = list[k - 1]
<1>1. <<file_id>> \in Seq(FileIds) /\ Len(<<file_id>>) = 1 /\ <<file_id>>[1] = file_id
  BY DEF Kinds
<1>. QED
  BY <1>1, ConcatProperties DEF Kinds

(* Steps of data_cgi leave upload_cgi alone, and the hashes only grow.       *)
DataStep ==
  /\ UNCHANGED <<uploads, tmp, fdfs, upc, filename, file_id, at, list, cut>>
  /\ has' \in [FileIds -> SUBSET Hashes] /\ \A id \in FileIds : has[id] \subseteq has'[id]
  /\ pv' \in [FileIds -> Nat] /\ clicks' \in [FileIds -> Nat]
  /\ ids' \in Seq(FileIds) /\ got' \in Nat

(* The last save's hashes are never mistaken for a complete set, the list    *)
(* never for a newer one: every step keeps SaveInv.                          *)
LEMMA SaveInitial == Init => SaveInv
<1>. SUFFICES ASSUME Init PROVE SaveInv
  OBVIOUS
<1>1. Kinds
  BY CSAssumption DEF Init, Kinds, FileIds, NoId
<1>2. Len(list) = 0
  BY DEF Init
<1>. QED
  BY <1>1, <1>2 DEF Init, SaveInv, Handed, Progress, ListedComplete, Fresh, NewestFirst

(* What SetHash does to one hash of the file being saved.                    *)
LEMMA HashStep ==
  ASSUME Kinds, NEW h \in Hashes, SetHash(h)
  PROVE  /\ has' \in [FileIds -> SUBSET Hashes] /\ pv' \in [FileIds -> Nat]
         /\ has'[file_id] = has[file_id] \cup {h}
         /\ \A id \in FileIds : has[id] \subseteq has'[id]
         /\ \A id \in FileIds : id # file_id => has'[id] = has[id] /\ pv'[id] = pv[id]
         /\ h # "PV" => pv' = pv
         /\ h = "PV" => pv'[file_id] = 0
BY DEF Kinds, SetHash

-----------------------------------------------------------------------------
LEMMA DataSteps ==
  ASSUME Kinds,
         \/ \E from \in 0..(MaxUploads - 1) : RangeList(from)
         \/ SelectFiles
         \/ \E id \in FileIds : IncreasePv(id)
  PROVE  DataStep
<1>. USE DEF DataStep, Kinds, uploadVars, redisVars
<1>1. ASSUME NEW from \in 0..(MaxUploads - 1), RangeList(from) PROVE DataStep
  <2>1. Page(from) \in Seq(FileIds)
    BY PageIds, CSAssumption
  <2>. QED
    BY <1>1, <2>1 DEF RangeList
<1>2. CASE RangeCrashes
  BY <1>2 DEF RangeCrashes
<1>3. CASE HashGet
  BY <1>3 DEF HashGet
<1>4. CASE HashGetFails
  BY <1>4 DEF HashGetFails
<1>5. CASE Reply
  <2>1. ids' \in Seq(FileIds) /\ got' \in Nat
    BY <1>5 DEF Reply
  <2>. QED
    BY <1>5, <2>1 DEF Reply
<1>6. ASSUME NEW id \in FileIds, IncreasePv(id) PROVE DataStep
  <2>1. /\ has' \in [FileIds -> SUBSET Hashes]
        /\ \A i \in FileIds : has[i] \subseteq has'[i]
    BY <1>6 DEF IncreasePv, Hashes
  <2>2. pv' \in [FileIds -> Nat] /\ clicks' \in [FileIds -> Nat]
    BY <1>6 DEF IncreasePv
  <2>. QED
    BY <1>6, <2>1, <2>2 DEF IncreasePv
<1>. QED
  BY <1>1, <1>2, <1>3, <1>4, <1>5, <1>6 DEF SelectFiles

LEMMA SaveUnderData ==
  ASSUME SaveInv, DataStep
  PROVE  SaveInv'
<1>1. Kinds' /\ Handed' /\ Fresh' /\ NewestFirst'
  BY DEF SaveInv, DataStep, Kinds, Handed, Fresh, NewestFirst
<1>2. Progress'
  BY DEF SaveInv, DataStep, Kinds, Progress
<1>3. ListedComplete'
  <2>1. ASSUME NEW k \in DOMAIN list, has[list[k]] = Hashes PROVE has'[list[k]] = Hashes
    <3>1. list[k] \in FileIds
      BY <2>1 DEF SaveInv, Kinds
    <3>. QED
      BY <2>1, <3>1 DEF DataStep
  <2>. QED
    BY <2>1 DEF SaveInv, DataStep, ListedComplete, Saving
<1>. QED
  BY <1>1, <1>2, <1>3 DEF SaveInv

(* Steps of upload_cgi before the list is touched.                           *)
Before ==
  \/ \E f \in Names : Receive(f)
  \/ FdfsUpload \/ FdfsFails \/ Connect \/ ConnectFails

LEMMA SaveBefore ==
  ASSUME SaveInv, Before
  PROVE  SaveInv'
<1>1. /\ UNCHANGED <<list, has, pv, ids, got, clicks, cut>>
      /\ upc \in {"accept", "fdfs", "connect"} /\ upc' # "hset"
  BY DEF Before, Receive, FdfsUpload, FdfsFails, Connect, ConnectFails, redisVars, dataVars
<1>2. Kinds' /\ Handed' /\ Fresh'
  <2>. USE DEF SaveInv, Kinds, Handed, Fresh
  <2>1. ASSUME NEW f \in Names, Receive(f) PROVE Kinds' /\ Handed' /\ Fresh'
    <3>1. /\ uploads' = uploads + 1 /\ uploads' <= MaxUploads /\ filename' = f
          /\ tmp' = [tmp EXCEPT ![f] = uploads'] /\ upc' = "fdfs" /\ file_id' = NoId /\ at' = 0
      BY <2>1, CSAssumption DEF Receive
    <3>2. Kinds'
      BY <1>1, <3>1 DEF FileIds
    <3>3. Handed'
      BY <3>1
    <3>4. Fresh'
      <4>1. \A k \in DOMAIN list : list[k] \in FileIds /\ list[k] <= uploads
        OBVIOUS
      <4>2. ASSUME NEW k \in DOMAIN list
            PROVE  list[k] <= uploads + 1 /\ list[k] < uploads + 1
        <5>1. list[k] \in Nat /\ uploads \in Nat /\ list[k] <= uploads
          BY <4>1, IdsAreNumbers
        <5>2. \A i, n \in Nat : i <= n => i <= n + 1 /\ i < n + 1
          OBVIOUS
        <5>. QED
          BY <5>1, <5>2
      <4>. QED
        BY <1>1, <3>1, <4>2
    <3>. QED
      BY <3>2, <3>3, <3>4
  <2>2. CASE FdfsUpload
    <3>1. file_id' = uploads /\ uploads \in FileIds
      BY <2>2, CSAssumption DEF FdfsUpload, FileIds, Files
    <3>2. UNCHANGED <<uploads, tmp, filename, at>> /\ upc = "fdfs" /\ upc' = "connect"
      BY <2>2 DEF FdfsUpload
    <3>. QED
      BY <1>1, <3>1, <3>2
  <2>3. CASE FdfsFails
    BY <1>1, <2>3 DEF FdfsFails
  <2>4. CASE Connect
    BY <1>1, <2>4 DEF Connect
  <2>5. CASE ConnectFails
    BY <1>1, <2>5 DEF ConnectFails
  <2>. QED
    BY <2>1, <2>2, <2>3, <2>4, <2>5 DEF Before
<1>3. Progress' /\ ListedComplete' /\ NewestFirst'
  BY <1>1 DEF SaveInv, Progress, ListedComplete, NewestFirst, Saving
<1>. QED
  BY <1>2, <1>3 DEF SaveInv

(* The id goes to the head of the list: it is the latest of all.             *)
LEMMA SavePush ==
  ASSUME SaveInv, ListPush \/ PushFails
  PROVE  SaveInv'
<1>. DEFINE new == <<file_id>> \o list
<1>1. /\ upc = "push" /\ UNCHANGED <<uploads, tmp, filename, file_id, at, has, pv, ids, got, clicks>>
      /\ \/ list' = new /\ upc' = "hset" /\ cut' = cut
         \/ list' \in {list, new} /\ upc' \in {"accept", "dead"} /\ cut' = cut \cup {file_id}
  BY DEF ListPush, PushFails, dataVars
<1>2. /\ new \in Seq(FileIds) /\ Len(new) = Len(list) + 1
      /\ new[1] = file_id /\ \A k \in 2..(Len(list) + 1) : new[k] = list[k - 1]
  BY Pushed DEF SaveInv
<1>. HIDE DEF new
<1>a. DOMAIN new = 1..(Len(list) + 1) /\ DOMAIN list = 1..Len(list) /\ Len(list) \in Nat
  BY <1>2 DEF SaveInv, Kinds
<1>3. \A k \in DOMAIN new : k = 1 \/ (k \in 2..(Len(list) + 1) /\ k - 1 \in DOMAIN list)
  <2>1. ASSUME NEW k \in 1..(Len(list) + 1)
        PROVE  k = 1 \/ (k \in 2..(Len(list) + 1) /\ k - 1 \in 1..Len(list))
    BY <1>a
  <2>. QED
    BY <1>a, <2>1
<1>4. Kinds' /\ Handed'
  BY <1>1, <1>2 DEF SaveInv, Kinds, Handed
<1>5. Progress'
  BY <1>1 DEF SaveInv, Handed, Progress
<1>6. ASSUME NEW k \in DOMAIN new
      PROVE  new[k] <= uploads /\ (k # 1 => new[k] < uploads)
  BY <1>1, <1>2, <1>3 DEF SaveInv, Kinds, Fresh, Handed, NoId
<1>7. Fresh'
  BY <1>1, <1>6 DEF SaveInv, Fresh
<1>8. NewestFirst'
  <2>1. ASSUME NEW j \in DOMAIN new, NEW k \in DOMAIN new,
               j < k, new[j] # NoId, new[k] # NoId
        PROVE  new[j] > new[k]
    <3>1. k # 1 /\ new[k] = list[k - 1] /\ k - 1 \in DOMAIN list /\ new[k] < uploads
      BY <1>a, <1>2, <1>3, <1>6, <2>1
    <3>2. CASE j = 1
      BY <1>1, <1>2, <2>1, <3>1, <3>2 DEF SaveInv, Handed
    <3>3. CASE j # 1
      <4>1. new[j] = list[j - 1] /\ j - 1 \in DOMAIN list /\ j - 1 < k - 1
        BY <1>a, <1>2, <1>3, <2>1, <3>3
      <4>. QED
        BY <2>1, <3>1, <4>1 DEF SaveInv, NewestFirst
    <3>. QED
      BY <3>2, <3>3
  <2>. QED
    BY <1>1, <2>1 DEF SaveInv, NewestFirst
<1>9. ListedComplete'
  <2>1. has' = has /\ (file_id \in cut' \/ (upc' = "hset" /\ file_id' = file_id))
    BY <1>1
  <2>2. ASSUME NEW k \in DOMAIN list
        PROVE  has[list[k]] = Hashes \/ list[k] = file_id \/ list[k] \in cut'
    BY <1>1 DEF SaveInv, ListedComplete, Saving
  <2>3. ASSUME NEW k \in DOMAIN list'
        PROVE  has[list'[k]] = Hashes \/ list'[k] = file_id \/ list'[k] \in cut'
    <3>1. CASE list' = list
      BY <2>2, <2>3, <3>1
    <3>2. CASE list' = new
      BY <1>2, <1>3, <2>2, <2>3, <3>2
    <3>. QED
      BY <1>1, <3>1, <3>2
  <2>. QED
    BY <2>1, <2>3 DEF ListedComplete, Saving
<1>. QED
  BY <1>4, <1>5, <1>7, <1>8, <1>9 DEF SaveInv

(* A command on one hash: done, answered by an error, or not answered.       *)
LEMMA SaveHash ==
  ASSUME SaveInv, HashSet \/ HashSetFails
  PROVE  SaveInv'
<1>. DEFINE h == Stored[at + 1]
<1>1. /\ upc = "hset" /\ at < 7 /\ h \in Hashes
      /\ UNCHANGED <<uploads, tmp, filename, file_id, list, ids, got, clicks>>
  <2>1. at < 7 => at + 1 \in 1..7
    BY DEF SaveInv, Kinds
  <2>. QED
    BY <2>1, StoredOrder DEF HashSet, HashSetFails, dataVars
<1>2. \/ SetHash(h) /\ at' = at + 1 /\ upc' = "hset" /\ cut' = cut
      \/ /\ \/ at' = at + 1 /\ upc' = "hset" /\ UNCHANGED <<has, pv>>
            \/ at' = at /\ upc' = "accept" /\ (UNCHANGED <<has, pv>> \/ SetHash(h))
         /\ cut' = cut \cup {file_id}
  BY <1>1 DEF HashSet, HashSetFails
<1>. HIDE DEF h
<1>3. /\ has' \in [FileIds -> SUBSET Hashes] /\ pv' \in [FileIds -> Nat]
      /\ \A id \in FileIds : has[id] \subseteq has'[id]
  BY <1>1, <1>2, HashStep DEF SaveInv, Kinds
<1>4. Kinds' /\ Handed' /\ Fresh' /\ NewestFirst'
  <2>1. at' \in 0..7 /\ upc' \in {"hset", "accept"}
    BY SMTT(30), <1>1, <1>2 DEF SaveInv, Kinds
  <2>2. Kinds'
    BY <1>1, <1>3, <2>1 DEF SaveInv, Kinds
  <2>3. Handed' /\ Fresh' /\ NewestFirst'
    BY <1>1, <2>1 DEF SaveInv, Handed, Fresh, NewestFirst
  <2>. QED
    BY <2>2, <2>3
<1>5. Progress'
  <2>1. CASE SetHash(h) /\ at' = at + 1 /\ upc' = "hset" /\ cut' = cut /\ file_id \notin cut
    <3>1. \A j \in 1..at : Stored[j] \in has'[file_id]
      BY <1>1, <1>3, <2>1 DEF SaveInv, Progress, Kinds
    <3>2. Stored[at + 1] \in has'[file_id]
      BY <1>1, <2>1, HashStep DEF SaveInv, h
    <3>3. \A j \in 1..(at + 1) : j \in 1..at \/ j = at + 1
      BY DEF SaveInv, Kinds
    <3>. QED
      BY <1>1, <2>1, <3>1, <3>2, <3>3 DEF Progress
  <2>2. CASE file_id \in cut'
    BY <1>1, <2>2 DEF Progress
  <2>. QED
    BY <1>2, <2>1, <2>2
<1>6. ListedComplete'
  <2>1. ASSUME NEW k \in DOMAIN list, has[list[k]] = Hashes PROVE has'[list[k]] = Hashes
    <3>1. list[k] \in FileIds
      BY <2>1 DEF SaveInv, Kinds
    <3>. QED
      BY <1>3, <2>1, <3>1
  <2>2. cut \subseteq cut' /\ (file_id \in cut' \/ (upc' = "hset" /\ file_id' = file_id))
    BY <1>1, <1>2
  <2>. QED
    BY <1>1, <2>1, <2>2 DEF SaveInv, ListedComplete, Saving
<1>. QED
  BY <1>4, <1>5, <1>6 DEF SaveInv

(* The save is over: all seven hashes are there, unless a command was lost.  *)
LEMMA SaveUnlink ==
  ASSUME SaveInv, Unlink
  PROVE  SaveInv'
<1>1. /\ upc = "hset" /\ at = 7 /\ upc' = "accept"
      /\ tmp' = [tmp EXCEPT ![filename] = 0]
      /\ UNCHANGED <<uploads, filename, file_id, at, list, has, pv, ids, got, clicks, cut>>
  BY StoredOrder DEF Unlink, redisVars, dataVars
<1>2. file_id \in cut \/ has[file_id] = Hashes
  <2>1. CASE \A j \in 1..7 : Stored[j] \in has[file_id]
    <3>1. \A h \in Hashes : h \in has[file_id]
      BY <2>1, StoredOrder
    <3>2. has[file_id] \subseteq Hashes
      BY DEF SaveInv, Kinds
    <3>. QED
      BY <3>1, <3>2
  <2>. QED
    BY <1>1, <2>1 DEF SaveInv, Progress
<1>3. Kinds'
  BY <1>1 DEF SaveInv, Kinds
<1>4. Handed' /\ Progress' /\ Fresh' /\ NewestFirst'
  BY <1>1 DEF SaveInv, Handed, Progress, Fresh, NewestFirst
<1>5. ListedComplete'
  BY <1>1, <1>2 DEF SaveInv, ListedComplete, Saving
<1>. QED
  BY <1>3, <1>4, <1>5 DEF SaveInv

(* start-up.sh ends the save at hand; its id is cut short.                   *)
LEMMA SaveStartUp ==
  ASSUME SaveInv, StartUp
  PROVE  SaveInv'
<1>1. /\ upc' = "accept" /\ ids' = <<>> /\ got' = 0
      /\ cut' = cut \cup {id \in FileIds : Saving(id)}
      /\ UNCHANGED <<uploads, tmp, filename, file_id, at, list, has, pv, clicks>>
  BY DEF StartUp, redisVars
<1>2. Kinds'
  BY <1>1 DEF SaveInv, Kinds
<1>3. Handed' /\ Progress' /\ Fresh' /\ NewestFirst'
  BY <1>1 DEF SaveInv, Handed, Progress, Fresh, NewestFirst
<1>4. ListedComplete'
  <2>1. \A k \in DOMAIN list : list[k] \in FileIds
    BY DEF SaveInv, Kinds
  <2>2. \A k \in DOMAIN list : has[list[k]] = Hashes \/ list[k] \in cut'
    BY <1>1, <2>1 DEF SaveInv, ListedComplete
  <2>. QED
    BY <1>1, <2>2 DEF ListedComplete
<1>. QED
  BY <1>2, <1>3, <1>4 DEF SaveInv

LEMMA SaveStep ==
  ASSUME SaveInv, [Next]_vars
  PROVE  SaveInv'
<1>1. CASE UNCHANGED vars
  BY <1>1 DEF SaveInv, Kinds, Handed, Progress, ListedComplete, Saving, Fresh, NewestFirst,
              vars, uploadVars, redisVars, dataVars
<1>2. CASE Next
  BY <1>2, SaveBefore, SavePush, SaveHash, SaveUnlink, SaveStartUp, DataSteps, SaveUnderData
  DEF Next, SaveOneFile, Before, SaveInv
<1>. QED
  BY <1>1, <1>2

LEMMA SaveAlways == Spec => []SaveInv
<1>. QED
  BY SaveInitial, SaveStep, PTL DEF Spec

(* data_cgi does not survive a page with an id that lacks a hash: every id   *)
(* in the list has all of them, is being saved, or belongs to a save that    *)
(* failed, lost a command or was killed (save_one_file, select_files).       *)
THEOREM ListsComplete == Spec => []ListedComplete
<1>1. SaveInv => ListedComplete
  BY DEF SaveInv
<1>. QED
  BY <1>1, SaveAlways, PTL

(* rop_list_push only ever puts newer files before older ones and none       *)
(* twice, whatever saves fail in between: the list is newest first.          *)
THEOREM ListsNewestFirst == Spec => []NewestFirst
<1>1. SaveInv => NewestFirst
  BY DEF SaveInv
<1>. QED
  BY <1>1, SaveAlways, PTL

-----------------------------------------------------------------------------
(* Clicks.  The counter of f has not been set yet.                           *)
Unset(f) ==
  \/ f > uploads
  \/ f = uploads /\ upc = "fdfs"
  \/ f = file_id /\ (upc \in {"connect", "push"} \/ (upc = "hset" /\ at < 4))

\* Whoever knows of f knows it from a page on which its counter was read.
Counted(f) == "PV" \in has[f] \/ f \in garbled

KeptInv ==
  /\ ClicksKept
  /\ \A f \in Files : Unset(f) => "PV" \notin has[f] \/ f \in garbled
  /\ \A f \in Files : "PV" \notin has[f] => clicks[f] = 0 \/ f \in garbled
  /\ \A f \in Files : f \in seen => Counted(f)

\* The sixth hash of an entry that was passed without trouble was there.
PageInv ==
  \A k \in DOMAIN ids : ids[k] \in Files => got <= (k - 1) * 7 + 5 \/ Counted(ids[k])

ClickInv == SaveInv /\ KeptInv /\ PageInv

LEMMA ClickInitial == Init => ClickInv
<1>. SUFFICES ASSUME Init PROVE ClickInv
  OBVIOUS
<1>1. KeptInv
  BY DEF Init, KeptInv, ClicksKept, FileIds, Counted
<1>2. PageInv
  BY DEF Init, PageInv
<1>. QED
  BY <1>1, <1>2, SaveInitial DEF ClickInv

(* Steps of upload_cgi other than on a hash: Unset does not come back.       *)
LEMMA ClickUnderSave ==
  ASSUME ClickInv, Before \/ ListPush \/ PushFails \/ Unlink
  PROVE  KeptInv' /\ PageInv'
<1>1. UNCHANGED <<has, pv, ids, got, seen, clicks, garbled>>
  BY DEF Before, Receive, FdfsUpload, FdfsFails, Connect, ConnectFails, ListPush, PushFails,
         Unlink, redisVars, dataVars
<1>2. ASSUME NEW f \in Files, Unset(f)' PROVE Unset(f)
  <2>1. f \in Nat \ {0} /\ NoId = 0
    BY CSAssumption DEF Files, NoId
  <2>2. ASSUME NEW n \in Names, Receive(n) PROVE Unset(f)
    BY <1>2, <2>1, <2>2 DEF Receive, Unset, ClickInv, SaveInv, Kinds
  <2>3. CASE FdfsUpload
    BY <1>2, <2>1, <2>3 DEF FdfsUpload, Unset, ClickInv, SaveInv, Handed
  <2>4. CASE FdfsFails
    BY <1>2, <2>1, <2>4 DEF FdfsFails, Unset, ClickInv, SaveInv, Handed
  <2>5. CASE Connect \/ ConnectFails \/ Unlink
    BY <1>2, <2>1, <2>5, StoredOrder DEF Connect, ConnectFails, Unlink, Unset
  <2>6. CASE ListPush \/ PushFails
    BY <1>2, <2>1, <2>6 DEF ListPush, PushFails, Unset
  <2>. QED
    BY <2>2, <2>3, <2>4, <2>5, <2>6 DEF Before
<1>3. KeptInv'
  BY <1>1, <1>2 DEF ClickInv, KeptInv, ClicksKept, Counted
<1>4. PageInv'
  BY <1>1 DEF ClickInv, PageInv, Counted
<1>. QED
  BY <1>3, <1>4

(* The counter is set to 0 while nobody has counted on it.                   *)
LEMMA ClickUnderHash ==
  ASSUME ClickInv, HashSet \/ HashSetFails
  PROVE  KeptInv' /\ PageInv'
<1>. DEFINE h == Stored[at + 1]
<1>1. /\ upc = "hset" /\ at \in 0..6 /\ h \in Hashes /\ (h = "PV" <=> at = 3)
      /\ UNCHANGED <<uploads, file_id, list, ids, got, seen, clicks, garbled>>
  <2>1. at < 7 => at \in 0..6 /\ at + 1 \in 1..7
    BY DEF ClickInv, SaveInv, Kinds
  <2>2. at \in 0..6 => (h = "PV" <=> at + 1 = 4)
    BY StoredOrder
  <2>3. at < 7 /\ upc = "hset"
    BY StoredOrder DEF HashSet, HashSetFails
  <2>. QED
    BY <2>1, <2>2, <2>3, StoredOrder DEF HashSet, HashSetFails, dataVars
<1>2. /\ SetHash(h) \/ UNCHANGED <<has, pv>>
      /\ (upc' = "hset" /\ at' = at + 1) \/ (upc' = "accept" /\ at' \in {at, at + 1})
  BY <1>1 DEF HashSet, HashSetFails
<1>. HIDE DEF h
<1>3. ASSUME NEW f \in Files, Unset(f)'
      PROVE  Unset(f) /\ ~(SetHash(h) /\ f = file_id /\ h = "PV")
  <2>1. file_id <= uploads
    BY <1>1, IdsAreNumbers DEF ClickInv, SaveInv, Handed, Kinds
  <2>2. f \in Nat /\ file_id \in Nat /\ uploads \in Nat
    BY IdsAreNumbers DEF ClickInv, SaveInv, Kinds, FileIds
  <2>3. CASE f > uploads
    BY <2>1, <2>2, <2>3 DEF Unset
  <2>4. CASE f = file_id /\ upc' = "hset" /\ at' < 4
    <3>1. at' = at + 1 /\ at < 3
      BY <1>1, <1>2, <2>4
    <3>. QED
      BY <1>1, <2>4, <3>1 DEF Unset
  <2>5. (f > uploads) \/ (f = file_id /\ upc' = "hset" /\ at' < 4)
    BY <1>1, <1>2, <1>3 DEF Unset
  <2>. QED
    BY <2>3, <2>4, <2>5
<1>4. \A f \in FileIds : has[f] \subseteq has'[f]
  BY <1>1, <1>2, HashStep DEF ClickInv, SaveInv
<1>5. ASSUME NEW f \in Files
      PROVE  f \in FileIds /\ (Counted(f) => Counted(f)')
  BY <1>1, <1>4 DEF Counted, FileIds
<1>6. ASSUME NEW f \in Files
      PROVE  pv'[f] = clicks'[f] \/ f \in garbled
  <2>1. CASE UNCHANGED pv
    BY <1>1, <2>1 DEF ClickInv, KeptInv, ClicksKept
  <2>2. CASE SetHash(h) /\ (f # file_id \/ h # "PV")
    BY <1>1, <1>5, <2>2, HashStep DEF ClickInv, SaveInv, KeptInv, ClicksKept
  <2>3. CASE SetHash(h) /\ f = file_id /\ h = "PV"
    <3>1. Unset(f) /\ pv'[f] = 0
      BY <1>1, <2>3, HashStep DEF Unset, ClickInv, SaveInv
    <3>. QED
      BY <1>1, <3>1 DEF ClickInv, KeptInv
  <2>. QED
    BY <1>2, <2>1, <2>2, <2>3
<1>7. ASSUME NEW f \in Files, Unset(f)'
      PROVE  "PV" \notin has'[f] \/ f \in garbled
  <2>1. "PV" \notin has[f] \/ f \in garbled
    BY <1>3, <1>7 DEF ClickInv, KeptInv
  <2>2. "PV" \in has'[f] => "PV" \in has[f]
    BY <1>1, <1>2, <1>3, <1>5, <1>7, HashStep DEF ClickInv, SaveInv
  <2>. QED
    BY <2>1, <2>2
<1>8. ASSUME NEW f \in Files, "PV" \notin has'[f]
      PROVE  clicks'[f] = 0 \/ f \in garbled
  BY <1>1, <1>4, <1>5, <1>8 DEF ClickInv, KeptInv
<1>9. KeptInv'
  BY <1>1, <1>5, <1>6, <1>7, <1>8 DEF ClickInv, KeptInv, ClicksKept
<1>10. PageInv'
  BY <1>1, <1>5 DEF ClickInv, PageInv
<1>. QED
  BY <1>9, <1>10

LEMMA ClickUnderStartUp ==
  ASSUME ClickInv, StartUp
  PROVE  KeptInv' /\ PageInv'
<1>1. /\ upc' = "accept" /\ ids' = <<>>
      /\ UNCHANGED <<uploads, has, pv, seen, clicks, garbled>>
  BY DEF StartUp, redisVars
<1>2. ASSUME NEW f \in Files, Unset(f)' PROVE Unset(f)
  BY <1>1, <1>2 DEF Unset
<1>3. KeptInv'
  BY <1>1, <1>2 DEF ClickInv, KeptInv, ClicksKept, Counted
<1>4. PageInv'
  BY <1>1 DEF PageInv
<1>. QED
  BY <1>3, <1>4

(* Reading a page: nobody is shown an id before its counter was read.        *)
LEMMA Position ==
  ASSUME NEW k \in Nat \ {0}, NEW g \in Nat, g <= (k - 1) * 7 + 5, ~(g + 1 <= (k - 1) * 7 + 5)
  PROVE  g \div 7 = k - 1 /\ g % 7 = 5
OBVIOUS

LEMMA ClickUnderRead ==
  ASSUME ClickInv, HashGet \/ HashGetFails
  PROVE  KeptInv' /\ PageInv'
<1>1. /\ UNCHANGED <<uploadVars, redisVars, ids, seen, clicks>>
      /\ \/ got' = got /\ garbled' = garbled
         \/ got' = got + 1 /\ garbled' = garbled /\ Field \in has[Item]
         \/ got' = got + 1 /\ garbled' = garbled \cup {Item}
  BY DEF HashGet, HashGetFails
<1>2. \A f \in Files : Counted(f) => Counted(f)'
  BY <1>1 DEF Counted, redisVars
<1>3. KeptInv'
  BY <1>1, <1>2 DEF ClickInv, KeptInv, ClicksKept, Unset, uploadVars, redisVars
<1>4. ASSUME NEW k \in DOMAIN ids, ids[k] \in Files
      PROVE  got' <= (k - 1) * 7 + 5 \/ Counted(ids[k])'
  <2>1. got \in Nat /\ k \in Nat \ {0}
    BY DEF ClickInv, SaveInv, Kinds
  <2>2. CASE Counted(ids[k]) \/ got' = got \/ got + 1 <= (k - 1) * 7 + 5
    BY <1>1, <1>2, <1>4, <2>1, <2>2 DEF ClickInv, PageInv
  <2>3. CASE got' = got + 1 /\ got <= (k - 1) * 7 + 5 /\ ~(got + 1 <= (k - 1) * 7 + 5)
    <3>1. Item = ids[k] /\ Field = "PV"
      <4>1. got \div 7 = k - 1 /\ got % 7 = 5
        BY <2>1, <2>3, Position
      <4>. QED
        BY <2>1, <4>1, ReadOrder DEF Item, Field
    <3>. QED
      BY <1>1, <2>3, <3>1 DEF Counted, redisVars
  <2>. QED
    BY <1>1, <1>4, <2>1, <2>2, <2>3 DEF ClickInv, PageInv
<1>5. PageInv'
  BY <1>1, <1>4 DEF PageInv
<1>. QED
  BY <1>3, <1>5

LEMMA ClickUnderPages ==
  ASSUME ClickInv,
         \/ \E from \in 0..(MaxUploads - 1) : RangeList(from)
         \/ RangeCrashes \/ Reply
         \/ \E id \in FileIds : IncreasePv(id)
  PROVE  KeptInv' /\ PageInv'
<1>1. ASSUME NEW from \in 0..(MaxUploads - 1), RangeList(from) PROVE KeptInv' /\ PageInv'
  <2>1. /\ UNCHANGED <<uploadVars, redisVars, seen, clicks, garbled>>
        /\ got' = 0 /\ ids' = Page(from) /\ Page(from) \in Seq(FileIds)
    BY <1>1, PageIds, CSAssumption DEF RangeList, ClickInv, SaveInv
  <2>2. \A k \in DOMAIN ids' : k \in Nat \ {0} /\ 0 <= (k - 1) * 7 + 5
    BY <2>1
  <2>. QED
    BY <2>1, <2>2
    DEF ClickInv, KeptInv, PageInv, ClicksKept, Unset, Counted, uploadVars, redisVars
<1>2. CASE RangeCrashes
  BY <1>2 DEF RangeCrashes, ClickInv, KeptInv, PageInv, ClicksKept, Unset, Counted, uploadVars,
              redisVars
<1>3. CASE Reply
  <2>1. /\ UNCHANGED <<uploadVars, redisVars, clicks, garbled>> /\ ids' = <<>>
        /\ ~(got < Len(ids) * 7) /\ seen' = seen \cup {ids[k] : k \in DOMAIN ids}
    BY <1>3, ReadOrder DEF Reply, Reading
  <2>2. ASSUME NEW k \in DOMAIN ids, ids[k] \in Files PROVE Counted(ids[k])
    <3>1. k \in 1..Len(ids) /\ Len(ids) \in Nat /\ got \in Nat
      BY DEF ClickInv, SaveInv, Kinds
    <3>2. ~(got <= (k - 1) * 7 + 5)
      BY <2>1, <3>1
    <3>. QED
      BY <2>2, <3>2 DEF ClickInv, PageInv
  <2>3. PageInv'
    BY <2>1 DEF PageInv
  <2>. QED
    BY <2>1, <2>2, <2>3 DEF ClickInv, KeptInv, ClicksKept, Unset, Counted, uploadVars, redisVars
<1>4. ASSUME NEW id \in FileIds, IncreasePv(id) PROVE KeptInv' /\ PageInv'
  <2>1. /\ UNCHANGED <<uploadVars, ids, got, seen, garbled>> /\ id \in seen
        /\ \A f \in FileIds : f # id => /\ has'[f] = has[f] /\ pv'[f] = pv[f]
                                        /\ clicks'[f] = clicks[f]
        /\ has'[id] = has[id] \cup {"PV"} /\ pv'[id] = pv[id] + 1 /\ clicks'[id] = clicks[id] + 1
    BY <1>4 DEF IncreasePv, ClickInv, SaveInv, Kinds
  <2>2. ASSUME NEW f \in Files
        PROVE  f \in FileIds /\ (Counted(f) => Counted(f)') /\ (Unset(f)' => Unset(f))
    BY <2>1 DEF FileIds, Counted, Unset, uploadVars
  <2>3. ASSUME NEW f \in Files PROVE pv'[f] = clicks'[f] \/ f \in garbled
    BY <2>1, <2>2 DEF ClickInv, KeptInv, ClicksKept
  <2>4. ASSUME NEW f \in Files, Unset(f)' PROVE "PV" \notin has'[f] \/ f \in garbled
    BY <2>1, <2>2, <2>4 DEF ClickInv, KeptInv, Counted
  <2>5. ASSUME NEW f \in Files, "PV" \notin has'[f] PROVE clicks'[f] = 0 \/ f \in garbled
    BY <2>1, <2>2, <2>5 DEF ClickInv, KeptInv
  <2>6. KeptInv'
    BY <2>1, <2>2, <2>3, <2>4, <2>5 DEF ClickInv, KeptInv, ClicksKept
  <2>7. PageInv'
    BY <2>1, <2>2 DEF ClickInv, PageInv
  <2>. QED
    BY <2>6, <2>7
<1>. QED
  BY <1>1, <1>2, <1>3, <1>4

LEMMA ClickStep ==
  ASSUME ClickInv, [Next]_vars
  PROVE  ClickInv'
<1>1. SaveInv'
  BY SaveStep DEF ClickInv
<1>2. CASE UNCHANGED vars
  BY <1>1, <1>2 DEF ClickInv, KeptInv, PageInv, ClicksKept, Unset, Counted, vars, uploadVars,
                    redisVars, dataVars
<1>3. CASE Next
  BY <1>1, <1>3, ClickUnderSave, ClickUnderHash, ClickUnderStartUp, ClickUnderRead, ClickUnderPages
  DEF Next, SaveOneFile, SelectFiles, Before, ClickInv
<1>. QED
  BY <1>2, <1>3

(* The save lists a file before it sets its counter to 0 (upload_file.c:35   *)
(* and :68).  No click is lost to that, since a page with the file only gets *)
(* through when its counter was read, or when its reads failed.              *)
THEOREM ClicksCount == Spec => []ClicksKept
<1>1. ClickInv => ClicksKept
  BY DEF ClickInv, KeptInv
<1>. QED
  BY <1>1, ClickInitial, ClickStep, PTL DEF Spec
-----------------------------------------------------------------------------
(* Types and bounds.  No counter counts more than the clicks carried out,    *)
(* and the position within a page stays within the page.                     *)
Bounds ==
  /\ tmp \in [Names -> 0..MaxUploads] /\ fdfs \subseteq Files
  /\ clicks \in [FileIds -> 0..MaxClicks] /\ \A id \in FileIds : pv[id] <= clicks[id]
  /\ faults \in 0..MaxFaults /\ starts \in 0..MaxStarts /\ cut \subseteq FileIds
PageTypes ==
  /\ dpc \in {"accept", "hget", "dead"} /\ ids \in Seq(FileIds) /\ Len(ids) <= Count
  /\ got \in 0..(Len(ids) * 7) /\ conn \in BOOLEAN
  /\ seen \subseteq FileIds /\ garbled \subseteq FileIds

LEMMA BoundsInit == Init => Bounds /\ PageTypes
<1>. SUFFICES ASSUME Init PROVE Bounds /\ PageTypes
  OBVIOUS
<1>1. Bounds
  BY CSAssumption DEF Init, Bounds, FileIds
<1>2. Len(ids) = 0 /\ ids \in Seq(FileIds)
  BY DEF Init
<1>3. PageTypes
  BY <1>2, CSAssumption DEF Init, PageTypes
<1>. QED
  BY <1>1, <1>3

LEMMA BoundsNext ==
  ASSUME SaveInv, SaveInv', Bounds, [Next]_vars
  PROVE  Bounds'
<1>. USE DEF Bounds, redisVars, dataVars, uploadVars
<1>0. Kinds /\ Kinds' /\ Handed
  BY DEF SaveInv
<1>1. ASSUME NEW f \in Names, Receive(f) PROVE Bounds'
  <2>1. uploads' \in 0..MaxUploads
    BY <1>0, <1>1, CSAssumption DEF Receive, Kinds
  <2>. QED
    BY <1>1, <2>1 DEF Receive
<1>2. CASE FdfsUpload \/ FdfsFails
  <2>1. tmp[filename] \in Files /\ UNCHANGED <<tmp, clicks, pv, starts, cut>>
    BY <1>0, <1>2 DEF FdfsUpload, FdfsFails, Handed, Kinds, Files
  <2>2. fdfs' \in {fdfs, fdfs \cup {tmp[filename]}}
    BY <1>2 DEF FdfsUpload, FdfsFails
  <2>3. faults' \in 0..MaxFaults
    BY <1>2, CSAssumption DEF FdfsUpload, FdfsFails, Fault
  <2>. QED
    BY <2>1, <2>2, <2>3
<1>3. CASE Connect \/ ConnectFails \/ ListPush \/ PushFails
  <2>1. UNCHANGED <<tmp, fdfs, clicks, pv, starts>>
    BY <1>3 DEF Connect, ConnectFails, ListPush, PushFails
  <2>2. cut' \in {cut, cut \cup {file_id}} /\ file_id \in FileIds
    BY <1>0, <1>3 DEF Connect, ConnectFails, ListPush, PushFails, Kinds
  <2>3. faults' \in 0..MaxFaults
    BY <1>3, CSAssumption DEF Connect, ConnectFails, ListPush, PushFails, Fault
  <2>. QED
    BY <2>1, <2>2, <2>3
<1>4. CASE HashSet \/ HashSetFails
  <2>1. UNCHANGED <<tmp, fdfs, clicks, starts>>
    BY <1>4 DEF HashSet, HashSetFails
  <2>2. cut' \in {cut, cut \cup {file_id}} /\ file_id \in FileIds
    BY <1>0, <1>4 DEF HashSet, HashSetFails, Kinds
  <2>3. faults' \in 0..MaxFaults
    BY <1>4, CSAssumption DEF HashSet, HashSetFails, Fault
  <2>4. pv' = pv \/ pv' = [pv EXCEPT ![file_id] = 0]
    BY <1>4 DEF HashSet, HashSetFails, SetHash
  <2>5. \A id \in FileIds : pv'[id] = pv[id] \/ pv'[id] = 0
    BY <1>0, <2>4 DEF Kinds
  <2>6. \A id \in FileIds : pv'[id] <= clicks[id]
    BY <2>5, CSAssumption
  <2>. QED
    BY <2>1, <2>2, <2>3, <2>6
<1>5. CASE Unlink
  <2>1. tmp' = [tmp EXCEPT ![filename] = 0] /\ UNCHANGED <<fdfs, clicks, pv, faults, starts, cut>>
    BY <1>5 DEF Unlink
  <2>2. 0 \in 0..MaxUploads
    BY CSAssumption
  <2>3. tmp' \in [Names -> 0..MaxUploads]
    BY <2>1, <2>2
  <2>. QED
    BY <2>1, <2>3
<1>6. ASSUME NEW id \in FileIds, IncreasePv(id) PROVE Bounds'
  <2>1. clicks[id] + 1 \in 0..MaxClicks
    BY <1>6, CSAssumption DEF IncreasePv
  <2>2. clicks' \in [FileIds -> 0..MaxClicks]
    BY <1>6, <2>1 DEF IncreasePv
  <2>3. ASSUME NEW i \in FileIds PROVE pv'[i] <= clicks'[i]
    BY <1>0, <1>6 DEF IncreasePv, Kinds
  <2>. QED
    BY <1>6, <2>2, <2>3 DEF IncreasePv
<1>7. CASE StartUp
  BY <1>7, CSAssumption DEF StartUp
<1>8. ASSUME NEW from \in 0..(MaxUploads - 1), RangeList(from) PROVE Bounds'
  BY <1>8 DEF RangeList
<1>9. CASE SelectFiles
  <2>1. UNCHANGED <<tmp, fdfs, clicks, pv, starts, cut>>
    BY <1>9 DEF SelectFiles, RangeCrashes, HashGet, HashGetFails, Reply
  <2>2. faults' \in 0..MaxFaults
    BY <1>9, CSAssumption DEF SelectFiles, RangeCrashes, HashGet, HashGetFails, Reply, Fault
  <2>. QED
    BY <2>1, <2>2
<1>10. CASE UNCHANGED vars
  BY <1>10 DEF vars
<1>. QED
  BY <1>1, <1>2, <1>3, <1>4, <1>5, <1>6, <1>7, <1>8, <1>9, <1>10 DEF Next, SaveOneFile

LEMMA PageLength ==
  ASSUME Kinds, NEW from \in Nat
  PROVE  Len(Page(from)) <= Count
<1>. DEFINE m == from + 1
            n == IF from + Count < Len(list) THEN from + Count ELSE Len(list)
<1>1. m \in Int /\ n \in Int /\ m >= 1 /\ n <= Len(list) /\ n <= from + Count
  BY CSAssumption DEF Kinds
<1>2. \A i \in m..n : list[i] \in FileIds
  BY <1>1 DEF Kinds
<1>3. n - m + 1 <= Count /\ Count >= 0
  BY <1>1, CSAssumption
<1>. HIDE DEF m, n
<1>4. Len(SubSeq(list, m, n)) = IF m <= n THEN n - m + 1 ELSE 0
  BY <1>1, <1>2, SubSeqProperties
<1>. QED
  BY <1>3, <1>4 DEF Page, m, n

LEMMA PageTypesNext ==
  ASSUME SaveInv, PageTypes, [Next]_vars
  PROVE  PageTypes'
<1>. USE DEF PageTypes, dataVars
<1>0. Kinds
  BY DEF SaveInv
<1>1. CASE Before \/ ListPush \/ PushFails \/ HashSet \/ HashSetFails \/ Unlink
  BY <1>1 DEF Before, Receive, FdfsUpload, FdfsFails, Connect, ConnectFails, ListPush, PushFails,
              HashSet, HashSetFails, Unlink
<1>2. ASSUME NEW from \in 0..(MaxUploads - 1), RangeList(from) PROVE PageTypes'
  <2>0. from \in Nat
    BY CSAssumption
  <2>1. Page(from) \in Seq(FileIds) /\ Len(Page(from)) <= Count
    BY <1>0, <2>0, PageIds, PageLength
  <2>. HIDE DEF Page
  <2>. QED
    BY <1>2, <2>1 DEF RangeList
<1>3. CASE RangeCrashes
  BY <1>3 DEF RangeCrashes
<1>4. CASE HashGet
  BY <1>4, ReadOrder DEF HashGet, Reading
<1>5. CASE HashGetFails
  <2>1. got < Len(ids) * 7 /\ got \in Nat /\ Len(ids) \in Nat
    BY <1>5, ReadOrder DEF HashGetFails, Reading
  <2>2. (got \div 7) + 1 \in 1..Len(ids)
    BY <2>1, Position
  <2>3. Item \in FileIds
    BY <2>2, ReadOrder DEF Item
  <2>4. conn' \in BOOLEAN
    BY <1>5 DEF HashGetFails
  <2>. QED
    BY <1>5, <2>1, <2>3, <2>4 DEF HashGetFails
<1>6. CASE Reply
  <2>1. Len(<<>>) = 0 /\ <<>> \in Seq(FileIds)
    OBVIOUS
  <2>2. {ids[k] : k \in DOMAIN ids} \subseteq FileIds
    OBVIOUS
  <2>. QED
    BY <1>6, <2>1, <2>2, CSAssumption DEF Reply
<1>7. ASSUME NEW id \in FileIds, IncreasePv(id) PROVE PageTypes'
  BY <1>7 DEF IncreasePv
<1>8. CASE StartUp
  BY <1>8, CSAssumption DEF StartUp
<1>9. CASE UNCHANGED vars
  BY <1>9 DEF vars
<1>. QED
  BY <1>1, <1>2, <1>3, <1>4, <1>5, <1>6, <1>7, <1>8, <1>9
  DEF Next, SaveOneFile, SelectFiles, Before

(* Whatever fails or is restarted: Redis and the two processes hold ids of   *)
(* uploads only, no counter of clicks has overtaken the clicks, and no page  *)
(* is read beyond its end.                                                   *)
THEOREM TypeCorrect == Spec => []TypeOK
<1>1. SaveInv /\ Bounds /\ PageTypes => TypeOK
  <2>. SUFFICES ASSUME SaveInv, Bounds, PageTypes PROVE TypeOK
    OBVIOUS
  <2>1. uploads \in 0..MaxUploads
    BY DEF SaveInv, Kinds
  <2>2. pv \in [FileIds -> 0..MaxClicks]
    <3>1. \A id \in FileIds : pv[id] \in 0..MaxClicks
      BY CSAssumption DEF SaveInv, Kinds, Bounds
    <3>. QED
      BY <3>1 DEF SaveInv, Kinds
  <2>. QED
    BY <2>1, <2>2, StoredOrder, ReadOrder DEF SaveInv, Kinds, Bounds, PageTypes, TypeOK
<1>2. SaveInv /\ Bounds /\ [Next]_vars => Bounds'
  BY SaveStep, BoundsNext
<1>3. SaveInv /\ PageTypes /\ [Next]_vars => PageTypes'
  BY PageTypesNext
<1>. QED
  BY <1>1, <1>2, <1>3, BoundsInit, SaveAlways, PTL DEF Spec

-----------------------------------------------------------------------------
(* Arrival.  While nothing has failed and nothing was restarted, the id at   *)
(* hand is the last upload's, and every upload is listed but for the one     *)
(* whose save has not come that far.                                         *)
Undisturbed == faults = 0 /\ starts = 0
Listed(f)   == \E k \in DOMAIN list : list[k] = f
InHand(f)   == f = uploads /\ upc \in {"fdfs", "connect", "push", "hset"}
AllArrived ==
  Undisturbed => \A f \in 1..uploads : (Listed(f) /\ has[f] = Hashes) \/ InHand(f)

Counts == faults \in Nat /\ starts \in Nat
Arriving ==
  /\ cut = {} /\ upc # "dead"
  /\ upc \in {"connect", "push", "hset"} => file_id = uploads
  /\ \A f \in 1..uploads : Listed(f) \/ (f = uploads /\ upc \in {"fdfs", "connect", "push"})
ArriveInv == Counts /\ (Undisturbed => Arriving)

LEMMA ArriveInit == Init => ArriveInv
BY DEF Init, ArriveInv, Counts, Arriving

(* The steps that neither count a fault nor start the processes anew.        *)
LEMMA ArriveSave ==
  ASSUME SaveInv, Arriving,
         \/ \E f \in Names : Receive(f)
         \/ FdfsUpload \/ Connect \/ ListPush \/ HashSet \/ Unlink
  PROVE  Arriving'
<1>. USE DEF Arriving, Listed
<1>t. uploads \in Nat /\ list \in Seq(FileIds)
  BY DEF SaveInv, Kinds
<1>1. ASSUME NEW f \in Names, Receive(f) PROVE Arriving'
  <2>1. /\ upc = "accept" /\ uploads' = uploads + 1 /\ upc' = "fdfs" /\ UNCHANGED <<list, cut>>
    BY <1>1 DEF Receive, redisVars
  <2>2. \A g \in 1..(uploads + 1) : g \in 1..uploads \/ g = uploads + 1
    BY <1>t
  <2>. QED
    BY <2>1, <2>2
<1>2. CASE FdfsUpload
  <2>1. tmp[filename] = uploads
    BY <1>2 DEF FdfsUpload, SaveInv, Handed
  <2>. QED
    BY <1>2, <2>1 DEF FdfsUpload, redisVars
<1>3. CASE Connect
  BY <1>3 DEF Connect, redisVars
<1>4. CASE ListPush
  <2>. DEFINE new == <<file_id>> \o list
  <2>1. /\ upc = "push" /\ upc' = "hset" /\ list' = new /\ UNCHANGED <<uploads, file_id, cut>>
    BY <1>4 DEF ListPush
  <2>2. /\ Len(new) = Len(list) + 1 /\ new \in Seq(FileIds)
        /\ new[1] = file_id /\ \A k \in 2..(Len(list) + 1) : new[k] = list[k - 1]
    BY Pushed DEF SaveInv
  <2>. HIDE DEF new
  <2>3. DOMAIN new = 1..(Len(list) + 1) /\ DOMAIN list = 1..Len(list) /\ Len(list) \in Nat
    BY <1>t, <2>2
  <2>4. Listed(uploads)'
    BY <2>1, <2>2, <2>3
  <2>5. ASSUME NEW f \in 1..uploads, Listed(f) PROVE Listed(f)'
    <3>1. PICK k \in 1..Len(list) : list[k] = f
      BY <2>3, <2>5
    <3>2. k + 1 \in 2..(Len(list) + 1) /\ (k + 1) - 1 = k /\ k + 1 \in DOMAIN new
      BY <2>3
    <3>. QED
      BY <2>1, <2>2, <3>1, <3>2
  <2>. QED
    BY <2>1, <2>4, <2>5
<1>5. CASE HashSet
  BY <1>5 DEF HashSet
<1>6. CASE Unlink
  BY <1>6 DEF Unlink, redisVars
<1>. QED
  BY <1>1, <1>2, <1>3, <1>4, <1>5, <1>6

LEMMA ArriveNext == SaveInv /\ ArriveInv /\ [Next]_vars => ArriveInv'
<1>. SUFFICES ASSUME SaveInv, ArriveInv, [Next]_vars PROVE ArriveInv'
  OBVIOUS
<1>. USE DEF ArriveInv, Counts
<1>q. ASSUME UNCHANGED <<uploads, upc, file_id, list, cut>>, faults' \in {faults, faults + 1},
             UNCHANGED starts
      PROVE  ArriveInv'
  BY <1>q DEF Undisturbed, Arriving, Listed
<1>f. ASSUME faults' = faults + 1, UNCHANGED starts PROVE ArriveInv'
  BY <1>f DEF Undisturbed
<1>1. CASE \/ \E f \in Names : Receive(f)
           \/ FdfsUpload \/ Connect \/ ListPush \/ HashSet \/ Unlink
  <2>1. UNCHANGED <<faults, starts>>
    BY <1>1 DEF Receive, FdfsUpload, Connect, ListPush, HashSet, Unlink
  <2>. QED
    BY <1>1, <2>1, ArriveSave DEF Undisturbed
<1>2. CASE FdfsFails \/ ConnectFails \/ PushFails \/ HashSetFails
  BY <1>2, <1>f DEF FdfsFails, ConnectFails, PushFails, HashSetFails, Fault
<1>3. CASE SelectFiles
  BY <1>3, <1>q DEF SelectFiles, RangeCrashes, HashGet, HashGetFails, Reply, Fault, uploadVars,
                    redisVars
<1>4. ASSUME NEW from \in 0..(MaxUploads - 1), RangeList(from) PROVE ArriveInv'
  BY <1>4, <1>q DEF RangeList, uploadVars, redisVars
<1>5. ASSUME NEW id \in FileIds, IncreasePv(id) PROVE ArriveInv'
  BY <1>5, <1>q DEF IncreasePv, uploadVars
<1>6. CASE StartUp
  BY <1>6 DEF StartUp, Undisturbed
<1>7. CASE UNCHANGED vars
  BY <1>7, <1>q DEF vars, uploadVars, redisVars
<1>. QED
  BY <1>1, <1>2, <1>3, <1>4, <1>5, <1>6, <1>7 DEF Next, SaveOneFile

(* As long as FastDFS and Redis answer and nobody restarts the processes,    *)
(* every upload but the one whose save is under way is in the list with all  *)
(* seven hashes: no later upload, page or click takes it away again, and     *)
(* save_one_file is over only when its file has arrived.                     *)
THEOREM NothingGoesMissing == Spec => []AllArrived
<1>1. SaveInv /\ ArriveInv => AllArrived
  <2>. SUFFICES ASSUME SaveInv, Arriving, NEW f \in 1..uploads, ~InHand(f)
                PROVE  Listed(f) /\ has[f] = Hashes
    BY DEF ArriveInv, AllArrived
  <2>1. PICK k \in DOMAIN list : list[k] = f
    BY DEF Arriving, InHand, Listed
  <2>2. ~Saving(f)
    BY DEF Saving, Arriving, InHand
  <2>. QED
    BY <2>1, <2>2 DEF Listed, SaveInv, ListedComplete, Arriving
<1>2. SaveInv /\ ArriveInv /\ [Next]_vars => ArriveInv'
  BY ArriveNext
<1>. QED
  BY <1>1, <1>2, ArriveInit, SaveAlways, PTL DEF Spec
=============================================================================
