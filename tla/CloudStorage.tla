---------------------------- MODULE CloudStorage ----------------------------
(***************************************************************************)
(* Uploading and listing files in src/云盘/dstorage.                       *)
(*                                                                         *)
(* upload_cgi stores a request's file in a temporary file, hands that to   *)
(* FastDFS, which gives it an id, puts the id at the head of a Redis list, *)
(* sets seven Redis hashes under it and removes the temporary file.        *)
(* data_cgi answers with pages of that list, reading the hashes again, and *)
(* counts clicks.  There is one process of each (start-up.sh); nothing but *)
(* single Redis commands is atomic between them.                           *)
(*                                                                         *)
(* A file is the number of its upload, which also stands for the id that   *)
(* FastDFS gives it; NoId is the empty string.  Of the hashes' values only *)
(* FILEID_PV_HASH is kept, of the others whether they are there.  Requests *)
(* and commands that fail without any effect are left out.                 *)
(***************************************************************************)
EXTENDS Integers, Sequences, FiniteSets

CONSTANTS
  Names,      \* names under which files are uploaded
  Count,      \* files of a page
  MaxUploads, \* bound: upload requests
  MaxClicks,  \* bound: clicks on a file
  MaxFaults,  \* bound: failures of FastDFS and Redis
  MaxStarts   \* bound: runs of start-up.sh after the first

ASSUME CSAssumption ==
  /\ Count \in Nat \ {0}
  /\ MaxUploads \in Nat /\ MaxClicks \in Nat /\ MaxFaults \in Nat /\ MaxStarts \in Nat

NoId    == 0
Files   == 1..MaxUploads
FileIds == {NoId} \cup Files

\* Mutant: one hash is set twice, the other never.
StoredTwice == <<"NAME", "TIME", "USER", "PV", "TYPE", "TYPE", "SHARED">>
\* The order in which save_one_file sets the hashes, and select_files reads them.
Stored == <<"NAME", "TIME", "USER", "PV", "TYPE", "URL", "SHARED">>
Read   == <<"NAME", "USER", "TIME", "TYPE", "URL", "PV", "SHARED">>
Hashes == {"NAME", "TIME", "USER", "PV", "TYPE", "URL", "SHARED"}

VARIABLES
  uploads,  \* upload requests so far
  tmp,      \* tmp[f]: the upload the temporary file f holds, 0 for no file
  fdfs,     \* the files FastDFS holds
  list,     \* FILE_INFO_LIST
  has,      \* has[id]: the hashes that have the field id
  pv,       \* FILEID_PV_HASH, 0 where the field is missing
  upc,      \* upload_cgi
  filename,
  file_id,
  at,       \* hashes set so far
  dpc,      \* data_cgi
  ids,      \* file_id_array
  got,      \* hashes read so far, over all of ids
  conn,     \* the connection of select_files works
  seen,     \* the ids users have been shown
  faults, starts,
  clicks,   \* history: clicks[id], increments carried out
  cut,      \* history: ids whose save failed, was killed or lost a command
  garbled   \* history: ids with an entry on a page that could not be read

uploadVars == <<uploads, tmp, fdfs, upc, filename, file_id, at>>
redisVars  == <<list, has, pv>>
dataVars   == <<dpc, ids, got, conn, seen, clicks, garbled>>
vars == <<uploadVars, redisVars, dataVars, faults, starts, cut>>

Fault == faults < MaxFaults /\ faults' = faults + 1

-----------------------------------------------------------------------------
(* upload_cgi and save_one_file.                                             *)

(* The request is written to a file in the process's directory, over any     *)
(* file of that name.                                                        *)
\* Mutant: the id of the last upload is still there.
ReceiveKeepsId(f) ==
  /\ upc = "accept" /\ uploads < MaxUploads
  /\ uploads' = uploads + 1
  /\ tmp' = [tmp EXCEPT ![f] = uploads'] /\ filename' = f
  /\ upc' = "fdfs" /\ at' = 0
  /\ UNCHANGED <<fdfs, file_id, redisVars, dataVars, faults, starts, cut>>
Receive(f) ==
  /\ upc = "accept" /\ uploads < MaxUploads
  /\ uploads' = uploads + 1
  /\ tmp' = [tmp EXCEPT ![f] = uploads'] /\ filename' = f
  /\ upc' = "fdfs" /\ file_id' = NoId /\ at' = 0
  /\ UNCHANGED <<fdfs, redisVars, dataVars, faults, starts, cut>>

FdfsUpload ==
  /\ upc = "fdfs" /\ upc' = "connect"
  /\ file_id' = tmp[filename] /\ fdfs' = fdfs \cup {tmp[filename]}
  /\ UNCHANGED <<uploads, tmp, filename, at, redisVars, dataVars, faults, starts, cut>>

(* A failure, of the upload or of its answer, is a positive error number;    *)
(* the caller looks for -1 and goes on with an empty id.                     *)
FdfsFails ==
  /\ upc = "fdfs" /\ upc' = "connect"
  /\ fdfs' \in {fdfs, fdfs \cup {tmp[filename]}}
  /\ Fault
  /\ UNCHANGED <<uploads, tmp, filename, file_id, at, redisVars, dataVars, starts, cut>>

Connect ==
  /\ upc = "connect" /\ upc' = "push"
  /\ UNCHANGED <<uploads, tmp, fdfs, filename, file_id, at, redisVars, dataVars, faults, starts, cut>>

(* save_one_file fails: the temporary file stays.                            *)
ConnectFails ==
  /\ upc = "connect" /\ upc' = "accept"
  /\ Fault
  /\ UNCHANGED <<uploads, tmp, fdfs, filename, file_id, at, redisVars, dataVars, starts, cut>>

ListPush ==
  /\ upc = "push" /\ upc' = "hset"
  /\ list' = <<file_id>> \o list
  /\ UNCHANGED <<uploads, tmp, fdfs, filename, file_id, at, has, pv, dataVars, faults, starts, cut>>

(* rop_list_push looks at the type of the reply: an error is a failure of    *)
(* save_one_file, no reply at all crashes the process, with the command      *)
(* carried out or not.                                                       *)
PushFails ==
  /\ upc = "push"
  /\ \/ upc' = "accept" /\ UNCHANGED list
     \/ upc' = "dead" /\ list' \in {list, <<file_id>> \o list}
  /\ cut' = cut \cup {file_id}
  /\ Fault
  /\ UNCHANGED <<uploads, tmp, fdfs, filename, file_id, at, has, pv, dataVars, starts>>

SetHash(h) ==
  /\ has' = [has EXCEPT ![file_id] = @ \cup {h}]
  /\ pv' = IF h = "PV" THEN [pv EXCEPT ![file_id] = 0] ELSE pv

HashSet ==
  /\ upc = "hset" /\ at < Len(Stored)
  /\ SetHash(Stored[at + 1]) /\ at' = at + 1
  /\ UNCHANGED <<uploads, tmp, fdfs, upc, filename, file_id, list, dataVars, faults, starts, cut>>

(* rop_hash_set only looks whether there is a reply: after an error it goes  *)
(* on, without one save_one_file fails.                                      *)
HashSetFails ==
  /\ upc = "hset" /\ at < Len(Stored)
  /\ \/ at' = at + 1 /\ UNCHANGED <<upc, has, pv>>
     \/ upc' = "accept" /\ UNCHANGED <<at, has, pv>>
     \/ upc' = "accept" /\ SetHash(Stored[at + 1]) /\ UNCHANGED at
  /\ cut' = cut \cup {file_id}
  /\ Fault
  /\ UNCHANGED <<uploads, tmp, fdfs, filename, file_id, list, dataVars, starts>>

\* Mutant: the last hash is left out.
UnlinkEarly ==
  /\ upc = "hset" /\ at >= Len(Stored) - 1
  /\ upc' = "accept" /\ tmp' = [tmp EXCEPT ![filename] = 0]
  /\ UNCHANGED <<uploads, fdfs, filename, file_id, at, redisVars, dataVars, faults, starts, cut>>
Unlink ==
  /\ upc = "hset" /\ at = Len(Stored)
  /\ upc' = "accept" /\ tmp' = [tmp EXCEPT ![filename] = 0]
  /\ UNCHANGED <<uploads, fdfs, filename, file_id, at, redisVars, dataVars, faults, starts, cut>>

-----------------------------------------------------------------------------
(* data_cgi: select_files and increase_pv.                                   *)
Page(from) ==
  SubSeq(list, from + 1, IF from + Count < Len(list) THEN from + Count ELSE Len(list))

RangeList(from) ==
  /\ dpc = "accept" /\ dpc' = "hget"
  /\ ids' = Page(from) /\ got' = 0 /\ conn' = TRUE
  /\ UNCHANGED <<uploadVars, redisVars, seen, faults, starts, clicks, cut, garbled>>

(* No reply to LRANGE: its type is read all the same.                        *)
RangeCrashes ==
  /\ dpc = "accept" /\ dpc' = "dead"
  /\ Fault
  /\ UNCHANGED <<uploadVars, redisVars, ids, got, conn, seen, starts, clicks, cut, garbled>>

Reading == dpc = "hget" /\ got < Len(ids) * Len(Read)
Item    == ids[(got \div Len(Read)) + 1]
Field   == Read[(got % Len(Read)) + 1]

(* The reply to a missing field has no string, which is copied all the same. *)
\* Mutant: the missing string is taken for an empty one.
HashGetNil ==
  /\ Reading /\ conn
  /\ got' = got + 1
  /\ UNCHANGED <<uploadVars, redisVars, dpc, ids, conn, seen, faults, starts, clicks, cut, garbled>>
HashGet ==
  /\ Reading /\ conn
  /\ IF Field \in has[Item]
     THEN got' = got + 1 /\ UNCHANGED dpc
     ELSE dpc' = "dead" /\ UNCHANGED got
  /\ UNCHANGED <<uploadVars, redisVars, ids, conn, seen, faults, starts, clicks, cut, garbled>>

(* An error is copied as if it were the value, no reply leaves the value     *)
(* empty; either way the page goes on.  A broken connection stays broken.    *)
HashGetFails ==
  /\ Reading /\ got' = got + 1
  /\ IF conn THEN Fault /\ conn' \in BOOLEAN ELSE UNCHANGED <<faults, conn>>
  /\ garbled' = garbled \cup {Item}
  /\ UNCHANGED <<uploadVars, redisVars, dpc, ids, seen, starts, clicks, cut>>

Reply ==
  /\ dpc = "hget" /\ ~Reading
  /\ dpc' = "accept" /\ ids' = <<>> /\ got' = 0
  /\ seen' = seen \cup {ids[k] : k \in DOMAIN ids}
  /\ UNCHANGED <<uploadVars, redisVars, conn, faults, starts, clicks, cut, garbled>>

(* A user clicks on a file of a page he was shown.                           *)
IncreasePv(id) ==
  /\ dpc = "accept" /\ id \in seen /\ clicks[id] < MaxClicks
  /\ pv' = [pv EXCEPT ![id] = @ + 1] /\ has' = [has EXCEPT ![id] = @ \cup {"PV"}]
  /\ clicks' = [clicks EXCEPT ![id] = @ + 1]
  /\ UNCHANGED <<uploadVars, list, dpc, ids, got, conn, seen, faults, starts, cut, garbled>>

-----------------------------------------------------------------------------
(* start-up.sh kills both processes wherever they are and starts them again. *)
Saving(id) == upc \in {"push", "hset"} /\ file_id = id
StartUp ==
  /\ starts < MaxStarts /\ starts' = starts + 1
  /\ upc' = "accept" /\ dpc' = "accept" /\ ids' = <<>> /\ got' = 0
  /\ cut' = cut \cup {id \in FileIds : Saving(id)}
  /\ UNCHANGED <<uploads, tmp, fdfs, filename, file_id, at, redisVars, conn, seen,
                 faults, clicks, garbled>>

Init ==
  /\ uploads = 0 /\ tmp = [f \in Names |-> 0] /\ fdfs = {}
  /\ list = <<>> /\ has = [id \in FileIds |-> {}] /\ pv = [id \in FileIds |-> 0]
  /\ upc = "accept" /\ filename \in Names /\ file_id = NoId /\ at = 0
  /\ dpc = "accept" /\ ids = <<>> /\ got = 0 /\ conn = TRUE /\ seen = {}
  /\ faults = 0 /\ starts = 0
  /\ clicks = [id \in FileIds |-> 0] /\ cut = {} /\ garbled = {}

SaveOneFile ==
  \/ FdfsUpload \/ FdfsFails \/ Connect \/ ConnectFails
  \/ ListPush \/ PushFails \/ HashSet \/ HashSetFails \/ Unlink
SelectFiles == RangeCrashes \/ HashGet \/ HashGetFails \/ Reply

Next ==
  \/ \E f \in Names : Receive(f)
  \/ SaveOneFile
  \/ \E from \in 0..(MaxUploads - 1) : RangeList(from)
  \/ SelectFiles
  \/ \E id \in FileIds : IncreasePv(id)
  \/ StartUp

Spec == Init /\ [][Next]_vars

(* A request that was accepted is worked on; requests, clicks, failures and  *)
(* restarts are not obliged to come.                                         *)
FairSpec == Spec /\ WF_vars(SaveOneFile)

-----------------------------------------------------------------------------
(* Types.                                                                    *)
TypeOK ==
  /\ uploads \in 0..MaxUploads /\ tmp \in [Names -> 0..MaxUploads] /\ fdfs \subseteq Files
  /\ list \in Seq(FileIds) /\ has \in [FileIds -> SUBSET Hashes]
  /\ pv \in [FileIds -> 0..MaxClicks]
  /\ upc \in {"accept", "fdfs", "connect", "push", "hset", "dead"}
  /\ filename \in Names /\ file_id \in FileIds /\ at \in 0..Len(Stored)
  /\ dpc \in {"accept", "hget", "dead"} /\ ids \in Seq(FileIds) /\ Len(ids) <= Count
  /\ got \in 0..(Len(ids) * Len(Read)) /\ conn \in BOOLEAN /\ seen \subseteq FileIds
  /\ faults \in 0..MaxFaults /\ starts \in 0..MaxStarts
  /\ clicks \in [FileIds -> 0..MaxClicks] /\ cut \subseteq FileIds /\ garbled \subseteq FileIds

(* A page reads seven hashes of every id in the list, and data_cgi does not  *)
(* survive a missing one: whatever is listed has all of them, is being saved *)
(* at this moment, or belongs to a save that did not come through.           *)
ListedComplete ==
  \A k \in DOMAIN list : has[list[k]] = Hashes \/ Saving(list[k]) \/ list[k] \in cut

(* The list is newest first and holds no file twice, whatever saves failed   *)
(* or were cut short: two pages of it taken together repeat a file only      *)
(* because new ones came in between.                                         *)
NewestFirst ==
  \A j, k \in DOMAIN list : j < k /\ list[j] # NoId /\ list[k] # NoId => list[j] > list[k]

(* The save sets the counter of a file to 0 after the file is listed: a      *)
(* click could come earlier and be lost.  It does not, because no page with  *)
(* the file gets through before, unless its reads failed.                    *)
ClicksKept == \A f \in Files : pv[f] = clicks[f] \/ f \in garbled

(* An upload ends up as the head of the list or behind later ones, with all  *)
(* its hashes, if FastDFS and Redis answer and nobody restarts the processes.*)
Arrives ==
  \A f \in Files :
    uploads = f ~> \/ (\E k \in DOMAIN list : list[k] = f) /\ has[f] = Hashes
                   \/ faults > 0 \/ starts > 0

(* The temporary file goes when FastDFS has the file: fdfs_upload_by_filename1*)
(* is documented to return "0 succ, -1 fail", and -1 ends the save.          *)
RemovedWhenStored ==
  [][\A f \in Names : tmp[f] # 0 /\ tmp'[f] = 0 => tmp[f] \in fdfs]_vars
=============================================================================
