# Formal models of the projects in this repository

The repository is a collection of programs that share a style and some code: TCP servers
built on boost::asio or on bare sockets, Qt and JNI clients, a CGI storage service, a
message framework (EIMS) and a Django shop. This directory holds TLA+ models of the parts
whose logic is concurrent or distributed, configurations that check them with TLC, and
proofs checked by TLAPS.

Paths below are relative to `src/`. `EIMS/` stands for
`文件传送/server/eims_server_terminal/eims_server_terminal/`.

## 1. Inventory

The modelled parts do not call each other, with one exception: the EIMS logger hands each
batch it writes to the UDP writer, and stops the UDP writer before it has ended itself.

### 1.1 文件传送: file drop (modelled)

* **Server**, `文件传送/server/MYSERVER.cpp`, `CheckDir.cpp`, `WRITEREADAVOIDPASTE.c`.
  State: the list `vectorfilename`, the descriptor `acceptfd`, the semaphores `sem_id1`
  and `sem_id2`, the served directory. Three threads: `CheckDir` scans the directory into
  the list, `FunWrite` sends each listed file as four writes (length of the name, name,
  length of the data, data) and removes it, `FunAccept` puts every new connection into
  `acceptfd`. The two semaphores pass the list back and forth.
* **Client**, `文件传送/client/main.cpp`, `writedata.cpp`, `socketclient.cpp`: reads the
  four pieces, stores the file, and reconnects whenever a read on its non-blocking socket
  finds nothing; a `connect` reported as failed closes the socket.
* **Hard**: `CheckDir` is created before the semaphores are initialised; `acceptfd` is read
  four times per file while it may be overwritten; files may be replaced between `stat`,
  `read` and `remove`; `write` blocks; the list is rescanned while nobody is connected; the
  client leaves a connection in the middle of a file.
* **Correct when**: the threads never touch the list together; no version of a file is
  sent twice; what a client stores under a name is that file's contents; everything dropped
  is transmitted; scanning never silently stops.

### 1.2 展现web应用: application list (modelled, accounts left out)

* **Tables and trigger**, `server/webnet.sql`: `webapplication` and, per user, a mark in
  `webapplicationstate` that a trigger sets for everybody when the former changes.
* **Request handler**, `server/handlemessage.cpp` over `server/mysqllib.cpp`: commands
  3 (list), 5 (is my mark set?), 6 (fetch), 9 (clear my mark), and 1, 2 (register, login).
* **Client**, `client/synchronizationthread.cpp` and `client/mainwindow.cpp`: a thread that
  polls every five seconds and leaves fetched rows in the global `qjo`, a GUI thread that
  merges them into widgets and acknowledges. `qjo` and `qjoflag` are shared unlocked.
* **Hard**: edits between fetch and acknowledgement, both threads on `qjo`, several clients
  of one account, lost exchanges, statements whose failure is not noticed.
* **Correct when**: the lists merged are published ones and never go back; marks are
  served; clients converge to the table once it stops changing; a merge ends and shows the
  rows it was given.

### 1.3 展现web应用: TCP server (modelled)

* `server/tcp_server.cpp` (acceptor), `tcp_session_pool.cpp` (one `io_service` per thread,
  round robin, stop), `tcp_session.cpp` (the chain read length, read body, write length,
  write body), `server_manager.cpp` (construction and end of the process).
  State: the pool's index, the sessions, their buffers `data_` and `result_data`.
* **Hard**: sessions delete themselves in eight places and handlers hold a raw `this`;
  buffers change hands across handlers; failed accepts; a stop from one of the pool's own
  threads; exceptions from the request handler and from `bind`.
* **Correct when**: a session has one operation under way exactly while it is alive; every
  buffer is freed once; replies come in the order of their requests; services are dealt
  evenly; a signal ends the process.

`云端电子词典/server` is a copy of this server with one lookup command of its own; so is
the TCP part of the EIMS framework.

### 1.4 EIMS: logger (modelled)

* `EIMS/frame/debug/log.cpp`, `log.h`. State: per logging thread a linked list of logs
  (`header_`, `curnode_`, a flag on the node at the head), the map `m_queues_` of these
  lists, a counting semaphore `m_rwsem_`, `m_isrun_`. Threads call `write_log`; the thread
  `self_manager_func_ex` waits for the semaphore, takes at most one log from each list and
  writes them to the file and to the UDP subscribers; `quit` ends it.
* **Hard**: the lists have no lock, and the map has one for insertions only; the writer
  deletes nodes of a list another thread appends to; a node may be written at one wake-up
  and deleted at a later one; the semaphore counts logs, the wake-ups visit lists.
* **Correct when**: no log is written twice or out of its thread's order; no thread appends
  to a deleted node; lists do not fall behind; `quit` returns.

### 1.5 EIMS: log subscription over UDP (modelled)

* `EIMS/frame/io/udp/net_udp_writer.cpp`. State: a map from keys (sum of IP and port) to an
  address and the time of its last command, a mutex. `sub_log` receives the commands S
  (subscribe), E (end) and keep alive; `write_to_sock`, on the logger's thread, sends each
  batch to whoever is in the map and erases the entries older than sixty seconds; `stop`
  joins the receiver and destroys the mutex.
* **Hard**: datagrams are lost, repeated and reordered; erasing invalidates the loop's
  iterator; two clients may have the same key; the mutex is destroyed while the logger may still write.
* **Correct when**: the two threads are never in the map together; live subscribers stay in
  it; silent ones get nothing; `stop` returns.

### 1.6 云盘: upload and listing (modelled)

* `云盘/dstorage/upload_cgi.c`, `upload_file.c`, `fdfs_api.c`, `data_cgi.c`, `redis_op.c`,
  `start-up.sh`. State: the temporary file of an upload, the files in FastDFS, and in Redis
  the list `FILE_INFO_LIST` of ids and seven hashes with an id as field. `upload_cgi` puts
  a file into FastDFS, pushes its id, sets the seven hashes and removes the temporary file;
  `data_cgi` answers pages of the list with the hashes' values and counts clicks.
* **Hard**: the eight Redis commands of a save are separate; each can fail or be cut by the
  restart script; a failure of FastDFS is not recognised; a page over a missing hash
  crashes its process; the click counter is reset late.
* **Correct when**: a listed file has all its hashes or its save did not come through; the
  list is newest first without repetitions; no click is lost; uploads arrive; the temporary
  file goes only when FastDFS has the file.

### 1.7 EIMS: database connections and message scripts (modelled)

* `EIMS/frame/db/mysql_cnt.cpp`, `db_oper.cpp`, `EIMS/frame/common/common.cpp`. State: per
  io thread one `MYSQL` handle and the flag `m_transaction_open`; in the server the session
  with its autocommit and what it has not committed. `exe_sql` sends one statement,
  `exe_sql_transaction` one of a transaction: the first turns autocommit off, the last
  commits and turns it on. Both try a failed statement once more after `mysql_ping`; the
  library may connect anew in any call (`MYSQL_OPT_RECONNECT`).
* `EIMS/other/script/*.lua`, called through `eims/protocols/message_handler.cpp`: per
  message one handler that sends one to nine statements, tests each result for `~= 0` or for
  `< 0`, and on a failure answers an error, with or without `rollback()`.
* **Hard**: a new session has lost the statements of the old one; two kinds of tests for two
  kinds of failures; a refused statement has a positive result; the flag survives failures
  and Lua errors into the next request; a lost reply hides a statement that was executed.
* **Correct when**: the flag fits the session; a request is stored as a whole or not at all;
  what failed is not stored by somebody else's commit; nothing is executed twice; an error
  has a cause.

### 1.8 不同时间段切换视频: video switcher (modelled)

* `不同时间段切换视频/whentimeisupchangename.cpp`, `star_up.sh`. State: which video stands under
  each of three names. Once a second the program reads clock and directory and, at the
  change from day to night or back, has a shell run two `mv`.
* **Hard**: the directory is read name by name while a shell may rename; `strstr` finds one
  name inside another; restarts and reboots between the two `mv`; the hours 0, 6 and 22.
* **Correct when**: no video is overwritten; the page always has one; it is that of the hour.

### 1.9 EIMS: message handling (modelled, reading and writing of connections left out)

* `EIMS/eims/protocols/message_handler.cpp`, `EIMS/frame/common/common.cpp`,
  `EIMS/frame/io/http/`, `EIMS/frame/io/tcp/tcp_session.cpp`,
  `EIMS/frame/servermanager/server_manager.cpp`. State: per thread a cipher object with a
  key and a Lua machine with a stack; per TCP session a `CHandleMessage` with pointers to the
  two; for all HTTP connections together one `request_handler` with one `CHandleMessage` and
  one `remote_ip`. `run_service` makes both servers, waits for their threads and deletes
  everything.
* **Hard**: four HTTP threads in one `CHandleMessage`; a cipher without a key throws what
  nobody catches; the order of deletion at the end; servers that cannot bind.
* **Correct when**: every message is answered by its own result under its own key; the
  process ends by a signal only, and then normally.

### 1.10 Not modelled

| part | why |
|---|---|
| `展现web应用` accounts and the shared MySQL connection (`handlemessage.cpp:15-88`, `mysqllib.cpp`) | all threads use one `MYSQL` handle without a lock, whose use by two threads at once the library leaves undefined; what may be interleaved therefore has no outcomes to choose from, and one thread by itself does a select and an insert |
| `云端电子词典` | its server is a copy of the TCP server of 1.3 with one read-only command |
| reading and writing of EIMS connections | a TCP session reads and writes one step after another, as those of 1.3; an HTTP connection answers one request and closes |
| `云盘` accounts (`reg_cgi.c`, `login_cgi.c`), Django shop | single inserts and queries (a failed insert of `reg_cgi` is answered with success) |
| attendance client (`core.cpp`) | a pure encoding behind user interface code |

Left out for good: `testcef`, `opencv`, `nginx组件`, `testgit`, `视频播放网页` (samples, pages
and user interface; the last holds a variant of the video switcher), the vendored and
generated sources (cJSON, the EIMS `depends` directory, swig wrappers, xml and crypto
libraries), binaries and logs. These are by far the most of the repository's lines: the
share of all lines that the models cover is small because of them, and the files of the
modelled parts are covered to a half or more.

## 2. Plan

Done, in this order:

1. `FileTransfer` with `FileTransfer_proofs`.
2. `WebSync`, with the abstract specification `AppReplica` it implements.
3. `TcpServer`, with the abstract specification `RequestReply` it implements, and
   `TcpServer_proofs`.
4. `Logger` with `Logger_proofs`, the order of the logs included.
5. `UdpWriter`, with its theorems at the end of `Logger_proofs`.
6. `CloudStorage` with `CloudStorage_proofs`.
7. `DbTransaction` with the scripts of `EimsScripts`, and `DbTransaction_proofs`.
8. `VideoSwitch` with `VideoSwitch_proofs`.
9. `WebSync_proofs` and `InOrder` in `TcpServer_proofs`: both refinements proved.
10. `ListMerge`, the merge that `WebSync` treats as one step, with its theorems at the end
    of `WebSync_proofs`.
11. `HandleMessage`, the threads above the one whose connection is `DbTransaction`, with
    `HandleMessage_proofs`.

To do:

1. The branch of `eims_delete_site` that is left out (section 7), as a third kind of state
   of the connection in `DbTransaction`.

Every module is written without RECURSIVE operators so that its theorems remain possible.

## 3. How the modules correspond to the code

Every definition that translates code is named after the function, or the step of a
function, it translates; `PROJECT.json` maps each to its lines. Definitions whose comment
starts with "Mutant" are faulty variants used to confirm that a property depends on the
code it is about; `Next` does not use them. Variables marked "history" record the past for
the properties; guards read them at most to bound an instance.

### FileTransfer

One step per system call or shared access. `mpc`, `cpc`, `wpc`, `apc` are the program
counters of `main`, `CheckDir`, `FunWrite` and `FunAccept`.

| model | code |
|---|---|
| `CreateCheckDir`, `InitSem1`, `InitSem2`, `StartThreads` | `main`, in the order of its lines; the two `sem_init` are separate steps that overwrite the value |
| `SleepEarly` | `sem_wait` on a semaphore not yet initialised: the thread sleeps and the later `sem_init` wakes nobody |
| `ScanWait`, `OpenDir`, `OpenDirFails`, `ReadDir`, `CloseDir` | `checkdir`; `ReadDir` may or may not return files that arrive during the scan |
| `Accept`, `AcceptFails` | `FunAccept` |
| `WriteWait`, `WriteSkip`, `WriteBegin`, `Stat`, `SendNameLen`, `SendName`, `ReadFile`, `SendDataLen`, `SendData`, `Remove`, `WriteEnd`, `WritePost` | `FunWrite`; `acceptfd` is read by each of the four sends |
| `Block`, `Put` | `mywrite`: blocks on a full connection (keeping the descriptor it was called with), gives up on a dead one |
| `Connect`, `ConnectFails` | the client's `connectserver`, after a read that failed (`ReadFails`); `Handshake` is the server's kernel, which may complete a connection the client has closed at once (`closed`) |
| `ReadLen`, `ReadName`, `ReadData` | `ReadBuf`, `MyRead` and `main` |

A file's contents are a version number; what a write puts on a connection is a record that
says what it is part of. `Drop` stands for whatever fills the directory. A client that takes
bytes for a length has lost the stream; it is "garbled" and not followed further. A client
that takes contents for a name stores under `Junk`. Lengths are not computed, so a file cut
because it was replaced between `stat` and `read` shows as `size # body` in its pieces.
`"down"` is a client without a connection, at the start or after a failed connect: its next
read fails, and it connects again. `kept` records the versions whose `remove` failed.

### WebSync, AppReplica

One SQL statement, one end of an exchange, or one access to the shared globals is one step.
The table is a version number. `ServeList`, `ServeTest`, `ServeInsert`, `ServeFetch`,
`ServeAck` are commands 3, 5 (two statements), 6 and 9. `EditTable` is a change of the table
with its trigger. `Poll`, `RecvTest`, `RecvFetch`, `Emit` are one round of
`synchronizationthread::run`; `HandleSynData`, `Merge`, `RecvAck`, `Enable` are
`handleSynData`; `Login`, `Register`, `RecvList` the entry of a user. `FailX` are failing
statements, `SyncLost`, `ListLost`, `AckLost` broken exchanges. `qjo` replaced while the GUI
thread walks it yields the new list or `Torn`.

`lost[c]` is a history variable. It records the ways, all in the code, in which a client can
miss a change for good: its mark cleared (`handlemessage.cpp:196`) or inserted clear
(`handlemessage.cpp:147`) while it was out of date; its first list lost
(`mainwindow.cpp:235`); old or empty rows merged with the mark already clear.

`Lagging` are the clients whose GUI thread may still be busy, or have a signal to handle,
five seconds later when the next poll begins; what two polls do to `qjo` then is the harder
case of `Converges`. `AppReplica` says what the user of any other client sees: some published
version, moving forward only.

### ListMerge

`qjoRows` and `vApW` are sequences of names: rows are compared by name, and a change that
leaves the name alone is one as well. `BeginWalk`, `Keep`, `Delete`, `EndWalk`, `Create`,
`Drop`, `AckMerge` are `handleSynData`, one turn of a loop at a time; `i` and `it` are its index and
its iterator, which goes back to the first widget after every deletion. `Fetch` is the other
thread, which may replace `qjo` once more during the walk (`torn`). `EditRows` is any change
of the table; a new row gets the next id, and so the last place. `was` remembers the widgets
before the walk. Pictures, addresses and where a widget is put on the screen are left out.
The names differ from those of `WebSync`, so that `WebSync_proofs` can extend both modules;
`qjoRows`, `qjoCount` and `tableRows` are what `WebSync` has as versions in `qjo`, `count`
and `table`.

### HandleMessage

One step per call on an object that threads may share. A call that writes has a beginning
(`Begin`, when the pointer is read) and an end; a call that reads is one step. A call on an
object that another thread is writing to may end the process (`Clash`), or both go on as if
one had come after the other.

| model | code |
|---|---|
| `Receive`, `StoreIp`, `BadRequest`, `CopyIp` | `handle_read_second`; `handle_read` and `handle_request` |
| `GeneralClientInfo`, `SesOperGrab`, `SetKey`, `Decrypt`, `LuaVmGrab`, `CallLuaFunc`, `GetReturnValue`, `Clear`, `Encrypt` | `handle_message`, in the order of its lines |
| `NullCall`, `SesThrows` | a call on a machine that could not be loaded; a cipher without a key |
| `DeleteSession` | `~session` with `~CHandleMessage` |
| `NewServer`, `BindFails`, `MayJoin`, `Join`, `DeleteAll`, `DeleteServers` | `run_service` |
| `Signal`, `MayStop`, `HandleStop`, `Ended` | `handle_stop` of both servers, on one of their threads |

A key, a result and an address are the number of the request they belong to; HTTP requests
are 1 to `MaxHttp`, those over TCP follow. `Objects` lets `set_key` go to the pointer just
stored or to the member read again, as an optimising or a plain build does. `met` records
that two HTTP requests were under way together, `wrong` that a request with nobody in its way
was answered with something else. `Terminated` is the process that has ended: it repeats its
state, so that TLC reports a rest anywhere else as a deadlock.

### TcpServer, RequestReply

One handler is one step: handlers of one session touch nothing of another, and each
`io_service` has one thread. `pending[s][k]` counts the operations of kind `k` that session
`s` has under way. `MakeSignals`, `MakeAcceptor`, `BindFails`, `StartServer` are the
constructor, `GetIoService` the round robin, `HandleAccept`, `AcceptFails` the acceptor,
`ReadFirst` .. `WriteFails` the four handlers of a session, each with its error exits, and
`Signal`, `StopService`, `JoinThreads` the end of the process. `StopService` is one turn of
the loop in `sessionpool::stop`, so other services go on running handlers between turns.
`AskLen`, `AskBody`, `Leave` are the peer (`client/writedata.cpp`, or any other).

`RequestReply` says what a peer is promised: one reply per request, in order, none after the
connection ends.

### Logger

One step per access to what two threads share. A list is the sequence of its nodes from
`header_` on, each node the number of its log; `batch[t]` are the thread's logs in `vlogs`, whose order
between threads nothing depends on; `taken[t]` is the flag of the node at the
head, `curnode[t]` what `curnode_` points to, `freed[t]` the last node deleted.

| model | code |
|---|---|
| `WriteLog`, `Find`, `FindMisses`, `Lock`, `Insert` | `write_log` and `_get_queue`: lookup without the lock, then insertion with it |
| `PutFirst`, `SetHeader`, `PutNext`, `Advance` | `put_back`: the first node becomes `curnode_` before `header_`, another is linked before `curnode_` moves |
| `Post`, `Wait` | `sem_post`, `sem_wait` on `m_rwsem_` |
| `Visit` with `GetFront`, `Overlook` | one turn of the loop in `get_one_log_ex`; `get_front` |
| `Output` | the file, the subscribers and the test of `m_isrun_` in `self_manager_func_ex` |
| `Quit`, `QuitPost`, `Join` | `quit` |

The map has no lock for lookups: one that runs while another thread inserts may miss an
entry that is there, and `_get_queue` then replaces that thread's list with an empty one.
`FindMisses` and `Overlook` are these misses, `raced` records them.

### UdpWriter

`Loop`, `Recv`, `RecvTimeout`, `LockClients`, `Handle`, `Reply` are `sub_log`; `Handle`
writes the entry as each of the three commands does. `Write`, `LockWrite`, `SendTo`,
`Erase`, `UnlockWrite` are `write_to_sock`, one turn of its loop at a time; after `Erase`
the iterator is invalid, and the loop goes on at any entry, ends, or crashes. `Stop`,
`JoinReceiver`, `Destroy` are `stop`. `UdpInit` includes the state that a failed `initial`
leaves.
`ClientSends` puts a datagram on its way, which `Recv` takes out or leaves in for a
repetition; one that is never received is lost.

`Key` is any function: clients may share a key. `state[c]` records what `c` has asked for, and
`"displaced"` once another client's S or E has taken the entry under their common key
(`Takes`).

### CloudStorage

One step per Redis or FastDFS command. `Receive` is the reading of a request,
`FdfsUpload`, `FdfsFails`, `Connect`, `ConnectFails`, `ListPush`, `PushFails`, `HashSet`,
`HashSetFails`, `Unlink` are `save_one_file` with what its helpers in `redis_op.c` return on
an error reply and on no reply; `RangeList`, `RangeCrashes`, `HashGet`, `HashGetFails`,
`Reply` are `select_files`, reading hash by hash; `IncreasePv` is `increase_pv`; `StartUp`
is `start-up.sh`, which kills both processes anywhere. A process that copies a null string,
or reads the type of a missing reply, is `"dead"` until the next `StartUp`. There is one
process of each program, as the script starts them. The module is checked without an MC
module: its constants are numbers and one set.

### DbTransaction, EimsScripts

`EimsScripts` is data: every handler that writes, as the sequence of its statements, with
the test of each result and whether a failure is rolled back; `EimsScript` finds it by the
message, as `funcs_map` does. A handler whose statements depend on the rows it finds has
several sequences. `DbTransaction` runs any such table on one thread's connection, one step
per call of the library; `MCDbTransaction` puts the two together.

| model | code |
|---|---|
| `Take`, `ScriptError`, `Answer` | `handle_message`: the next message, a failed `lua_pcall`, the answer |
| `Connect` | `sql_oper_grab`, the thread's first message |
| `Begin` | `mysql_rollback` and `mysql_autocommit(0)` of a transaction's first statement |
| `Query`, `Ping`, `Retry` | `set names` with the statement, `mysql_ping`, the second attempt of both functions |
| `Commit`, `Restore` | the commit; rollback and `autocommit(1)` after the second failure or a failed commit |
| `RollBack` | the script's `rollback()`, which changes neither flag nor autocommit |
| `Passes`, `Returns` | the result (`"good"`, `"positive"`, `"negative"`) under the script's test, and what the script does next |

External, as the code uses them: `Executed` and `NotExecuted` (the server executes a
statement, refuses it, ends a deadlock with a rollback, or the link is lost before or after
the execution), `Session`, `NoSession`, `Refusal`, `Drop`. A session that is lost takes what
it holds back with it and the next one has autocommit set. The library connects anew within
the call that finds the connection closed; if the session was in a transaction it refuses
that once, and the call after it connects. `met` records the faults of each request, and
what its predecessor left on the connection. The answer `ok` is that of a handler that came
to its end, which may be a refusal it had in mind (`LoginDenied`).

### VideoSwitch

`ReadClock`, `OpenDir`, `ReadEntry`, `IsInitiateState`, `LeaveAsIs`, `Switch`, `Waited` are
one round of `main`'s loop; the names are read one by one in any order. `Mv` is one `mv` of a
shell, which goes on if the program is killed. `StartUp` is `star_up.sh`, `Reboot` ends the
shells too. `popen`'s file is closed with `fclose`, which glibc lets wait for the shell as
`pclose` does; the mutant `WaitedNot` shows what that keeps. `cut` and `overtaken` record
that a reboot or a restart came in the middle of a change.

## 4. What the runs check

Each property of a passing run has a mutant of the code that violates it under the same
configuration.

| run | instance | property | meaning |
|---|---|---|---|
| `transfer_drop` | 2 files, one of them with 2 versions, a client that may reconnect and fail to connect, one failing `accept`, `opendir` or `remove` | `Drained` | once somebody has connected every dropped file is transmitted, unless the scan has stopped |
| | | `ScanGoesOn` | scanning stops for good only in the four ways the code has |
| | | `VectorExclusive` | the list is never shared |
| | | `OneSend` | no version is transmitted twice, unless `remove` failed on it |
| | | `StoredMatches` | no client stores one file's bytes under another's name |
| `sync` | 2 clients of one account, one lagging, 2 edits, 1 fault, 2 queued signals | `Forward` | implements `AppReplica` for the client that keeps up |
| | | `Converges` | out of date for good only after a recorded loss, whatever the two threads do to `qjo` |
| `list_merge` | up to 3 rows, any names, 2 changes, `qjo` replaced during the walk | `ShowsEnd` | a merge leaves the end of the list fetched, never a widget of something else |
| | | `WholeWhen` | which differences between two lists come through as a whole |
| | | `Ends` | the walk that goes back ends |
| `server_sessions` | 2 connections and a waiting session, pool of 2, one peer a request ahead, over-long and throwing requests, failed accepts and bind | `HandlerOwns`, `BuffersFreed` | memory of sessions, on every path |
| | | `InOrder` | implements `RequestReply` |
| | | `Answered`, `ShutsDown` | requests are answered, signals end the process |
| `logger` | 2 threads, 3 and 2 logs, quit at any moment | `EachOnce` | none twice or out of order; none missing, races apart |
| | | `TailAlive` | no thread appends to a deleted node |
| | | `AtMostOneLate` | no list is more than one log behind |
| | | `AllButLastWritten`, `QuitReturns` | what reaches the file; `quit` returns |
| `udp_keep` | 3 subscribers, two with one key, 2 commands, 2 batches, limit of 1 in a time of 4 | `MapExclusive` | never both threads in the map |
| | | `KeepsLive`, `SilentDropped` | who is in the map, and for how long |
| | | `StopReturns` | `stop` returns, unless the iterator has crashed the program |
| `udp_shared` | the same | `LeavesByItself` | **violated**, finding 2 |
| `cloud_save` | 2 uploads under one name, pages of 2, a click each, 2 faults, 1 restart | `ListedComplete` | listed files have all their hashes, or their save was cut |
| | | `NewestFirst` | order, no repetition |
| | | `ClicksKept` | the late reset of the counter loses no click |
| | | `Arrives` | an undisturbed upload is listed |
| `cloud_lost` | 1 upload, 1 fault | `RemovedWhenStored` | **violated**, finding 1 |
| `db_requests` | 3 messages of 6 kinds, 2 faults | `SessionAgrees` | the flag is never clear within a transaction |
| | | `OnlyLossRepeats` | executed twice only after a lost reply |
| | | `CarefulWhole` | handlers that test for zero: whole or not at all, under refusals |
| | | `OnlyHeadMissing` | success may have lost only the first statements, to a lost session or a deadlock |
| | | `FailedStaysOut` | what failed is never stored by a later commit |
| `messages` | 2 messages on 2 HTTP threads, 1 on a TCP thread, a signal, ports that may be taken | `TypeOK` | types; no machine is deleted while it is in use |
| | | `OwnReply` | TCP sessions get their own answers whatever HTTP threads do, and so do HTTP requests that are alone, whatever happened before them |
| | | `OnlyTogetherKills` | only HTTP requests together end a running process |
| | | `Stops` | a process told to stop always has a step to take until it ends |
| `video_clock` | every hour, 2 faults | `KeepsBoth` | no video is overwritten, unless a restart overtook a shell |
| | | `PageServed` | the page has a video, except between two `mv` |
| | | `FollowsClock` | two rounds within an hour bring the video of that hour |

Deadlock checking is on in `video_clock`, where the clock never stops, and in `messages`,
where only a process that has ended may rest (`Terminated`). It is off in the others: every
one of their instances is finite (files, edits, sessions, requests, logs,
uploads run out), and the programs also stop by themselves (a signal, a failed `opendir`,
`quit`, a crash).

### Bounds, and why they are enough

* `FileTransfer`: two files are the least that can be confused or reordered; two versions
  of one of them (`MaxReplaced`) the least that can be replaced; two connections of one
  client the least that take `acceptfd` from each other, and let the first be left in the
  middle of a file or be closed at once; further connects fail. A buffer of one piece makes
  `write` block at each of the four. From `MaxVec` entries on a scan adds no name the list
  holds: with two it can hold one file twice. One call fails (`MaxFaults`): a failed
  `accept` or `opendir` ends its thread, and a failed `remove` is what sends a version again.
  The theorems remove the bounds for the invariants.
* `WebSync`: two edits are one before and one during an exchange, or one during each of two;
  two clients are the least that share a mark; two queued signals the least that let `qjo` be
  replaced while an older signal waits. A fault hits any exchange, and its retry succeeds.
* `ListMerge`: with three rows a list has a first, a middle and a last one, and two changes
  replace one list of three by almost any other; three names with repetitions include rows
  of one name.
* `HandleMessage`: two HTTP threads are the least that share a `CHandleMessage`; a request
  that comes when another has ended finds what that one left. More TCP threads would each have objects of their own, as the
  one has. A second signal changes nothing.
* `TcpServer`: two connections and the session waiting to be accepted, on two services,
  cover a neighbour on the same and on another thread and take the index around; a second
  request on one connection meets the first in each stage of being answered. The theorems
  of section 6 remove the bounds for everything but the order of replies.
* `Logger`: three logs give a list a deleted node, one at the head and one behind it; two
  threads are the least that race on the map.
* `UdpWriter`: two of the three clients share a key, the third has its own. With a
  limit of one unit, a time of four covers a subscription, its expiry and a renewal; two
  commands make a subscription and what ends, revives, repeats or displaces it; two batches
  are one before and one after an erasure, or before and after `stop`. The theorems remove
  the bounds for the invariants.
* `CloudStorage`: two uploads share the temporary file and the list; a page of two holds
  them both; the click on a file may come before or after the reset of its counter; two faults hit a save and a
  page, or one save twice; a restart hits any step. The theorems remove the bounds for the
  invariants.
* `DbTransaction`: one request may leave something on the connection, a second joins it and
  a third meets what the second left. The messages are one handler of each shape: unrolled
  and rolled back failures, both tests, a plain statement within a transaction, a Lua error,
  plain statements only. Two faults are the least that fail a statement twice. With two
  requests all messages of `EimsScripts` together have been checked as well (five million
  states); the theorems hold for any table of handlers that `UndoAssumption` and
  `PutAssumption` (section 6) describe.
* `VideoSwitch`: two faults are a restart during a change and another during its repair; all
  24 hours are there. The theorems remove the bound.

### Fairness

* `FileTransfer`: weak fairness of `main`, `CheckDir` and `FunWrite`: the operating system
  schedules them, and the loop over `readdir` ends. Nothing is assumed of accepting, nor of
  clients, which may stop reading; dropping files, failing calls and `SleepEarly` are not
  forced.
* `WebSync`: the server answers (`ServeGui`, `ServeSync`), the polling loop and the Qt event
  loop run. Users, edits and faults are free; faults are bounded in number, which stands for
  "the network works again at some time".
* `ListMerge`: a slot of the GUI thread, once it runs, runs to its end. Changes and polls are
  free.
* `TcpServer`: the threads in `run` execute ready handlers. Peers, signals, accepts and
  failures are free.
* `Logger`: the writer, a `write_log` that has begun, and a `quit` that has begun go on.
  Nobody must log or quit, misses are free.
* `UdpWriter`: the same for the receiver (whose `recvfrom` returns at the latest with its
  timeout) and the writer; strong fairness of the two lock operations: a mutex that is
  released again and again is obtained at some time. Sending, expiry and `stop` are free.
* `CloudStorage`: an accepted upload is worked on (`SaveOneFile`). Requests, pages, clicks,
  failures and restarts are free.
* `DbTransaction`, `VideoSwitch` and `HandleMessage` assume none: their properties are safety
  properties. `Stops` says that somebody has a next step, by the guards of the actions; that
  TLC finds no deadlock says the same by ENABLED. Neither says that the step is taken.

## 5. Findings

1. **A failed FastDFS upload is taken for a success** (`云盘/dstorage/upload_file.c:22`, run
   `cloud_lost`): the caller tests for -1, which `fdfs_api.c:23` promises, the function
   returns positive error numbers. An empty id is listed and the only copy of the file is
   removed.
2. **A live subscriber to the logs is put out by another client**
   (`EIMS/frame/io/udp/net_udp_writer.cpp:56`, run `udp_shared`): the map that
   `net_udp_writer.cpp:9` calls the set of the subscribed clients is keyed by the sum of IP
   and port. The S or E of a client with the same sum overwrites the entry, and the first
   gets no more logs until it subscribes again, though it keeps itself alive.

The models show these as well; the properties of the passing runs take them into account:

* A file is lost when the client reconnects in the middle of it
  (`文件传送/client/main.cpp:22`, `:37`): the rest goes to a connection nobody reads, or to the
  new one, where it is no file, and the server removes it all the same. Only a read that
  found nothing at that moment is needed, and a connect reported as failed while it was
  being made (`socketclient.cpp:36`) leaves the server with a closed connection to send
  files to. `Drained` therefore promises that a file is transmitted, not that it is stored.
* After a lost link only the statement under way of a transaction is tried again, in a new
  session with autocommit set (`EIMS/frame/db/mysql_cnt.cpp:157`). The statements before it
  are gone, those after it are stored one by one, and the request may be answered with
  success. `OnlyHeadMissing` says how far the loss can go.
* A merge takes rows off the screen (`展现web应用/client/mainwindow.cpp:343`): after a deletion
  the iterator goes back to the first widget and the row index stays, so that widgets that
  had matched are deleted too, and the server is told that the synchronisation succeeded
  (`mainwindow.cpp:388`). `ShowsEnd` and `WholeWhen` say what is lost and when.
* A changed picture or address is not taken over (`mainwindow.cpp:339`): rows are compared by
  name, and the mark is cleared.
* HTTP requests at once may get each other's answers
  (`EIMS/eims/protocols/message_handler.cpp:65`): their common handler keeps the pointers of
  the thread that came last. `OwnReply` says who is not affected.
* The normal exit uses a deleted Lua machine (`EIMS/frame/servermanager/server_manager.cpp:121`);
  a port that is taken ends the process (`server_manager.cpp:72`). `Stops` and
  `OnlyTogetherKills` allow for both.
* The acknowledgement clears a newer mark (`展现web应用/server/handlemessage.cpp:196`): a change
  between the fetch and the acknowledgement of the older list stays unseen until the next
  one. `Converges` excepts it (`lost`).
* A failed accept leaks its session (`展现web应用/server/tcp_server.cpp:78`).
* A wake-up of the log writer may take nothing from a list that has a log waiting, since a
  head written earlier is only deleted (`EIMS/frame/debug/log.cpp:102`); `AtMostOneLate`
  bounds the damage.
* A refused statement's positive result passes the test `< 0`: the rest of the transaction
  goes on without it (`mysql_cnt.cpp:165`); `create_app_user` and `create_soft_owner` even
  take it for the new user's id. `CarefulWhole` therefore speaks of the other test only.
* Two handlers fail always, with a Lua error (`eims_sitemgr.lua:922`; `mysql` for `mysql_opt`
  in `eims_get_site_default_resource`), and `eims_login` does for some users
  (`eims_authenticate.lua:88`). The insert of the first stays uncommitted on the connection
  until another request commits it: `FailedStaysOut` excepts it.
* After a reboot between two `mv` the video page stays empty for good
  (`whentimeisupchangename.cpp:51`).

## 6. What is proved

For every value of the constants that satisfies the module's named assumption
(`FTAssumption`, `TSAssumption`, `LGAssumption`, `UWAssumption` with `NoAddrAssumption`,
`CSAssumption`, `WSAssumption`, `LMAssumption`, `HMAssumption`, `VSAssumption`;
`ScriptAssumption`, `UndoAssumption`, `PutAssumption` and `BoundAssumption` of
`DbTransaction`), which say of what kind the constants are and that the special values
differ from ordinary ones. TLC evaluates them on every run. The passing runs check the
theorems' properties on small instances. `UndoAssumption` and `PutAssumption` are about the
handlers: a plain statement between the parts of a transaction is rolled back when it fails,
which is so in the one handler that has any; and a plain statement that writes (the time of
a user's last message) is tested for zero and comes before any transaction. Both hold of
all the handlers in `EimsScripts`.

Two modules of proofs hold the theorems of a second, smaller module too: `ListMerge` next to
`WebSync`, whose merge it spells out, and `UdpWriter` next to `Logger`, which feeds it. They
extend both, whose names therefore differ; no theorem relates the two.

**`FileTransfer_proofs`**
* `Exclusive` (`Spec => []VectorExclusive`). `VectorExclusive` is not inductive: nothing in
  it speaks of the semaphores. The invariant `BatonInv` counts a baton that is in exactly
  one place (in `sem1`, in `sem2`, with the scanning or with the walking thread), or in none
  before the initialisation and after a post was wiped out; its part `Phases` ties that to
  how far `main` has come. Each semaphore call moves the baton.
* `TypeCorrect` (`Spec => []TypeOK`). `TypeInv` adds to `TypeOK` that the cursor `at` is
  inside the list whenever `FunWrite` is between `stat` and `remove`; `BatonInv` is needed
  there, since a concurrent scan would change the list under the cursor.
* `SentAtMostOnce` (`Spec => []OneSend`). `SendInv` says that a version sent is older than what
  the directory holds, except while `FunWrite` is about to remove it or when that failed, that versions are only ever counted up, and that the version read last is in
  the directory or already replaced. The list may hold a name any number of times.
* `StoresMatch` (`Spec => []StoredMatches`). `WireInv` follows a connection from the queue to
  its end: `FunWrite` turns to it once and never comes back (`Untouched`), so that the client
  reads an unbroken stretch of what was written (`OnWire`, and `AtClient` and `AtServer` at
  its two ends). Where the stretch begins within a file, the client
  is out of step or reads data as names, and never gets a file's name.
* `NeverBothWait` (`Spec => []SomeoneGoesOn`), for `ScanGoesOn`. `BatonKept` is the other half of
  `BatonInv`: the baton is never lost, unless one of the scan's four ends has come about.
* `NoneGoneUnsent` (`Spec => []GoneWasSent`), for `Drained`. `GoneInv`: the
  file at the cursor is in the directory, and what was read of it and is to be removed has
  been handed to `mywrite`.

**`WebSync_proofs`**
* `TypeCorrect` (`Spec => []TypeOK`): `Replies` adds what a thread that waits for an answer
  may find in it.
* `ShowsForward` (`Spec => Forward`, for every client that keeps up): each step of `WebSync` is a step
  or a stutter of `AppReplica`. `TurnInv` says that a fetched list is newer than the one
  shown until it is merged, and that `qjo` is not replaced while a signal waits.
* `MergesSomething` (`Spec => []MergesRows`, for the same clients; no run checks it): `handleSynData` does not
  run on the empty object.
* `StaleIsPolled` (`Spec => []NoneLeftBehind`), for `Converges`. `StaleInv`: the polls of a client are
  skipped during `handleSynData` only (`Flagged`), and a client that is not up to date has a
  mark that is not clear, or is lost (`Marked`).

**`WebSync_proofs`, the merge row by row (`ListMerge`)**, for any names, with repetitions,
and any number of rows and changes
* `AlwaysShowsEnd` (`MergeSpec => []ShowsEnd`). `EndInv`: as long as nobody replaces `qjo`, the widgets
  before the iterator show the rows that end with the one at hand (`Shows`), and once the
  last row is through there is one. The iterator that goes back to the first widget while
  the index stays only makes these rows fewer; a row is never shown out of its place.
* `AlwaysWholeWhen` (`MergeSpec => []WholeWhen`), both directions, for distinct names. `WalkInv`: either
  the walk has deleted nothing but widgets before the first row's (`Intact`), and then as
  many widgets as rows lie behind the iterator; or it has gone back in the middle
  (`Behind`), and then a row is missing for good. At the end of the walk the two cases are
  those in which what remains begins like the new list, and the others (`Alike`).
* `WalkRunsOut` (`MergeSpec => [](TurnsLeft \in Nat) /\ [][UsesTurn]_mergeVars`), for `Ends`. The
  variant of the walk: the iterator that goes back to the first widget has deleted one, so
  that widgets and rows left together become fewer at every turn, also when a list arrives
  in the middle of it.

**`TcpServer_proofs`**
* `EvenLoad` (`Spec => []Balanced`; no run checks it). `PoolInv` names the number of completed rounds: every
  service before the index has been dealt one time more than those from the index on.
* `HandlersOwn` and `NothingLeaks` (`HandlerOwns`, `BuffersFreed`), from one invariant
  `OwnInv`: besides the two properties, that sessions not yet made and the one the acceptor
  waits with have no operation and no buffer, and that what the peers sent is well formed.
  `SessionNext` treats the nine handler exits one by one.
* `RepliesInOrder` (`Spec => InOrder`): each step is a step or a stutter of `RequestReply`.
  `OrderInv` counts, for each session, what was asked, what is being handled, what waits in
  `result_data` and what was replied; `Strangers` have none of it.
* `NoReplyHangs` (`Spec => []NothingHangs`), for `Answered` and `ShutsDown`. A session with a peer always
  waits for something (`Attended`); by `OrderInv` what it waits for is the request's bytes
  or the end of a write while it owes a reply, so that a handler is ready. `handle_stop`
  ends with every service stopped (`Stopped`).
* `TypeCorrect` from all three invariants.

**`Logger_proofs`**
* `TailStays` (`Spec => []TailAlive`), with or without races on the map. `ShapeInv`: a list
  holds rising logs, all younger than what was deleted from it, and ends with the node
  `curnode_` points to, except between the two halves of an append. Deleting only a head
  that has a successor keeps the last node.
* `NeverTwoLate` (`Spec => []AtMostOneLate`). `LateInv`, assumed only while `raced` is
  FALSE, counts a debt: a list whose head was taken owes no log beyond the wake-ups to come,
  any other at most one. A visit that only deletes a head pays with having been one ahead.
* `InOrderOnce` (`Spec => []EachOnce`). `EachInv` says of every thread that what it has in the
  file, the batch and its list is rising, stays below the number of its next log and, while
  `raced` is FALSE, is as long as that; and that a thread about to insert is not in the map.
  Moving a log from the list to the batch and from there to the file leaves this trail as it
  is; only an append, and a list replaced after a race, change it.
* `AllButLastAtRest` (`Spec => []FileFollows`), for `AllButLastWritten`: `EachInv` and `LateInv`
  together, at the writer's rest.
* `QuitIsHeard` (`Spec => []HeardOf`), for `QuitReturns`; inductive next to the types. It also says that
  nothing touches the lists after `quit` has deleted them.
* `TypeCorrect`.

**`Logger_proofs`, the subscription to the logs (`UdpWriter`)**
* `Excluded` (`UdpSpec => []MapExclusive`). `MutexInv`: whoever is in the map holds the mutex,
  or the mutex is destroyed and the receiver has ended; `stop` joins before it destroys.
* `LiveStay` and `SilentAreDropped` (`KeepsLive`, `SilentDropped`), whichever clients share a
  key. `EntryInv` compares the map with what the clients asked for: an address that stands
  in it stands under its own key, was not displaced, and has a time no later than the last
  command of some client with that key (`Owned`); a live client heard of within the limit
  stands there with the time of its last command or a later one (`Recent`).
* `SubscriptionTypes` (`UdpSpec => []UdpTypeOK`).
* `StopIsNotBlocked` (`UdpSpec => []NobodyBlocks`), for `StopReturns`. `Kept`: whoever holds the
  mutex is in the map and will leave it, until the program crashes.

**`CloudStorage_proofs`**
* `ListsComplete` and `ListsNewestFirst` (`ListedComplete`, `NewestFirst`), from `SaveInv`:
  the temporary file at hand is the last upload's (`Handed`), the hashes before `at` are set
  unless the save was cut (`Progress`), the list holds no id that is still to be listed
  (`Fresh`).
* `ClicksCount` (`Spec => []ClicksKept`). `ClickInv` adds that whoever has been shown a file
  was shown it by a page that read its counter, which therefore had been set (`KeptInv`);
  `PageInv` carries this along the page being read. The counter is the fourth hash to be
  set and the sixth to be read (`StoredOrder`, `ReadOrder`).
* `NothingGoesMissing` (`Spec => []AllArrived`), for `Arrives`. `ArriveInv`: without a fault and a restart
  no save is cut, and the id at hand is that of the last upload until it is listed.
* `TypeCorrect`: the list is never longer than the uploads, a page never than its bounds.

**`DbTransaction_proofs`**, for any table of handlers of that kind
* `FlagAgrees` (`Spec => []SessionAgrees`): inductive as it stands.
* `TypeCorrect`, from `ControlInv` (where the thread is: the statement under way exists, and
  so on) and `ServerInv`. Two lemmas carry the rest: `ThreadMoves` says what any step does
  to the control, `ThreadServes` what it does to session and store.
* `ErrorsLeaveNothing` (`Spec => FailedStaysOut`). `LeftInv`: a request answered with an
  error has none of its transaction in the session, unless a Lua error ended it. With it, a
  commit can store nothing of such a request.
* `ErrorsHaveCauses` (`Spec => []ErrorHasCause`; no run checks it). `CauseInv`: a thread that is pinging,
  retrying or undoing has met a fault, and so has one that comes to its commit with the
  connection closed.
* `CarefulAtomic` (`Spec => []CarefulWhole`). `AtomInv` follows a request that has met only
  refusals: until its commit everything it has written is in the session, nothing is stored
  (`Ongoing`); after it, the outcome fits the answer.
* `RepeatsNeedLoss` (`Spec => []OnlyLossRepeats`). `RepeatInv`: a statement under way is not
  held back by the session, and is stored only if the reply to its first attempt was lost;
  a transaction that found nothing left over has statements that commit by themselves only
  after one loss, so that storing such a statement unnoticed takes a second.
* `OnlyHeadLost` (`Spec => []OnlyHeadMissing`). `HeadInv` follows what a running request has
  executed and lost: a session takes all it held back or nothing of it, and holds nothing
  back once a statement of the transaction is stored, so that what is missing is always a
  beginning. The last statement is never missing, because only a commit that was answered,
  or a statement that was executed by itself, leads to a success.

**`HandleMessage_proofs`**, for any sets of HTTP and TCP threads, any number of messages, with
or without a signal
* `HandleTypes`, `RightReplies`, `NobodyElseKills` (`TypeOK`, `OwnReply`,
  `OnlyTogetherKills`), all from one invariant `HandleInv`. None of the three is inductive:
  they speak of the outcome, and what leads to it is where every pointer leads. `Pointers`
  says that a thread can only come to objects in its `Reach`: an HTTP thread to those of all
  the HTTP threads, a TCP thread to its own. `Place` ties the step a thread is at to the
  call it may be in the middle of, `Machines` keeps a machine in use from going away.
  `Company` says which requests are alone, and `Quiet` what such a request finds at each
  step (`Undisturbed`): its own address, cipher, key, machine and result.
* A step of one thread does not disturb another that is alone (`OthersQuiet`): two busy HTTP
  threads are not alone, and every other pair has no object in common. So only the thread's
  own step has to be looked at, one lemma for each call (`StepBegin` to `StepEncrypt`);
  `Assemble` puts the parts together.
* `NobodyStuck` (`Spec => []Stops`). `StopInv` adds to `HandleInv` that a thread past `ses_oper_grab`
  finds a `ses` in its object, whatever others do to it (`HasSes`), and that a signal is only
  heard by servers that have been made (`Heard`).

**`VideoSwitch_proofs`**
* `BothKept`, `PageIsServed`, `ClockFollowed`, all from `PlaceInv`, which holds until a
  restart overtakes a shell: at most one shell runs and it is the one waited for (`Alone`),
  the names are those of day, of night or of the moment between two `mv` (`Placed`), what was
  read of the directory fits them (`Seen`), and after a full round the names are right for
  the hour read (`InTime`).
* `TypeCorrect`.

Only model-checked: all liveness (`Drained`, `ScanGoesOn`, `Converges`,
`Answered`, `ShutsDown`, `Ends`, `AllButLastWritten`, `QuitReturns`, `StopReturns`, `Arrives`):
proofs of temporal properties under fairness, and of ENABLED, are outside what the proof
system handles, as is induction over data and anything that rests on a RECURSIVE operator.
Every invariant and action property a passing run checks is a theorem.

Of each liveness property the part that does not need fairness is proved: that whenever the
promise is open, whoever is to keep it is not waiting for something that will never come, or
that a variant goes down. These are the theorems marked "for" a property above; no run
checks their formulas, which are stated in the proof modules. What TLC adds on its instances
is that fair threads do get there. For `Drained` the
theorem says that no file goes away unsent; that its turn comes stays with TLC. For `StopReturns` it says that nobody is
blocked; that the receiver's turn at the mutex comes is strong fairness.

## 7. What is abstracted or left out

* Formats (JSON, packing of lengths), logging, printing, Qt layout.
* The contents of files and tables, beyond their identity and version; sizes.
* `FileTransfer`: TCP neither loses nor reorders what a connection carries; it is closed when
  its client exits or closes it. `WSAStartup` and `socket` succeed.
* `WebSync`: a list is its version, and shown means merged; what a merge makes of the rows is
  the subject of `ListMerge`. Two first polls of one account at once insert two rows in the
  table of marks; the model keeps one mark, the last written.
* `ListMerge`: the places, pictures and addresses of widgets; the rows of a failed or empty reply, which
  `WebSync` has.
* `HandleMessage`: messages as bytes, the statements of scripts (`DbTransaction`), the
  caught exceptions of allocation, a `pthread_create` that fails. Two calls at once in one
  object end in a crash or as if they had come one after the other; a third outcome, such as
  an object that stays damaged, is not modelled. `set_key` throws for a key of less than 16
  characters (`ses.cpp:30`); the keys the program stores have 24. `general_client_info` uses
  two more members of the shared object, `m_err_reson` and `m_ecc_`.
* `TcpServer`: the bodies of the commands; the connection to MySQL is assumed to serve one
  handler at a time (it does not: `mysqllib.cpp:35`, listed as a hazard).
* `Logger`: levels and the text of logs; memory is sequentially consistent; the unlocked use
  of `std::map` has the one effect that the first lookup misses an entry that is there. The
  second lookup of a list found (`log.cpp:236`), whose miss would insert a null list and
  crash the program, is left out.
* `UdpWriter`: levels of subscriptions, which nothing reads; the system clock is not set
  back.
* `CloudStorage`: parsing of requests, JSON, the MD5 and time fields; requests and commands
  that fail without effect; the Redis connections a failed save leaves open; `freeReplyObject`
  is taken to accept a null pointer, as newer versions of hiredis do. Of the hashes' values
  only the click counter is kept. FastDFS gives each upload an id of its own.
* `DbTransaction`: result sets, which belong to the thread and change no row; the texts of
  statements, and with them conflicts with other threads beyond the deadlock a statement may
  meet; a thread that crashes. `exe_sql_transaction` returns the id of the row inserted
  (`mysql_cnt.cpp:182`), which is taken to pass every test: where the table has an
  AUTO_INCREMENT column and the library keeps the id over the commit that comes before it is
  read, an insert tested for zero (`eims_notifymgr.lua:84`) is taken for a failure. The
  schema is not in the repository. The scripts are those of requests that run to their end.
* `EimsScripts`: `eims_delete_site` is that of the site's owner. For another user
  (`eims_sitemgr.lua:1006`) it sends its last select as a part of the transaction; nobody
  fetches the rows, and the library answers every further call on that connection with
  "commands out of sync", `mysql_ping` included. Handlers that only select are one.
* `VideoSwitch`: the minute and second, the log, other files in the directory.
* `sem_wait` on an uninitialised semaphore is modelled for zero-filled globals (they are
  static), where it sleeps.
