# TLA+ models of the 24Wave GPS telemetry pipeline

This directory holds TLA+ models of the C sources under `src/`, the TLC
configurations that check them, and `PROJECT.json`, which lists the
components, the runs, the mutants, the mapping from definitions to source lines,
the findings and the hazards.

## 1. The system

There are two daemons.

**gpsserver** (`src/gpsserver/server.c`, `database.c`, `config.h`;
`src/Beta 1/gpsserver/config.c`) is one thread running `accept_client()`
forever. It keeps a table `cstate[FD_SETSIZE]` of `struct client_state`,
indexed by the socket descriptor. An entry is one of two kinds:

* a **TCP control state**, created by `accept()` on the control port. It
  lives until one 28-byte CTL frame has been read.
* a **UDP sink**, created by `create_ucastsock()` when a CTL ONLINE is read.
  It holds the client's name and ports and the times `last_tgr` and
  `last_ack`.

Each pass of the loop does the following:

1. It builds a read set from the table and calls `select()` with a 1 s timeout.
2. It walks descriptors 0..FD_SETSIZE in order. For a readable descriptor it
   calls `handle_client()`. That function accepts a connection, reads a CTL
   frame (`read_ctlmsg`), or reads an ACK (`read_ackmsg`).
3. Then, for an ONLINE sink, it sends a TGR when `packet_interval` has passed
   (`send_packets`: unicast from the sink's own socket, multicast and
   broadcast from throw-away sockets). It prunes the sink with a TIMEOUT row
   when `prune_interval` has passed since the last ACK (`timeout_ack`).

Every ONLINE, OFFLINE, TIMEOUT and ACK is inserted synchronously into
PostgreSQL (`db_insertctl`, `db_insertack`).

**gpsclient** (`src/pre-release stable/client-server/gpsclient/client.c`,
`buffer.c`, `config.c`; `src/Beta 1/gpsclient/database.c`) runs four threads:

| thread | code | state it touches |
|---|---|---|
| main | `main`, `send_ctlmsg`, `prepare_sockets`, `read_sockets`, `recv_msg` | `dbcfg`, three UDP sockets, the spool |
| GPS reader | `gpsd_routine` | `gpsd` fix under `rwlock` (writer) |
| location writer | `location_write` | fix (reader), the spool |
| spool drainer | `buffer_routine`, `buffer_process` | the spool, `bufrun` under `bufmutex`, `bufcond` |

The main thread works in these steps:

1. It fetches its configuration row (5 tries, 30 s apart).
2. It registers by sending CTL ONLINE on a fresh TCP connection.
3. It binds the unicast, multicast and broadcast sockets.
4. It receives TGRs. For each valid TGR it reads the GPS fix and inserts a row
   into the local sqlite spool. It answers unicast TGRs with an ACK.
5. If no unicast TGR was answered within `server_retryival`, it closes the
   sockets and registers again.

The SIGTERM/SIGINT handler sends CTL OFFLINE, stops the drainer (which drains
once more), and exits. The drainer works in a loop:

1. It connects upstream.
2. It takes a SELECT snapshot of the spool.
3. For each row in `uid` order it inserts the row upstream and deletes it
   locally. It stops at the first failure.
4. It waits on `bufcond` for `buffer_interval` seconds.

How the parts interact:

* Client to server: CTL frames on short TCP connections. The server sends
  TGR datagrams to the client's ports, and the client sends ACK datagrams back
  to the sink's socket.
* Both daemons write rows to the central PostgreSQL table.
* Inside the client, the threads share the GPS fix (rwlock), the sqlite
  connection (sqlite's own mutex), and the stop flag and condition variable.

### What is hard in this code

* **Same-pass interleavings in the server loop.** The read set is a snapshot.
  A step at one descriptor can free or reuse another descriptor later in the
  same pass: an OFFLINE frees a sink, or an ONLINE takes the lowest free
  descriptor.
* **Partial reads** of CTL frames on non-blocking sockets.
* **Timeouts racing answers.** Two of them matter: prune against a late ACK,
  and the client's receive timeout against the server's prune, which leads to
  re-registration of a client whose sink still exists.
* **Descriptor exhaustion.** Control connections have no timeout, and
  `socket()` failures call `exit`/`_exit`. The client leaks a TCP socket on
  every registration.
* **Signal-context shutdown.** The handler joins the drainer, which may need
  locks that the interrupted thread holds.
* **At-least-once delivery from the spool.** The spool is durable and drains
  stop at the first failure. A crash between the upstream insert and the
  local delete, or a failed delete, duplicates a row upstream.

### Correctness properties per component

* Session table: at most one ONLINE sink per name. Handling a readable
  descriptor never touches a freed state. Every complete CTL frame is acted on
  as sent.
* Event loop and datastore writer: the control events in the table follow the
  sink lifecycle. A silent sink is eventually pruned. A queued connection is
  eventually served.
* Spool and drainer: no row is lost. Rows go upstream in insertion order (with
  duplicates allowed). After stop, the drainer terminates, and if the upstream
  database is reachable the rows present at stop are upstream.
* Client session: the number of open descriptors stays bounded. A client whose
  server is up and whose fix is valid is eventually served.
* Codec: frames round-trip; validation rejects corrupted TGR and ACK frames.

## 2. Modules

### ServerLoop (`ServerLoop.tla`, `MC_ServerLoop.tla`)

The server's `accept_client()` loop, its descriptor table, and the control-event
rows of the database.

State:

| variable | code |
|---|---|
| `cstate[fd]` | `cstate[]` entries: type, status, `ctl.name`, whether a partial CTL read happened, ages of `last_tgr`/`last_ack` |
| `rset`, `cursor`, `handled` | the `fd_set` returned by `select()` and the position of the `for` loop in the pass |
| `backlog`, `ctlIn`, `ackIn`, `tgrOut` | kernel side: queued connections, CTL bytes still to read, a queued ACK datagram, an unanswered unicast TGR |
| `lastEvent[n]` | the last ONLINE/OFFLINE/TIMEOUT row inserted for client `n` |
| `ctlLog` | history: code sent and code acted on, for every CTL frame completed |
| `halted` | `start` during `main()`'s set-up; then running (`no`) or dead: `segv` (NULL dereference) or `exit` (a fatal set-up error, or `exit`/`_exit` after `socket()` failed) |
| `listening` | `sock_ctl` is an open listening socket (`setup_sockctl()` closes it when `listen()` fails, yet returns 1) |
| `triggered[n]` | history: `send_packets()` sent `n` a TGR since the last ONLINE row for `n` |

Actions:

* `Startup`: `main()` up to the loop. Every set-up failure exits, except a
  failed `listen()`, after which the loop runs with a closed `sock_ctl`.
* `Select`: `select()`. `SelectFails`: `select()` on the closed `sock_ctl`
  fails with EBADF, and `accept_client()` returns at once (the loop spins).
* `Accept`: `accept()`, including a failed accept when the table is full.
* `ReadCtl(i)`: `read_ctlmsg()` plus the close in `handle_client()`. It
  covers a partial read, an invalid frame, a duplicate ONLINE, OFFLINE, ONLINE
  with and without unicast, and `_exit` when no descriptor is free.
* `ReadAck(i)`: `read_ackmsg()`. A queued ACK resets the sink's `last_ack`
  (its `db_insertack` row carries no state a property reads). Closing a sink
  drops its queued ACK and its unanswered TGR, as `close()` does.
* `DispatchFreed(i)`: `handle_client()` on a freed slot.
* `Tick(i)`: the trigger/prune code after `handle_client()`:
  `send_packets(i)` first, then the ACK-timeout test, as in the code. A sink
  due for both is sent a TGR and closed in the same pass.
* Environment: `Connect` (refused unless the server listens), `ClientAcks`,
  `DatagramLost` (also stands for a failed `sendto()` and an ACK that
  `msgack_check()` rejects: the server's state is the same), `ClockTick`.

Descriptors are allocated lowest-free, as the kernel does.

With `UnicastEnable = FALSE`, `read_ctlmsg()` records the ONLINE but creates
no sink. `accept_client()` triggers only sinks, in every mode, so with
multicast or broadcast on the client is never sent any TGR. The run
`server_unicast_off` shows `RegisteredIsTriggered` violated: the ONLINE row
stays and the loop runs for ever without a TGR. `server_core` runs with
unicast on, where the same property holds.

**Abstractions.**

* Time is one tick per second. A sink keeps the ages of `last_tgr` and
  `last_ack`, saturated at the intervals they are compared with. This is all
  that `tsdiff(...) >= interval` can tell apart.
* The environment acts only while the server waits in `select()`. Arrivals
  during a pass are seen by the next pass. A read in the pass only consumes
  what select reported, so nothing the code can observe is lost.
* A frame that arrives in two reads may, when completed, carry any control
  code. The stack slot that should hold its head holds whatever the last call
  at that depth left there: the earlier part, another client's frame, or
  garbage that fails `msgctl_check`.
* Database inserts succeed. Spec 4.8 lets a failed insert be logged and
  ignored, so the event table is modelled as the rows the server inserts.
  `main()` opens the one connection `dbctx` and nothing reconnects it; a
  lost connection would make every later insert fail, which the model does
  not include (it is listed as a hazard without a property).
  ACK rows are not recorded.
* Clients are arbitrary: any name may send ONLINE or OFFLINE at any time, up
  to `MaxConnects` connections.

**Fairness.** Two weak-fairness assumptions, and the clients are not fair:

* The loop is weakly fair. It is one thread and never blocks longer than
  `select()`'s one second, given that the database answers.
* The clock is weakly fair.

### Spool (`Spool.tla`, `SpoolQueue.tla`, `MC_Spool.tla`)

The client's sqlite spool (`buffer.c`), its drainer thread, the upstream
`db_connect`/`db_insert` (`src/Beta 1/gpsclient/database.c`), the stop in
the signal handler, and crash/restart of the client process.

State:

| variable | code |
|---|---|
| `spool` | table `buffer`: `[uid, row]` records in `uid` order |
| `upstream` | the rows `db_insert` committed in the central table, in order |
| `up` | whether PostgreSQL accepts connections and inserts |
| `dpc`, `final`, `snap` | where `buffer_routine` is, whether the drain under way is the final one (`!run`), and the rows of the `sqlite3_get_table` result still to do |
| `bufrun` | `bufrun` |
| `proc` | running, stopping (in the handler, joining), exited (`exit(0)`), crashed (`exit(1)` or a fatal signal) |
| `inserted`, `atStop`, `finalFailed`, `excused` | history for the properties |

Actions:

* `Produce`: `buffer_insert` from the receive loop or the location writer.
  It succeeds (with `uid` one more than the largest), or it fails and the
  caller ignores the failure.
* `DConnect`, `DSelect`, `DInsert`, `DDelete`, `DWait`, `DCheck`: the steps
  of `buffer_routine`/`buffer_process`. `Break` is the `break` out of the row
  loop, and a failed connect or SELECT. `DInsert` has three outcomes:
  committed, refused, or committed with the reply lost. `DDelete` can fail.
* `Stop`: `buffer_stop()` from the handler. `Exit`: the join returns and
  `exit(0)` runs.
* `Crash`: any `exit(1)` in the client. `Restart`: the daemon is started
  again on the same file.
* `UpstreamFlips`: the central database goes down or comes back.

**Abstractions.**

* A row is its production number. Its columns never affect control.
* `pthread_cond_timedwait` always returns eventually: on the signal or on the
  timeout. A lost signal therefore only costs time, which is not modelled.
* `buffer_insert` and `buffer_delete` run atomically. sqlite serialises
  statements on one connection.

**Refinement.** `SpoolQueue` is the promise: a FIFO queue whose head may be
delivered any number of times and leaves the queue only after a delivery.
`Spool` implements it under the mapping `queue <- RowsOf(spool)`. The
property `Refines` is `SpoolQueue!Spec`. It implies that no stored row is
lost, and that only the oldest row is ever sent.

**Fairness.** None. Both properties checked here are safety properties.
The drainer cannot be assumed to make progress: `ClientShutdown` shows it
blocked for ever on the sqlite connection mutex of a thread the signal
interrupted inside `buffer_insert`. `Spool` takes `buffer_insert` as one step
that the stop cannot interrupt, so shutdown liveness is checked only in
`ClientShutdown`, which models the mutexes.

`DuplicatesOnlyAfterCrash` (with its history `excused`) states spec 4.2's
promise that a row is duplicated upstream only after a crash between the
upstream insert and the local delete, or after a lost reply. Under
`MaxRows = 3, MaxStarts = 2, MaxFaults = 1`, TLC finds it violated:
`buffer_process` breaks when `buffer_delete` fails, and the next drain sends
the row again without any crash. No run keeps this check, because the run
budget went to `server_unicast_off`. The spec's at-least-once clause
tolerates the duplicate (`Refines` allows it), so it is recorded as a
hazard and not as a finding.

### ClientShutdown (`ClientShutdown.tla`, `MC_ClientShutdown.tla`)

The four client threads, reduced to the locks they take, and the SIGTERM
handler running on whichever thread the kernel picks.

| thread | model | code |
|---|---|---|
| main, writer | `PRdLock`, `PRdUnlock`, `PInsLock`, `PInsUnlock` | `read_gpsd` (rwlock in read mode), then `buffer_insert` (`sqlite3_exec` holds the connection mutex) |
| reader | `RWrLock`, `RWrUnlock` | `gpsd_routine`: `gps_read` under the write lock; `exit(1)` on error |
| drainer | `DConnect`, `DStmt`, `DStmtEnd`, `DLockCm`, `DTimedWait`, `DWake`, `DUnlockCm`, `DLockBm`, `DReadRun`, `DFinal`, `DFinalEnd` | `buffer_routine`: a drain's sqlite statements, `condmutex` around the timed wait, `bufmutex` around the read of `bufrun`, and the final drain |
| handler | `Deliver(t)`, `HSend`, `HLockBm`, `HClear`, `HLockCm`, `HSignal`, `HJoin` | `signal_handler` on thread `t`: `send_ctlmsg`, then `buffer_stop`, then `exit(0)` |

While the handler runs on `t`, `t` takes no step and keeps its locks
(`Runs(t)`). The mutexes are default pthread mutexes, so a thread that
locks one it already owns waits for ever. A join of the calling thread
returns EDEADLK at once, and the result is not checked.

`SignalTargets` is the set of threads the kernel may pick:

* all threads, as POSIX allows;
* `{"main"}`, as Linux does for `kill()` unless the main thread already has a
  signal pending.

**Fairness.** Strong fairness for each thread and the handler. A thread
blocked on a mutex that is free again and again gets it. Each mutex is held
for one statement or a few instructions, and the producers sleep between
rows. A `db_connect` outcome is a step of its own, so fairness never chooses
it.

### ClientSession (`ClientSession.tla`, `MC_ClientSession.tla`)

The gpsclient main thread: its start-up (`Startup`: `gps_open` and
`buffer_init` keep the gpsd connection and the SQLite buffer file open for the
life of the process, and any failure of `gps_open`, `gps_stream`,
`pthread_create` or `buffer_init` exits), the first configuration loop
(`nretry`, five tries, `get_serveraddr` as `ServerAddrOutcomes`, and the
`exit(1)` when the location-write thread cannot be created), the main loop (config re-read every 5 s, `send_ctlmsg`,
`prepare_sockets`, `read_sockets`, `close_sockets`), `create_socket`,
`recv_msg` and the ACK. The process descriptor table is explicit: `kind[fd]`
says what descriptor `fd` is, and new descriptors take the lowest free number,
as the kernel does. A number kept in `ucast_sock`, `mcast_sock` or
`bcast_sock` can therefore name a descriptor opened later.

| variable | code |
|---|---|
| `pc` | where `main` is: start-up, first config loop, top of the main loop, `send_ctlmsg`, `prepare_sockets`, `read_sockets`, exited |
| `nretry` | `nretry` |
| `kind` | the descriptor table: stdin (0), gpsd connection, buffer file, TCP control socket, PostgreSQL connection, unbound or bound UDP socket |
| `us`, `ms`, `bs` | `ucast_sock`, `mcast_sock`, `bcast_sock` (static, so 0 at start) |
| `cfgAge`, `sinceTgr` | `tsdiff(ts1, ts2)` of `main` and of `read_sockets`, in one-second `select()` timeouts and saturated |
| `srvUp`, `sink`, `utgr`, `mtraffic`, `dbState` | environment: the server accepts connections, it holds a sink for this client, a unicast TGR is queued, other sinks' multicast/broadcast TGRs keep arriving, the config table's state |

`get_dbcfg` is `DbcfgRet`/`DbcfgKind`. A failed query or a missing row
returns without `db_close` and leaves a `"pg"` descriptor. `Online` is
`send_ctlmsg`: `socket()` failing exits, a failed connect closes the socket,
and a successful send leaves it open. `PrepareSockets` chains three
`create_socket` calls (`CreateSocket`, whose `outcome` is one of `Outcomes`)
and stops at the first -1. A failed `setsockopt` or bind returns -1 and
leaves the socket open. For the multicast socket, an `mcast_group` that
`inet_pton()` rejects makes `create_socket` return 0 with the socket left
open. `prepare_sockets` keeps that 0 as `mcast_sock` and goes on. The globals
after a -1 keep their old values.
One pass of the `read_sockets` loop is one of four actions:

* `SelectTimeout`: return 0 once `server_retryival` has passed since the last
  answered unicast TGR, then `close_sockets`;
* `SelectReadable`: serve every readable socket in the order ucast, mcast,
  bcast. Reading stdin fails, a closed TCP socket reads 0 bytes, and a
  unicast TGR with a fix is ACKed and resets the timer (`UcastAnswered`:
  the length check, `msgtgr_check` when `packet_validation` is on,
  `read_gpsd` and the NaN test are the one choice `fix`);
* `SelectFails`: EBADF on a closed number;
* `SetBadSocket`: `FD_SET(-1)`.

`FD_SET(-1)` is undefined behaviour. The variable `fortified`, chosen at start from the constant `Builds`,
is the build. A `_FORTIFY_SOURCE` build aborts (`SetBadSocket`). Otherwise the bit
lands outside `rset` and `select()` sees the other sockets.

**Fairness.** Weak fairness of `Main` only. The server, the database, other
clients' traffic and the clock take steps but are never forced to.

**Bounds.** `MaxFd = 9` (`MaxFd = 8` in `session_core`, to keep it within
the time limit): descriptors 0 and 3..`MaxFd`, of which 3 and 4 go to gpsd
and the buffer file at start-up; what is left is enough for a full session
(TCP plus three UDP sockets) and then exhaustion by leaks.
`NoLeakedDescriptors` does not count the two start-up descriptors. `RetryIval = 2`
and `CfgIval = 3` put a config re-read between sessions.

### Config (`Config.tla`)

`config_read` of both daemons. The two `config.c` files share `config_read`,
`config_get_value` and `xstrncpy` line for line and differ in their key tables
and `config_set_value`, so one module takes the key table as constants:
`Keys` (the table in order), `Conv` (how `config_set_value` converts each
key), `Size` (`sizeof` of a string field), `Zero` (the zeroed global) and
`Default` (`config_default`).

A file is a sequence of symbols. A key name is one symbol; the other symbols
stand for the classes of characters the parser tells apart: blank, newline,
`#`, the word `yes`, a digit, `-`, anything else.

| model | code |
|---|---|
| `fgets(f, p)` | `fgets(buffer, BUFSIZ, fp)`: up to `Bufsiz - 1` symbols, through the first newline |
| `SkipKey`, `SkipBlanks`, `ValueEnd`, `config_get_value` | the three pointer walks of `config_get_value`; `NULL` when the line ends before a blank |
| `atoi`, `xstrncpy`, `config_set_value` | the conversions: unsigned short (mod 2^16), int, `strcmp("yes")`, truncating copy, and the client's `buffer_interval <= 0 -> 10` |
| `MatchedKey` | the `strncmp` loop over `config_keys[]`: the first key the line starts with |
| `Open`, `ReadLine`, `Close` | `fopen` (fails: return 0; else `config_default`), one pass of the `fgets` loop, end of file |

**Property.** `ReadAsReference` compares the struct after `return 1` with
`RefConfig(file)`, a declarative reading written without pointers: cut the
file into the pieces `fgets` returns, keep the pieces that start with a key
and have a blank, take the last one per key, convert it, and use the default
for the rest. It holds on every file of up to `MaxFile` symbols.

**Divergence from the spec (no run).** The spec gives `buffer-interval` a
minimum of 10, but the code only replaces values `<= 0`, so 1..9 are kept
(`src/pre-release stable/client-server/gpsclient/config.c:120`). The key match
is a prefix match (`client-namex v` sets `client-name`), and trailing blanks
stay in the value. A reader of the spec's format would store something else
for such files. The project keeps no violation run for this, so it is
recorded here and as a hazard.

### Codec (`Codec.tla`)

The frames of `msg.h` and the functions of `msg.c`, byte by byte. A frame is
the sequence of its bytes in memory. `Layout` gives each field's offset and
width. Char arrays are one byte, and CTL's `mport`, `bport` and `__pad1` are
left out (they are handled exactly like `uport`).

| model | code |
|---|---|
| `Put`, `Get`, `ByteAt` | a store to and a load from a field on a host of byte order `LE` or `BE` |
| `Swap`, `msg_hton`, `msg_ntoh`, `HtonFields`, `NtohFields` | `htons`/`htonl` per field: byte reversal on `LE`, identity on `BE` |
| `msgtgr_init`, `msgack_init`, `msgctl_init` | the header, then (TGR, ACK) the CRC of bytes 4..end in host order |
| `msgtgr_check`, `msgack_check`, `msgctl_check` | -1 bad header, -2 bad CRC or control code, 0 |
| `crc16`, `CrcByte`, `CrcShift` | CRC-16 with the reflected polynomial 0xa001. `crc16.c` is not in the repository, so this is modelled from the spec |
| `Send` | `send_packets` (TGR), `read_sockets` (ACK), `send_ctlmsg` (CTL): store, init, hton, send |
| `Corrupt` | the network flips one bit of a TGR or ACK datagram |
| `Receive` | `recv_msg` with `packet_validation` on, `read_ackmsg`, `read_ctlmsg`: ntoh, then check |

**Properties.**

* `CheckedAsSent`: a frame the check accepts carries exactly the values the
  sender stored. This holds for both byte orders on each side and for any
  flipped bit.
* `SameOrderAccepted`: an intact frame between hosts of the same byte order
  passes the check.

Between hosts of different byte order the receiver recomputes the CRC over
bytes the sender never summed. TLC reaches verdict -2 for nearly every TGR
and ACK there. Spec 4.1 keeps the host-order CRC deliberately, so no property
asserts either outcome.

### MC_Parsers (`MC_Parsers.tla`)

One run for the three parsers. `Client` and `Server` are instances of Config
with the client's `client-name` (string) and `buffer-interval` (interval), and
the server's `control-port` (unsigned short), `unicast-enable` (yes/no),
`packet-interval` (int) and `db-name` (string). `Frame` is the Codec instance.
Init picks one of the three; the others stay in their initial state.

**Bounds.**

* `Bufsiz = 5`: `fgets` keeps 4 symbols, so a 5-symbol line is split.
* String fields have size 2, so a value of 2 symbols is truncated. The order
  is the same as in the code, where fields are much smaller than `BUFSIZ`.
* `MaxFile = 5`: every file of up to 5 symbols (about 244,000 files).
* Frames carry `tsp` values 0x102 (not byte-symmetric) and 0x1000001
  (symmetric). Bit masks 1 and 64 can be flipped in any byte. TLC integers are
  31-bit, so the top bit of a 32-bit field is never flipped.

### Planned modules (in order)

1. **System**: ClientSession instances composed with ServerLoop over a lossy
   network. It covers register, trigger, ACK, duplicate ONLINE after a client
   timeout, OFFLINE overtaking ONLINE, and pruning.
   Property: a running client with a fix and a live server is eventually
   triggered again.

## 3. Runs

| run | cfg | expect | what it shows |
|---|---|---|---|
| server_core | `ServerLoop.cfg` | pass | sink uniqueness, the event table mirroring the sink table, pruning of silent sinks, and a TGR for every registered client (`RegisteredIsTriggered`) hold over every interleaving of two clients with 3 descriptors, including a failed `listen()` at start-up |
| server_stale_dispatch | `ServerStaleDispatch.cfg` | violation | NULL dereference in `handle_client()` after an OFFLINE freed a readable sink |
| server_split_ctl | `ServerSplitCtl.cfg` | violation | a CTL frame split across two reads is not acted on as sent |
| server_unicast_off | `ServerUnicastOff.cfg` | violation | with unicast-enable off and multicast on, a client whose ONLINE is recorded is never sent a TGR: no sink exists to trigger |
| spool_core | `Spool.cfg` | pass | the spool refines an at-least-once FIFO (`Refines`), and a clean exit whose final drain met no failure has flushed every row spooled at stop (`FinalDrainFlushes`). Both hold across outages, failed deletes, lost replies and a crash/restart |
| shutdown_core | `ClientShutdown.cfg` | pass | with the signal on any thread, a signal taken while the interrupted thread holds no mutex always ends the process (`CleanSignalExits`) |
| shutdown_deadlock | `ClientShutdownDeadlock.cfg` | violation | with the signal on the main thread (Linux), an interrupted `buffer_insert` holds the sqlite mutex that the final drain needs, and the handler's join never returns |
| session_core | `ClientSession.cfg` | pass | both builds: a queued unicast TGR is always read while the session lasts, whatever multicast and broadcast traffic arrives (`UnicastTgrAnswered`) |
| session_leak | `ClientSessionLeak.cfg` | violation | `get_dbcfg` leaks the database connection on a failed or empty SELECT, and `send_ctlmsg` leaks its TCP socket |
| session_starved | `ClientSessionStarved.cfg` | violation | multicast TGRs of other sinks keep `select()` from timing out, so a pruned client never re-registers |
| parsers_core | `Parsers.cfg` | pass | `config_read` of both daemons stores what `RefConfig` reads from every file of up to 5 symbols; a TGR, ACK or CTL frame that passes its check carries what was sent, whatever the byte orders and a flipped bit; an intact same-order frame passes |
| session_spin | `ClientSessionSpin.cfg` | violation | unfortified: `prepare_sockets` fails at the multicast socket and `main` goes on (it tests for -1, the function returns 0); `close_sockets` closes stdin through `bcast_sock = 0`; the leaked TCP socket takes descriptor 0 and `read_sockets` spins on its end of file (the trace ends in stuttering at `"recv"`: every step `main` can take leaves the state unchanged). The fortified build spins too: an `mcast_group` that `inet_pton()` rejects makes `mcast_sock = 0` with no `FD_SET(-1)`; with `Builds = {TRUE}` and `MaxFd = 10` TLC finds `SilentClientReRegisters` violated that way (with 9 descriptors the path first takes every free one) |

**Bounds.**

* Two names, so that a duplicate and a second client exist.
* `MaxFd = 3`. A control connection, a sink and a third descriptor can be open
  at once: enough for an OFFLINE at a lower descriptor than a live sink, for
  descriptor reuse, and for a full table (`_exit` and the failed `accept`).
* `MaxConnects = 3`: ONLINE, then ONLINE/OFFLINE of the same or the other
  client.
* `PacketInterval = 1`, `PruneInterval = 2`, so a TGR can go out before a
  prune and an ACK can race the prune.

Spool bounds:

* `MaxRows = 3`: a row before the snapshot, one during the drain, and one
  after the table empties (`uid` reuse).
* `MaxStarts = 2`: one crash or clean exit, and a restart on the same file.
* `MaxFaults = 1`: one failed delete or lost reply, enough for a resend.

## 4. Not modelled

* Daemonization, and `config_debug` (it only logs).
* The signal delivered to the drainer thread. With `SignalTargets` containing
  `"drainer"`, TLC finds `FinalDrainBeforeExit` violated:
  `buffer_stop()` joins its own thread, the join fails with EDEADLK, and
  `exit(0)` follows without the final drain. This needs a process-directed
  signal routed to a thread other than main, which Linux does only when main
  already has one pending. The run was dropped to keep room for parsers_core.
* Log formatting, SQL text, and the PostgreSQL/sqlite engines (their effect is
  modelled as row operations).
* The gpsd protocol.
* `FD_SETSIZE` overflow for descriptors ≥ 1024.
* Failures of the server's database inserts, and the loss of its single
  `dbctx` connection, which nothing reconnects. Spec 4.8 lets a failed insert
  be logged and the loop go on, so the event and ACK tables are modelled as the
  rows the server asks for.
* ACKs from senders other than the sink's client. `recvfrom()` takes an ACK
  from any address, but the modelled clients answer only their own TGRs.
