# VWNetLib in TLA+

VWNetLib is a small C++ network library (an edge-triggered epoll loop, a
thread pool, TCP connections with a read buffer and a write queue) and two
programs built on it: `BSESimulator`, a server that plays files back to the
clients of an account, and `BSEClient`. This directory holds TLA+ modules for
the library and both programs, TLC configurations that check them on small
instances, and proofs, checked by TLAPS, of what holds for every instance.
Paths below are relative to `src/`.

    tlc -config ThreadPool.cfg MCThreadPool.tla     # check a model
    tlapm ThreadPoolProofs.tla                      # check its proofs

## 1. The system

| Component | State it keeps | Operations |
|---|---|---|
| `ThreadPool` (`thread_pool.hpp`) | `Tasks_`, `Mutex_`, `TaskReady_`, `Running_`, `Threads_` | `Commit`, `Start`, `Stop`, `Work` |
| `EpollNet` (`epoll_net.cpp` 36-362) | `Epollfd_`, `Cmdfd_`, the FIFO, `FdHandlers_`, `CmdHandlers_`, `NetContext_` | `Init`, `Run`, `Command`, `Stop`, `handle_command`, `create_context`, `delete_context`, `clear_context_event`, `registry_fd_handler` |
| `EpollNetTcp` (365-520) | per connection: `r_buf`, `r_data`, `r_size`, `w_req_q`, three mutexes | `handle_read`, `handle_write`, `send_data`, `disconnect` |
| `EpollNetTcpServer` (523-575) | the listening socket | `start_service`, `handle_accept` |
| `EpollNetTcpClient` (578-599) | the connecting socket | `start_service` |
| `BSESimulator` (`server/bse_server.cpp`) | `Accounts_`, `SockLookup_`, `ClientContext_`, its own `ContextMutex_`, `is_quit_current_task` | `process_data`, login, logoff, queries, `on_connect`, `on_disconnect`, `handle_file_notify`, `command_playback`, `command_kick`, `command_list` |
| `BSEClient` (`client/bse_client.cpp`) | `account_`, `jnl_file_`, the connection; a second pool whose only task is `Run` | `on_connect`, `send_login`, `send_logoff`, `process_data`, `save_jnl`, `close_jnl_file`, `handle_quit`, `main`'s quit, the destructor |
| message layout and helpers (`venues/`) | none | message sizes and types, `ReverseEndian`, `trim` |
| console, configuration | none after start | `q c p k l v`; one JSON file read at start |

How they interact. One thread is in `Run`. It turns every event of epoll into
a task for the pool (`handle_accept`, `handle_read`, `handle_write`,
`handle_file_notify`, a command's handler), except for the end of a connection
and the commands themselves, which it handles itself. The pool's threads call
back into the derived class (`process_data`, `on_connect`, `on_disconnect`),
which calls `send_data`, which arms `EPOLLOUT` for `Run` to see. Other threads
(the console) write records to a FIFO that `Run` watches. All of them share the
tables `NetContext_`, `SockLookup_`, `ClientContext_`, which are written under
a mutex and read, mostly, without one.

What is hard, and what correct means:

* **Threads and wakeups** (pool): no task lost, doubled or overtaken; no lost
  wakeup; when `Stop` has returned nobody runs.
* **Edge-triggered events** (read, write, FIFO, inotify, accept): an event
  tells of a change once. Nothing may stay unread, unwritten or unaccepted
  because the event was spent while somebody looked the other way.
* **Several tasks for one connection at once** (read, write): buffer and queue
  must pass from one thread to the next intact.
* **Descriptor numbers used again** (table, sessions): a number is the only
  name a connection has in a task, a copy of a set or a half-done clear.
* **Looks outside the mutex** (table, sessions, playback), and a connection
  ended by two threads at once.
* **One flag for all playbacks**, reset and set by each of them.
* **Shutdown**: pool, FIFO, connections, epoll, in this order; at the client,
  a quit that is typed while `Run` is still connecting, and a `FILE` that three
  threads and the destructor may close.
* **A stream that several threads write**: replies, a broadcast and a playback
  in slices share one connection, and the reader finds the next header by the
  size in the last one.
* **Data that must survive the way**: byte order, a code cut to 16 bits, a
  password padded, cut and trimmed, a flag stored unsigned and read signed.

The full list, with lines, is under `hazards` in `PROJECT.json`.

## 2. Modules

| Module | Models | Composes |
|---|---|---|
| `TaskPool` | what the pool promises: begin in order, at most once, nothing after close | |
| `ThreadPool` | `thread_pool.hpp` | implements `TaskPool` |
| `TcpRead` | `handle_read` and one connection's buffer | |
| `TcpWrite` | `send_data`, `handle_write`, one connection's queue | |
| `EventLoop` | `Run`, the FIFO, the shutdown | uses `TaskPool` as its pool |
| `Connections` | `NetContext_`, accepting and clearing, with numbers used again | |
| `BSESession` | accounts, login, disconnect, file watch, broadcast | |
| `Playback` | journal playback and its cancel flag | |
| `Wire` | sizes and types of the messages, byte order, padding and trimming, as functions | |
| `Dialog` | requests and replies of client and server, with what other threads of the server send to the same connection | `Wire`; both programs |
| `BSEClient` | the client: `main`, `Run`, its pool, the journal file | `EpollNetTcpClient` and `BSEClient` |
| `MC*` | symmetry and constant values for TLC | |
| `*Proofs` | theorems, of one module each; `ServerProofs` has those of `EventLoop` and of `Playback` | |

Each step of a model is the stretch of code between two points at which another
thread or the kernel can interfere; the header of each module says where these
points are. Variables and actions carry the names of the code. In every module
`pc` says where a thread is in its function, and a thread's locals are
functions of the thread. Kernel behaviour is modelled by its contract: the
ready list of edge-triggered epoll (queued on a change or by `epoll_ctl`,
reported once, if still true), `read`, `write`, `accept` and `close` on
non-blocking descriptors, the lowest free number being *some* free number.

**ThreadPool.** `Commit` is two steps, the locked block and `notify_one`. A
worker goes `loop` (tests `Running_`), `lock`, `locked`, then `run`, or `block`
(predicate found false, mutex still held) and `waiting`. `Stop` is three steps:
flag, `notify_all`, join. `Running_` is a plain `bool` that is written while it
is read; a read is taken to return the value before or after the write.

**TcpRead.** A byte is its position in the peer's stream, `Boundary` the
positions at which messages end, and `r_buf` is kept byte by byte. `Accepts`
is what `process_data` returns: all whole messages at the front. `Rearm` is
`send_data`'s `EPOLL_CTL_MOD`, which re-reports a readable socket.

**TcpWrite.** A byte is its position in queueing order. `nospace` is the
kernel's memory of a full buffer, which makes it report `EPOLLOUT` once when
`LowWater` bytes are free again. `ShutDown` is a kick, or the `shutdown` half
of `delete_context`; a `write` after it raises SIGPIPE (`WriteBrokenPipe`),
since no file of the program ignores the signal.

**EventLoop.** `typed` numbers the records; a command's task in the pool has
the number of its record. `merged` counts records that met an event already
pending. `EpollWaitFails` is any -1 of `epoll_wait`, EINTR included.

**Connections.** A connection is its rank of arrival; `sock` maps a descriptor
to the connection behind it, `NetContext_` to the connection its entry was made
for. What `handle_read` does with bytes is left to `TcpRead`. Each connection
sends at most once (`sent`), which bounds the model and is enough for an event,
a task and a read to be in flight. `wronged`, `mixed` and `early` tell what a
number used again has led to. The last is the one that leaves a connection open
for ever: a thread clears connection 1 while its acceptor is still before
`add_event`; connection 2 gets the number, and the late `add_event` watches it;
its end is reported before `create_context`, so `Run` finds nothing to clear;
and its own `add_event` fails, as the number is watched already.

**BSESession.** An account's inotify descriptor is named by the account. A
write to the watched file goes `modified` (unread in the inotify descriptor),
`ready`, `notifies` (task in the pool), broadcast. The first login of a watched
account is `WatchFile` and what follows it, or `WatchFails`: inotify gives no
watch, no handler is registered, and the account's later clients join the
context as it is. `unheard` is a write that came before the handler or the
context was there; reading the descriptor, or the end of the context, settles
it. `NetContext_` is taken to be in step with the descriptors: `Connections` has
that detail. `DropAborts` is `erase(end())`, which is undefined; with the library's `std::set` the node it
frees is the set's own header, and the process aborts.

**Playback.** Files are sizes, sends are numbers of bytes. A client may log in
again, to another account: `SockLookup_` has the last one, and it stays among the
clients of the first, where its number is left behind when it goes. `dangling` says that
the context a thread holds a reference and an iterator to has been erased; using
it then reads what was left there or ends the process. `q` is taken to stop the
pool at once; in the code this takes the way through the FIFO (`EventLoop`).

**Wire.** A number is a number, a string a sequence of characters.
`ReverseEndian16` and `ReverseEndian32` take the bytes by division where the code shifts and
masks. `Password` is what `send_login` puts in the field: the
password, blanks up to the field's length, and nothing past it.

**Dialog.** One client and the server, each with its account file, and two
FIFOs between them. A request on its way is its fields in wire order; a reply
is one unit, a file as many units as it has bytes. `ServerReads` is
`process_data`: `calc_msg_size` gives the size of every type, and the requests
are cut by it, rightly or not (`astray`). `ClientReads` finds headers where the
last size says they are; when the next unit does not follow on the last
(`Follows`), what it takes for a header is file content (`broken`). `heard` and
`delivered` are the replies and the query files that came in, a file with the
number of replies before it. A playback (`Play`) reads a buffer and sends
slices of a rate, in a thread of its own; a broadcast (`SendForAccount`) is the
account's file in one piece. `cut` says that some piece has ended inside a
message. The messages of a file are given by the positions at which they end.
`TcpRead` and `TcpWrite` justify the FIFOs, and `r_mutex` that there is one
reader at each end. `HandleQuit` is the client's logoff; the shipped `main`
never asks for it, a program that uses the class may.

**BSEClient.** `main` types a quit, stops the pool whose task is `Run`, and
returns, which runs the destructor. `Run` goes through `connect`, the FIFO, the
loop and the shutdown; `handle_read` and `handle_write` of the pool's threads,
and the end of a connection as `Run` or a reader or a writer sees it, are as
in `TcpRead`, `TcpWrite` and `Connections`, at the grain the file needs.
`Cmdfd_` is 0 before the FIFO is open, which is standard input, and the number
of a closed descriptor after `Run`. The quit goes through two `Stop`s, of
`Run`'s pool and of `main`'s, and each may lose its `notify_all` to a thread
that has found nothing to do and does not wait yet (`StopPoolLost`,
`StopThreadsLost`; `ThreadPool_stop` has the detail): then its join never ends.
`EventLoop` and `Playback` take `Stop` to return. A use of the `FILE` after its `fclose`
sets `corrupted`, and nothing is said of the file after that.

## 3. What is checked

Nine runs pass; each checks a module's type invariant, its safety properties
and, under `FairSpec`, its liveness (`BSESession` has none to check).

| Run | Bounds | States | Shows |
|---|---|---|---|
| `ThreadPool` | 2 workers, 2 producers, 3 tasks | 13 237 | `NoSleepWhileBacklog`, `ImplementsTaskPool`, `EveryTaskRuns`, `StopReturnsOutsideWindow` |
| `TcpRead` | buffer 4, messages of 1, 2, 4, 5 bytes, 2 threads, 2 tasks waiting | 103 804 | `BufferGeometry`, `BufferContent`, `NoWholeMessageLeft`, `InputSeen`, `OnlyOversizeStalls`, `EveryMessageHandled` |
| `TcpWrite` | 2 senders, 2 threads, requests of 1 and 3 bytes, 4 bytes in all, send buffer 2 | 300 048 | `WireInOrder`, `NoStrandedRequest`, `EveryRequestWritten` |
| `EventLoop` | 4 records | 4 684 | `Backlog`, `FreedLast`, `QuitAloneStops` |
| `Connections` | 1 descriptor, 3 connections of which 1 sends, 2 threads and `Run` | 58 983 | `TableMatchesKernel`, `NobodyForgotten`, `EndedIsClosed`, `AllAccepted` |
| `BSESession` | 1 watched account, 2 descriptors, 2 connections, 2 threads and `Run` | 461 509 | `TablesAgree`, `WriteOnItsWay` |
| `Playback` | 2 accounts, 1 descriptor, 2 threads, 2 playbacks of all accounts, a file of 3 bytes in buffers of 2 or 1 | 472 443 | `CancelHeardOnceOpen`, `EveryPlaybackEnds` |
| `Dialog` | 9 clients, 3 accounts, a file of 3 bytes with messages of 2 and 1, a playback, a broadcast | 52 880 | `FramesIntact`, `InStep`, `AnswersInOrder`, `EveryRequestAnswered` |
| `BSEClient` | 2 messages, 2 threads, `Run` and `main`, 1 task waiting | 420 368 | `JournalInOrder`, `FileSafeWhileUp`, `QuitReturnsIfHeard` |

`LockInv`, `OnePlace` and `StoppedInv` of the thread pool and `HandledInOrder` of
`TcpRead` are proved, and not checked again; a task in two places would also break
`ImplementsTaskPool`, and messages out of order `BufferContent` or
`NoWholeMessageLeft`.

Why the bounds are enough. *ThreadPool*: with two workers and two producers a
task can arrive while one worker sleeps, another runs and a notify is pending;
the theorems cover the rest. *TcpRead*: the messages make every branch happen:
two messages in one read, a remainder that is moved, a buffer filled exactly,
one that overflows it; a third thread would only wait for `r_mutex`.
*TcpWrite*: a request longer than the send buffer, one that fits, and a second
sender between them; `LowWater` above 1, so that some free space is not yet
writable. *EventLoop*: two records merge while a third is handled and a fourth
comes during the shutdown. *Connections*: connections on the one number must
use it again, and may find none free. Three are needed: the first is closed in
place of the second or while its acceptor is late, and the third is the one
that suffers. One sender (`Talker`) is enough for a stale task to read or to
clear; `Connections_wide.cfg` checks the invariants with two numbers and three
senders (2.3 million states). *BSESession*: two clients in one account
and one of them ended by two threads; the second account, and the login to
both, are covered by the theorem. *Playback*: account `a` has two buffers, the
first of two slices; `b` is so slow that a slice has no byte. Playbacks are
asked for all accounts (`Target`): one of a single account takes the same steps,
with the other account's file not opened; the `Playback_*` configurations have
both. *Dialog*: the accounts are played in
slices that are messages, in one piece, and in slices that cut a message; the
clients have the right password, a wrong one, one with a blank at its end, one
as long as the field and one longer, a code that is another's in 16 bits, one
that is nobody's, and a query of a login's type; four requests are a login, two
queries and a logoff. *BSEClient*: one message is being saved while the next
arrives, and both threads and `Run` see the connection end; a third thread
would wait for the same two mutexes, and the theorems cover it.

Deadlock is not checked: all these systems may come to rest (no more input, the
pool stopped, the process gone).

### Fairness

Weak fairness of a thread's steps: the operating system schedules every thread
that can run, and tasks return. Nothing makes a client, the console, a spurious
wakeup or a `Stop` happen. `TcpWrite` also assumes that the peer goes on
reading: without that a full send buffer stays full, and the property would be
about the peer. `EventLoop` is fair only to the loop. In `Dialog` both ends
read what is there; nobody owes a quit, a broadcast or a playback's next slice. In
`BSEClient` `main`, `Run` and each worker run; `connect` may block for ever,
and the keyboard and the network owe nothing. A mutex handed to another thread
for ever does not occur: each holder gives it up for good after finitely many
steps, as inputs are finite.

### Claims of the code that do not hold

Three runs end in a counterexample. Each states what a comment, a test or the
console's help says; the lines are quoted under `findings`.

| Run | Property | What happens |
|---|---|---|
| `ThreadPool_stop` | `StopReturns` | `Stop` sets the flag and notifies between a worker's predicate and its wait, and joins it for ever |
| `EventLoop_quit` | `QuitStops` | a quit that shares an event with another command stays in the FIFO |
| `BSESession_account` | `SentWithinAccount` | a file goes to a connection that took over a number from the copied set |

Further configurations are kept beside these. Each has a counterexample of its
own, for a claim next to one that a run checks:

| Configuration | Property | What happens |
|---|---|---|
| `TcpWrite_kick` | `SurvivesDisconnect` | SIGPIPE after a kick |
| `Connections_clear` | `ClearsItsOwn` | a thread late to clear a connection closes the next one with that number |
| `Connections_mixed` | `OneRelationship` | input is read into another connection's context |
| `Connections_early` | `WatchesItsOwn` | an acceptor whose connection was closed watches the next one with that number, before it has an entry |
| `BSESession_heard` | `EveryWriteHeard` | a write during the first login is not told of |
| `BSESession_kick` | `KickSpares` | `erase(end())` |
| `Playback_cancel` | `CancelHeard` | the cancel is wiped out by the next file that is opened |
| `Playback_quit` | `QuitEnds` | a playback to a client that has left spins for ever |
| `Playback_account` | `JournalWithinAccount` | a number is taken over during a playback |
| `Dialog_cut` | `FramesAlwaysIntact` | a slice ends inside a message, and a reply follows it |
| `Dialog_code` | `AcceptedAsAsked` | a code of 65536 or more logs in as another account |
| `BSEClient_quit` | `QuitReturns` | a quit typed before the FIFO is open is lost, and `main` waits for ever |

`Connections_wide.cfg` passes: it is `Connections` with two numbers.

The passing properties that sit next to a failing claim excuse exactly the
failing case, by a history variable or a named condition, and so say that it is
the only one: `StopReturnsOutsideWindow` (a worker in `block`), `QuitAloneStops`
(`merged`), `NobodyForgotten` and `EndedIsClosed` (`early`), `AllAccepted` (`exhausted`),
`WriteOnItsWay` (`unheard`), `CancelHeardOnceOpen` (`reopened`),
`EveryPlaybackEnds` (`Spins`, `aborted`), `FramesIntact` (`cut`), `InStep` (a
query of a login's or a logoff's type), `AnswersInOrder` (`Fits`),
`FileSafeWhileUp` (the server has hung up), `QuitReturnsIfHeard` (`unheard`,
SIGPIPE, and `WakeupLost`, the window of `StopReturnsOutsideWindow`).
`TablesAgree` asks for a handler only where inotify gave a watch.

## 4. What is proved

All theorems hold for every value of the constants that satisfies the module's
`ASSUME`, which asks for no more than distinct placeholders, finite sets of
threads, and positive sizes.

* **ThreadPool** (`PoolTypes`, `PoolLock`, `PoolBacklog`, `PoolOnePlace`,
  `PoolStopped`, `PoolImplements`). The inductive invariant is the conjunction
  `PoolInv`. `LockInv` says who holds the mutex and that a worker in `block`
  still has an empty queue; the backlog invariant needs it for the step from
  `block` to `waiting`, the only one at which a sleeper appears. `OnePlace` is
  needed for the refinement, where `running` is the *set* of the workers' jobs:
  a job that two workers held would end twice. `PoolImplements` maps
  `closed` to "`Stop` has returned", so `StoppedInv` makes `Begin` impossible
  after it.
* **TcpRead** (`ReadCorrect`, `ReadStalls`, `ReadInOrder`, `ReadSees`), for any
  buffer size and any set of boundaries. `ReadInv` joins the geometry of the buffer (the
  reader's `size_remain` is exact while it holds the mutex), its content (byte
  `i` of the unprocessed part is `processed + i`) and the absence of a whole
  message. Content needs geometry for the move to the front; the last needs
  content to know which bytes `process_data` saw. `ReadStalls` and `ReadInOrder`
  follow from it. `ReadSees` is `InputSeen`, the safety that `EveryMessageHandled`
  rests on; it is inductive with `ReadInv`, which tells that a reader without
  room has a full buffer.
* **TcpWrite** (`WriteOrdered`, `WriteNotStranded`). `WireInOrder` is inductive
  together with the types: the queue is a chain of consecutive pieces, one
  worker at a time is between `write` and the update, and the wire ends where
  the front begins plus what is not yet accounted for.
* **EventLoop** (`LoopBacklog`, `LoopFreedLast`). `LoopInv` adds to the types
  and the backlog that no more records were merged or left unread than were
  typed, that there is an edge only for a monitored FIFO, that `Run` handles a
  command only then, and that before `MonitorFifo` nothing is monitored or
  merged. `LoopFreedLast` has an invariant of its own: from the return of
  `Stop` on the pool is closed and idle, and the connections are freed only
  in the last phase.
* **Connections** (`TableTypes`, `TableCorrect`, `TableForgetsNobody`), for any
  numbers of descriptors, threads and connections. `TableInv` adds two facts to
  `TableMatchesKernel`. `AcceptedOnce`: a connection in the backlog has neither
  descriptor nor entry, and no two threads create for the same number; without
  it `create_context` might find an entry in its way. `Stale`: the entry a
  thread is about to erase is not that of the number's next owner, since that
  one cannot be made while the mutex is held.
  `TableForgetsNobody` is the safety that `AllAccepted` and `EndedIsClosed`
  rest on. `Watch` and `Hears` say, of each descriptor, that it is watched, or a
  thread is to watch or close it, and that what a watched one has to report is
  still in the ready list, in a task, or in the hands of a reader or a clearer.
  The hard step is a thread that finds no entry and gives up. `TableInv` says that
  the owner then has an acceptor before `create_context`, and `EntryFirst` that
  it is not watched yet, so nothing was lost. `EntryFirst` fails exactly when an
  acceptor watches another connection than its own, which is `early`:
  `OneAcceptor`, that each connection has one acceptor, shows there is no other
  way.
* **Dialog and Wire** (`ReverseTwice16`, `ReverseTwice32`, `FlagArrives`,
  `PasswordArrives`, `TypeCorrect`, `StaysInStep`, `StreamIntact`,
  `DialogAnswers`). The first
  four are about the conversions alone: a number is written in bytes
  (`Digits16`, `Digits32`), turned round, and turned round again; a trimmed
  password that fits comes back whatever the length of the field. `StreamIntact`
  rests on `Intact`, for as long as nothing is `cut`: the stream to the client
  is a chain in which each unit follows on the last, and it ends at the end of
  a message, where each playback also is, so that any thread may send next.
  `DialogAnswers` is `AnswersInOrder`, for any accounts, codes, passwords and
  number of queries. `AnswerInv` has five parts. `Mirror`: the requests on their
  way are the last ones asked, so the server answers in the order of asking.
  `Session`: the connection is nobody's or the client's account, and what the
  server is handling is what the client meant by it. `Admitted`: an acceptance on
  its way is true. `Told`: what was heard so far is right.
  `Ledgered` carries it to what is still on its way: each unit has a rank, the
  request whose reply is the last before it, and a file that answers a query
  lies between that query's `Ok` and the next reply, whatever broadcasts and
  playbacks are sent between. With nothing on its way the ranks say that
  no reply is missing, which is the safety of `EveryRequestAnswered`.
* **Playback** (`PlaybackWithinFile`, `PlaybackCancelHeard`), for any numbers of
  accounts, descriptors, threads and playbacks and any file, buffer and slice.
  The types say that a slice lies within what was read of the file, and that an
  open descriptor is among the clients of the account it logged in to last. That
  no descriptor is in two accounts would be false.
  `HearsCancel` says of each playback that was told to cancel, and after which no
  other has opened its file, that the flag is still set, that it has read at
  most one buffer since, and that if it has read one it is still sending it: it
  cannot be back at the test of the flag with a second buffer to come.
* **BSEClient** (`ClientTypes`, `ClientFileSafe`, `ClientJournal`), for any number
  of threads and messages. `Staffed`: no task runs before the pool starts or after it has
  stopped, and `main` has returned only after `Run`. `Undisturbed`: with the
  server there, nobody sees the connection end, the socket is up while a task
  may use it, and only the destructor has closed the file. The types need
  `Counts`: a message that is being saved has been read. `ClientJournal` adds that
  one thread at a time is between the read and the save (`OneReader`), and what
  the pointer says of the `FILE` at each step of its opening and closing
  (`Pointer`): a journal with its pointer set has every message that was read,
  but for the one in that thread's hands.
* **BSESession** (`SessionTables`, `SessionWrites`). The strengthening
  (`SessionInv`) says that
  `ContextMutex_` is held by exactly the worker in the middle of the first
  login, that the account it registers is the only one with a watch and no
  context, and that this worker's `code` is a real account. It says nothing of
  a context without a watch, which inotify may refuse.
  `SessionWrites` is `WriteOnItsWay`, which is inductive as it stands.

Only model-checked: all liveness (it rests on fairness, out of the prover's
reach; `StopReturnsOutsideWindow`, `EndedIsClosed` and `QuitReturnsIfHeard` are
of this kind).

## 5. What is not modelled

* Reading the configurations: `get_config` of the client and
  `init_from_cfgfile` of the server run once, before any thread, and turn JSON
  into the records that `Dialog` has as constants.
* Wording, and the console but for `q`, `c`, `p` and `k`: `l` prints the tables.
* The 64-bit and floating-point `ReverseEndian`, and the password-change
  messages, which no program uses.
* Torn reads of an `unordered_map` that another thread changes: a look outside
  the mutex is taken as before or after the change. The code's races are
  undefined behaviour in the language; the models show what goes wrong even
  when each look is atomic.
* The number of a notify descriptor being used again for a connection, and
  `registry_fd_handler`'s `epoll_ctl` failing. `handle_file_notify` reads its
  descriptor until it is empty and looks up the account in one step.
* In `TcpWrite`, a `write` that returns 0 (`epoll_net.cpp` 457-463): on a socket,
  with something to write, it does not.
* In `EventLoop`, the difference between a `Cmdfd_` of 0 (`mkfifo` failed) and of
  -1 (`open` failed): `OpenFifoFails` is both, and a record is unheard in either.
* In `Playback`, read errors and short reads of a file. A number that another
  connection has taken, and that has not logged in, counts as closed there.
* A `Stop` that does not return, in `EventLoop` and `Playback`.
* A client context with more than one connection: `BSEClient` makes one.
* `send_data` without copying, and its second `malloc`.
* The test programs, and `jsoncpp`, which is a library.

## 6. Plan

Order so far: pool, read, write, event loop, connections, sessions, playback,
the wire and the dialog, the client. What remains, most important first:

1. An abstract connection (a FIFO of messages each way) that `TcpRead` and
   `TcpWrite` implement, to be named by `Dialog` in place of its two sequences.
2. Notify descriptors drawn from the same numbers as sockets.
