------------------------------ MODULE BSEClient ------------------------------
(***************************************************************************)
(* The client program: main, which waits for `q', a thread of its own pool *)
(* in EpollNet::Run, and Run's pool, whose threads save every message of   *)
(* the server that is not a reply in the account's journal, one FILE that  *)
(* whoever sees the connection end closes.                                 *)
(*                                                                         *)
(* Data.  A message is its rank among those the server has sent.  TcpRead  *)
(* has the bytes, Dialog what the two ends say to each other; here the     *)
(* server may send anything.  What waits to be written to the socket is    *)
(* something or nothing (TcpWrite), and read() takes one message.          *)
(*                                                                         *)
(* Grain.  close_jnl_file is three steps, the test, fclose and the         *)
(* assignment, and save_jnl two, the test and fwrite; for the rest one     *)
(* step for each system call, queue or mutex.  clear_context_event is one  *)
(* step (Connections has the detail), and a number, once closed, is not    *)
(* used again.  The pool is what TaskPool says; a FIFO that cannot be made *)
(* and an epoll_wait that fails are in EventLoop.                          *)
(*                                                                         *)
(* fwrite or fclose on a FILE that is closed is undefined; the model       *)
(* records it in corrupted, and says nothing of the file from there on.    *)
(***************************************************************************)
EXTENDS Integers, Sequences

CONSTANTS
  Worker,                   \* threads of Run's pool
  Loop,                     \* the thread in Run
  Nobody,                   \* holds a mutex that is free
  MaxSent,                  \* bound: messages the server sends
  MaxQueued                 \* bound: the pool's queue when Run adds to it

ASSUME ClientAssumption ==
  /\ Loop \notin Worker
  /\ Nobody \notin Worker
  /\ MaxSent \in Nat /\ MaxQueued \in Nat

VARIABLES
  main,                     \* where main is
  pc,                       \* where Run and the workers are
  Cmdfd_,                   \* what Command writes to: stdin (0), fifo, closed
  fifo,                     \* the quit is in the FIFO, unread
  monitored,                \* the FIFO is in the epoll set
  fifo_edge,                \* it is on epoll's ready list
  unheard,                  \* history: the quit was written elsewhere
  conn,                     \* the socket and its context: none, up, closed
  edge,                     \* it is on epoll's ready list
  peer,                     \* the server's end: up, gone
  sent,                     \* history: the kinds of the messages it sent
  taken,                    \* how many of them were read
  unwritten,                \* w_req_q is not empty
  Tasks_,                   \* tasks in the pool not begun
  closed,                   \* the pool has stopped
  r_mutex, w_mutex,         \* of the connection's context
  jnl_file_,                \* the pointer is not null
  file,                     \* the FILE: none, open, closed
  journal,                  \* ranks of the messages given to fwrite
  corrupted,                \* a FILE was used after its fclose
  died                      \* SIGPIPE

commandVars == <<Cmdfd_, fifo, monitored, fifo_edge>>
socketVars == <<conn, edge, unwritten>>
streamVars == <<sent, taken>>
poolVars == <<Tasks_, closed>>
lockVars == <<r_mutex, w_mutex>>
fileVars == <<jnl_file_, file, journal, corrupted>>
vars == <<main, pc, commandVars, unheard, socketVars, peer, streamVars, poolVars, lockVars,
          fileVars, died>>

Thread == Worker \cup {Loop}

\* What process_data tells apart: replies (login, logoff, query), and the
\* rest, which is saved.
Kind == {"reply", "data"}

Goto(t, label) == pc' = [pc EXCEPT ![t] = label]

Init ==
  /\ main = "typing"
  /\ pc = [t \in Thread |-> IF t = Loop THEN "queued" ELSE "idle"]
  /\ Cmdfd_ = "stdin" /\ fifo = FALSE /\ monitored = FALSE /\ fifo_edge = FALSE
  /\ unheard = FALSE
  /\ conn = "none" /\ edge = FALSE /\ unwritten = FALSE
  /\ peer = "up"
  /\ sent = << >> /\ taken = 0
  /\ Tasks_ = << >> /\ closed = FALSE
  /\ r_mutex = Nobody /\ w_mutex = Nobody
  /\ jnl_file_ = FALSE /\ file = "none" /\ journal = << >> /\ corrupted = FALSE
  /\ died = FALSE

-----------------------------------------------------------------------------
(* main: its input, and the pool that has Run as its task *)

\* Stop(): a CMD_QUIT goes to whatever Cmdfd_ is.
TypeQuit ==
  /\ main = "typing"
  /\ main' = "typed"
  /\ IF Cmdfd_ = "fifo"
     THEN fifo' = TRUE /\ fifo_edge' = monitored /\ UNCHANGED unheard
     ELSE unheard' = (pc[Loop] # "returned") /\ UNCHANGED <<fifo, fifo_edge>>
  /\ UNCHANGED <<pc, Cmdfd_, monitored, socketVars, peer, streamVars, poolVars, lockVars,
                 fileVars, died>>

\* thread_pool.Stop(): the flag and the notify_all, then the join.
StopThreads ==
  /\ main = "typed"
  /\ main' = "join"
  /\ UNCHANGED <<pc, commandVars, unheard, socketVars, peer, streamVars, poolVars, lockVars,
                 fileVars, died>>

\* They come, without Mutex_, when Run's thread, Run done, has found Running_
\* true and does not wait yet: it is never woken, and the join never ends.
StopThreadsLost ==
  /\ main = "typed"
  /\ pc[Loop] = "returned"
  /\ main' = "hung"
  /\ UNCHANGED <<pc, commandVars, unheard, socketVars, peer, streamVars, poolVars, lockVars,
                 fileVars, died>>

\* The thread takes Run from its queue, or finds Running_ false.
BeginRun ==
  /\ pc[Loop] = "queued"
  /\ Goto(Loop, IF main = "join" THEN "returned" ELSE "connect")
  /\ UNCHANGED <<main, commandVars, unheard, socketVars, peer, streamVars, poolVars, lockVars,
                 fileVars, died>>

\* Run has been joined, and ~BSEClient closes the file.
Destroy ==
  /\ main = "join"
  /\ pc[Loop] = "returned"
  /\ main' = "returned"
  /\ IF jnl_file_
     THEN /\ corrupted' = (corrupted \/ file = "closed")
          /\ file' = "closed"
          /\ jnl_file_' = FALSE
     ELSE UNCHANGED <<jnl_file_, file, corrupted>>
  /\ UNCHANGED <<pc, commandVars, unheard, socketVars, peer, streamVars, poolVars, lockVars,
                 journal, died>>

-----------------------------------------------------------------------------
(* The server *)

Send(kind) ==
  /\ conn = "up" /\ peer = "up"
  /\ Len(sent) < MaxSent
  /\ sent' = Append(sent, kind)
  /\ edge' = TRUE
  /\ UNCHANGED <<main, pc, commandVars, unheard, conn, unwritten, peer, taken, poolVars, lockVars,
                 fileVars, died>>

\* A FIN or an RST; writing to the server may still succeed after it.
Hangup ==
  /\ conn = "up" /\ peer = "up"
  /\ peer' = "gone"
  /\ edge' = TRUE
  /\ UNCHANGED <<main, pc, commandVars, unheard, conn, unwritten, streamVars, poolVars, lockVars,
                 fileVars, died>>

-----------------------------------------------------------------------------
(* Run: start_service and setup_command_fd, before the pool starts *)

\* connect() blocks for as long as the network makes it.
ConnectFails ==
  /\ pc[Loop] = "connect"
  /\ Goto(Loop, "returned")
  /\ UNCHANGED <<main, commandVars, unheard, socketVars, peer, streamVars, poolVars, lockVars,
                 fileVars, died>>

\* The login is queued, and the journal opened for appending, or not.
on_connect ==
  /\ unwritten' = TRUE
  /\ \/ jnl_file_' = TRUE /\ file' = "open"
     \/ UNCHANGED <<jnl_file_, file>>

\* create_context, add_event and on_connect.
Connect ==
  /\ pc[Loop] = "connect"
  /\ Goto(Loop, "fifo")
  /\ conn' = "up" /\ edge' = TRUE
  /\ on_connect
  /\ UNCHANGED <<main, commandVars, unheard, peer, streamVars, poolVars, lockVars, journal,
                 corrupted, died>>

OpenFifo ==
  /\ pc[Loop] = "fifo"
  /\ Goto(Loop, "monitor")
  /\ Cmdfd_' = "fifo"
  /\ UNCHANGED <<main, fifo, monitored, fifo_edge, unheard, socketVars, peer, streamVars,
                 poolVars, lockVars, fileVars, died>>

\* Mutant: what is in the FIFO already is not reported.
MonitorFifoBlind ==
  /\ pc[Loop] = "monitor"
  /\ Goto(Loop, "wait")
  /\ monitored' = TRUE
  /\ UNCHANGED <<main, Cmdfd_, fifo, fifo_edge, unheard, socketVars, peer, streamVars, poolVars,
                 lockVars, fileVars, died>>

\* add_event reports what is there; then ThreadPool_.Start().
MonitorFifo ==
  /\ pc[Loop] = "monitor"
  /\ Goto(Loop, "wait")
  /\ monitored' = TRUE
  /\ fifo_edge' = fifo
  /\ UNCHANGED <<main, Cmdfd_, fifo, unheard, socketVars, peer, streamVars, poolVars, lockVars,
                 fileVars, died>>

-----------------------------------------------------------------------------
(* Run: the loop and the shutdown *)

Idling == pc[Loop] = "wait"

\* EPOLLRDHUP: on_epoll_rdhup, which is on_disconnect.
RemoteClose ==
  /\ Idling /\ edge /\ peer # "up"
  /\ edge' = FALSE
  /\ Goto(Loop, "ended")
  /\ UNCHANGED <<main, commandVars, unheard, conn, unwritten, peer, streamVars, poolVars, lockVars,
                 fileVars, died>>

\* EPOLLIN, and EPOLLOUT, which send_login has armed for good: a handle_write
\* that finds nothing queued does nothing, and is left out.
Dispatch ==
  /\ Idling /\ edge /\ peer = "up" /\ Len(Tasks_) < MaxQueued
  /\ edge' = FALSE
  /\ Tasks_' = Tasks_ \o (IF taken < Len(sent) THEN <<"read">> ELSE << >>)
                      \o (IF unwritten THEN <<"write">> ELSE << >>)
  /\ UNCHANGED <<main, pc, commandVars, unheard, conn, unwritten, peer, streamVars, closed,
                 lockVars, fileVars, died>>

\* epoll_wait reports the FIFO, and handle_command reads the quit.
HandleCommand ==
  /\ Idling /\ fifo_edge
  /\ fifo' = FALSE /\ fifo_edge' = FALSE
  /\ Goto(Loop, "stop")
  /\ UNCHANGED <<main, Cmdfd_, monitored, unheard, socketVars, peer, streamVars, poolVars,
                 lockVars, fileVars, died>>

\* Mutant: the threads are not waited for.
StopPoolNoJoin ==
  /\ pc[Loop] = "stop"
  /\ closed' = TRUE
  /\ Goto(Loop, "clear_fd")
  /\ UNCHANGED <<main, commandVars, unheard, socketVars, peer, streamVars, Tasks_, lockVars,
                 fileVars, died>>

\* ThreadPool_.Stop() returns; the tasks not begun are never run.
StopPool ==
  /\ pc[Loop] = "stop"
  /\ \A w \in Worker : pc[w] = "idle"
  /\ closed' = TRUE
  /\ Goto(Loop, "clear_fd")
  /\ UNCHANGED <<main, commandVars, unheard, socketVars, peer, streamVars, Tasks_, lockVars,
                 fileVars, died>>

\* The same, with a worker that has found no task and Running_ true, and does
\* not wait yet.
StopPoolLost ==
  /\ pc[Loop] = "stop"
  /\ Tasks_ = << >>
  /\ \E w \in Worker : pc[w] = "idle"
  /\ Goto(Loop, "hung")
  /\ UNCHANGED <<main, commandVars, unheard, socketVars, peer, streamVars, poolVars, lockVars,
                 fileVars, died>>

ClearCommandFd ==
  /\ pc[Loop] = "clear_fd"
  /\ Cmdfd_' = IF Cmdfd_ = "fifo" THEN "closed" ELSE Cmdfd_
  /\ fifo' = FALSE /\ monitored' = FALSE /\ fifo_edge' = FALSE
  /\ Goto(Loop, "free")
  /\ UNCHANGED <<main, unheard, socketVars, peer, streamVars, poolVars, lockVars, fileVars, died>>

\* delete_context(): the socket is closed, and nobody is told.
DeleteContexts ==
  /\ pc[Loop] = "free"
  /\ conn' = "closed" /\ edge' = FALSE /\ unwritten' = FALSE
  /\ Goto(Loop, "returned")
  /\ UNCHANGED <<main, commandVars, unheard, peer, streamVars, poolVars, lockVars, fileVars, died>>

-----------------------------------------------------------------------------
(* on_disconnect or on_error, then clear_context_event, in any thread *)

CloseTest(t) ==
  /\ pc[t] = "ended"
  /\ Goto(t, IF jnl_file_ THEN "fclose" ELSE "clear")
  /\ UNCHANGED <<main, commandVars, unheard, socketVars, peer, streamVars, poolVars, lockVars,
                 fileVars, died>>

CloseFile(t) ==
  /\ pc[t] = "fclose"
  /\ corrupted' = (corrupted \/ file = "closed")
  /\ file' = "closed"
  /\ Goto(t, "null")
  /\ UNCHANGED <<main, commandVars, unheard, socketVars, peer, streamVars, poolVars, lockVars,
                 jnl_file_, journal, died>>

SetNull(t) ==
  /\ pc[t] = "null"
  /\ jnl_file_' = FALSE
  /\ Goto(t, "clear")
  /\ UNCHANGED <<main, commandVars, unheard, socketVars, peer, streamVars, poolVars, lockVars,
                 file, journal, corrupted, died>>

Released(t, mutex) == IF mutex = t THEN Nobody ELSE mutex

\* A task ends, and with it what it has locked.
Leave(w) ==
  /\ Goto(w, "idle")
  /\ r_mutex' = Released(w, r_mutex)
  /\ w_mutex' = Released(w, w_mutex)

Clear(t) ==
  /\ pc[t] = "clear"
  /\ conn' = "closed" /\ edge' = FALSE /\ unwritten' = FALSE
  /\ IF t = Loop THEN Goto(t, "wait") /\ UNCHANGED lockVars ELSE Leave(t)
  /\ UNCHANGED <<main, commandVars, unheard, peer, streamVars, poolVars, fileVars, died>>

Disconnect(t) == CloseTest(t) \/ CloseFile(t) \/ SetNull(t) \/ Clear(t)

-----------------------------------------------------------------------------
(* The pool's threads *)

\* Which of several idle threads it is makes no difference: one is enough.
Begin(w) ==
  /\ pc[w] = "idle"
  /\ w = CHOOSE v \in Worker : pc[v] = "idle"
  /\ pc[Loop] \notin {"queued", "connect", "fifo", "monitor"}
  /\ ~closed
  /\ Tasks_ # << >>
  /\ Goto(w, Head(Tasks_))
  /\ Tasks_' = Tail(Tasks_)
  /\ UNCHANGED <<main, commandVars, unheard, socketVars, peer, streamVars, closed, lockVars,
                 fileVars, died>>

\* Mutant: handle_read takes no lock.
LockNothing(w) ==
  /\ pc[w] = "read"
  /\ Goto(w, IF conn = "up" THEN "reading" ELSE "idle")
  /\ UNCHANGED <<main, commandVars, unheard, socketVars, peer, streamVars, poolVars, lockVars,
                 fileVars, died>>

\* handle_read: get_context, and r_mutex.
LockRead(w) ==
  /\ pc[w] = "read"
  /\ IF conn = "up"
     THEN r_mutex = Nobody /\ r_mutex' = w /\ Goto(w, "reading")
     ELSE Goto(w, "idle") /\ UNCHANGED r_mutex
  /\ UNCHANGED <<main, commandVars, unheard, socketVars, peer, streamVars, poolVars, w_mutex,
                 fileVars, died>>

ReadMessage(w) ==
  /\ pc[w] = "reading"
  /\ conn = "up" /\ taken < Len(sent)
  /\ taken' = taken + 1
  /\ Goto(w, "process")
  /\ UNCHANGED <<main, commandVars, unheard, socketVars, peer, sent, poolVars, lockVars, fileVars,
                 died>>

\* Mutant: the lock is not given back.
ReadAgainLocked(w) ==
  /\ pc[w] = "reading"
  /\ conn = "up" /\ taken = Len(sent) /\ peer = "up"
  /\ Goto(w, "idle")
  /\ UNCHANGED <<main, commandVars, unheard, socketVars, peer, streamVars, poolVars, lockVars,
                 fileVars, died>>

\* EAGAIN.
ReadAgain(w) ==
  /\ pc[w] = "reading"
  /\ conn = "up" /\ taken = Len(sent) /\ peer = "up"
  /\ Leave(w)
  /\ UNCHANGED <<main, commandVars, unheard, socketVars, peer, streamVars, poolVars, fileVars, died>>

\* 0 or an error: on_disconnect or on_error, which do the same.
ReadEnds(w) ==
  /\ pc[w] = "reading"
  /\ conn # "up" \/ (taken = Len(sent) /\ peer # "up")
  /\ Goto(w, "ended")
  /\ UNCHANGED <<main, commandVars, unheard, socketVars, peer, streamVars, poolVars, lockVars,
                 fileVars, died>>

\* process_data: a reply may be to a login, with flag 0, and the account may
\* have queries to send; what is no reply goes to save_jnl, which looks at the
\* pointer.
ProcessData(w) ==
  /\ pc[w] = "process"
  /\ \/ sent[taken] = "reply" /\ conn = "up" /\ unwritten' = TRUE /\ edge' = TRUE
     \/ UNCHANGED <<unwritten, edge>>
  /\ Goto(w, IF sent[taken] = "data" /\ jnl_file_ THEN "fwrite" ELSE "reading")
  /\ UNCHANGED <<main, commandVars, unheard, conn, peer, streamVars, poolVars, lockVars, fileVars,
                 died>>

SaveJnl(w) ==
  /\ pc[w] = "fwrite"
  /\ corrupted' = (corrupted \/ file = "closed")
  /\ journal' = Append(journal, taken)
  /\ Goto(w, "reading")
  /\ UNCHANGED <<main, commandVars, unheard, socketVars, peer, streamVars, poolVars, lockVars,
                 jnl_file_, file, died>>

\* handle_write: get_context, and w_mutex.
LockWrite(w) ==
  /\ pc[w] = "write"
  /\ IF conn = "up"
     THEN w_mutex = Nobody /\ w_mutex' = w /\ Goto(w, "writing")
     ELSE Goto(w, "idle") /\ UNCHANGED w_mutex
  /\ UNCHANGED <<main, commandVars, unheard, socketVars, peer, streamVars, poolVars, r_mutex,
                 fileVars, died>>

\* What is queued is written, if anything is.
Write(w) ==
  /\ pc[w] = "writing"
  /\ ~unwritten \/ conn = "up"
  /\ unwritten' = FALSE
  /\ Leave(w)
  /\ UNCHANGED <<main, commandVars, unheard, conn, edge, peer, streamVars, poolVars, fileVars, died>>

\* An error: on_error.
WriteFails(w) ==
  /\ pc[w] = "writing"
  /\ unwritten /\ (conn # "up" \/ peer # "up")
  /\ Goto(w, "ended")
  /\ UNCHANGED <<main, commandVars, unheard, socketVars, peer, streamVars, poolVars, lockVars,
                 fileVars, died>>

\* EPIPE, and the signal that nothing ignores.
WriteBrokenPipe(w) ==
  /\ pc[w] = "writing"
  /\ unwritten /\ (conn # "up" \/ peer # "up")
  /\ died' = TRUE
  /\ UNCHANGED <<main, pc, commandVars, unheard, socketVars, peer, streamVars, poolVars, lockVars,
                 fileVars>>

-----------------------------------------------------------------------------

HandleRead(w) ==
  \/ LockRead(w)
  \/ ReadMessage(w)
  \/ ReadAgain(w)
  \/ ReadEnds(w)
  \/ ProcessData(w)
  \/ SaveJnl(w)

HandleWrite(w) ==
  \/ LockWrite(w)
  \/ Write(w)
  \/ WriteFails(w)
  \/ WriteBrokenPipe(w)

Work(w) == ~died /\ (Begin(w) \/ HandleRead(w) \/ HandleWrite(w) \/ Disconnect(w))

Run ==
  /\ ~died
  /\ \/ BeginRun
     \/ OpenFifo
     \/ MonitorFifo
     \/ RemoteClose
     \/ Dispatch
     \/ HandleCommand
     \/ Disconnect(Loop)
     \/ StopPool
     \/ StopPoolLost
     \/ ClearCommandFd
     \/ DeleteContexts

Main == ~died /\ (StopThreads \/ StopThreadsLost \/ Destroy)

\* What nobody owes us: the keyboard and the network.
Environment ==
  /\ ~died
  /\ \/ TypeQuit
     \/ \E kind \in Kind : Send(kind)
     \/ Hangup
     \/ Connect
     \/ ConnectFails

Next ==
  \/ Main
  \/ Run
  \/ \E w \in Worker : Work(w)
  \/ Environment

Spec == Init /\ [][Next]_vars

\* The threads run; connect() need not return.
FairSpec ==
  Spec /\ WF_vars(Main) /\ WF_vars(Run) /\ \A w \in Worker : WF_vars(Work(w))

-----------------------------------------------------------------------------
(* Properties *)

\* Types; a mutex is held by the thread that is inside its handler.
TypeOK ==
  /\ main \in {"typing", "typed", "join", "hung", "returned"}
  /\ pc[Loop] \in {"queued", "connect", "fifo", "monitor", "wait", "ended", "fclose", "null",
                   "clear", "stop", "hung", "clear_fd", "free", "returned"}
  /\ DOMAIN pc = Thread
  /\ \A w \in Worker : pc[w] \in {"idle", "read", "reading", "process", "fwrite", "write",
                                 "writing", "ended", "fclose", "null", "clear"}
  /\ Cmdfd_ \in {"stdin", "fifo", "closed"}
  /\ fifo \in BOOLEAN /\ monitored \in BOOLEAN /\ fifo_edge \in BOOLEAN /\ unheard \in BOOLEAN
  /\ conn \in {"none", "up", "closed"} /\ edge \in BOOLEAN /\ unwritten \in BOOLEAN
  /\ peer \in {"up", "gone"}
  /\ sent \in Seq(Kind) /\ taken \in 0 .. Len(sent)
  /\ Tasks_ \in Seq({"read", "write"}) /\ closed \in BOOLEAN
  /\ r_mutex \in Worker \cup {Nobody} /\ w_mutex \in Worker \cup {Nobody}
  /\ r_mutex # Nobody => pc[r_mutex] \notin {"idle", "read", "write", "writing"}
  /\ w_mutex # Nobody => pc[w_mutex] \notin {"idle", "write", "read", "reading", "process",
                                             "fwrite"}
  /\ jnl_file_ \in BOOLEAN /\ file \in {"none", "open", "closed"}
  /\ journal \in Seq(1 .. MaxSent)
  /\ corrupted \in BOOLEAN /\ died \in BOOLEAN

\* Those of the first n messages that are data, and a sequence that has the
\* members of S in their order.
DataAmong(n) == {i \in 1 .. n : sent[i] = "data"}

Lists(seq, S) ==
  /\ {seq[i] : i \in DOMAIN seq} = S
  /\ \A i, j \in DOMAIN seq : i < j => seq[i] < seq[j]

\* Messages that process_data has done with.
Settled == IF \E w \in Worker : pc[w] \in {"process", "fwrite"} THEN taken - 1 ELSE taken

\* However many threads are in handle_read (epoll_net.cpp:370), the journal is
\* what the server sent, in order and without a gap (bse_client.cpp:160): all
\* of it as long as the file is open, and a first part of it afterwards.
JournalInOrder ==
  ~corrupted =>
    /\ \E n \in 0 .. Settled : Lists(journal, DataAmong(n))
    /\ jnl_file_ => Lists(journal, DataAmong(Settled))

\* The FILE is used after its fclose only if the server has ended the
\* connection: then Run, a reader and a writer may all see it, and none of
\* close_jnl_file and save_jnl takes a lock.  Quitting never does it, though
\* the destructor closes the file as well (bse_client.h:37).
FileSafeWhileUp == corrupted => peer # "up"

\* A notify_all of Stop() found a thread that did not wait yet
\* (thread_pool.hpp:54-60; ThreadPool has the detail).
WakeupLost == main = "hung" \/ pc[Loop] = "hung"

\* "input 'q' to quit" (bse_client.cpp:280): main returns, as long as the quit
\* found the FIFO open or Run gone, and neither of the two Stop()s that follow
\* it (epoll_net.cpp:218, bse_client.cpp:292) loses its notify_all.
QuitReturnsIfHeard == main # "typing" ~> main = "returned" \/ unheard \/ died \/ WakeupLost

\* "input 'q' to quit" (bse_client.cpp:280), whenever that is.
QuitReturns == main # "typing" ~> main = "returned" \/ died \/ WakeupLost
=============================================================================
