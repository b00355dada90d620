------------------------------ MODULE Playback ------------------------------
(***************************************************************************)
(* The playback of journal files: command_playback and send_jnl_file, run  *)
(* by the pool's threads, and the one flag, is_quit_current_task, by which *)
(* the console's `c' and `q', and a playback that has lost its clients,    *)
(* tell every playback to stop.                                            *)
(*                                                                         *)
(* Data.  A file is its size; what is read and sent are numbers of bytes.  *)
(* A descriptor is open exactly while its client is logged in.  A client   *)
(* that logs in to a second account stays in the first, where its number   *)
(* is left behind when it goes.                                            *)
(*                                                                         *)
(* Grain.  A step ends at each use of the flag, each look at ClientContext_*)
(* and clients_fd, both without ContextMutex_, and each send_data, for     *)
(* between two of them a rated playback sleeps.                            *)
(*                                                                         *)
(* send_jnl_file is handed a reference to the shared_ptr in ClientContext_,*)
(* and command_playback holds an iterator to it, so nothing keeps the      *)
(* context alive.  When its last client has gone, the thread reads freed   *)
(* memory: it finds what was left there, the set empty and the iterator's  *)
(* successor, or the process dies.                                         *)
(***************************************************************************)
EXTENDS Integers, FiniteSets

CONSTANTS
  Code,                     \* the accounts that have a journal
  Fd,                       \* descriptors
  Worker,                   \* the pool's threads
  FileSize,                 \* bytes of a journal
  JnlRate,                  \* JnlRate of each account, bytes a second; 0 is unlimited
  SlicePerSec,              \* slice_per_sec
  DftBufSize,               \* dft_buf_size
  MaxPlaybacks,             \* bound: playbacks ever asked for
  Target,                   \* bound: what may be asked for, of Code and All
  All,                      \* no code given: every account
  NoCode                    \* -1: not logged in

ASSUME PlaybackAssumption ==
  /\ FileSize \in Nat
  /\ JnlRate \in [Code -> Nat]
  /\ SlicePerSec \in Nat \ {0} /\ DftBufSize \in Nat \ {0}
  /\ MaxPlaybacks \in Nat
  /\ All \notin Code /\ NoCode \notin Code
  /\ Target \subseteq Code \cup {All}

VARIABLES
  is_quit_current_task,
  clients_fd,               \* the descriptors of each account; none: no context
  SockLookup_,              \* the account each open descriptor logged in to last, or NoCode
  asked,                    \* playbacks asked for
  tasks,                    \* targets of the command_playback tasks in the pool
  quitting,                 \* the pool has been told to stop
  pc,                       \* where each thread is
  target,                   \* para: an account, or All
  visited,                  \* accounts command_playback's iterator has passed
  code,                     \* the account being played
  dangling,                 \* its context has been freed
  process_size,             \* bytes of the file read so far
  r_size,                   \* bytes in the buffer
  c_fds,                    \* descriptors the buffer has still to go to
  c_fd,                     \* the one it is going to
  sent_size,                \* how much of it went there
  since,                    \* history: reads since the playback was cancelled
  reopened,                 \* history: a file was opened since
  aborted                   \* the process is gone

accountVars == <<clients_fd, SockLookup_, dangling>>
commandVars == <<asked, tasks, quitting>>
taskVars == <<target, visited, code>>
bufferVars == <<process_size, r_size>>
sendVars == <<c_fds, c_fd, sent_size>>
historyVars == <<since, reopened>>
playbackVars == <<is_quit_current_task, accountVars, commandVars, pc, taskVars, bufferVars,
                  sendVars, historyVars, aborted>>

NotCancelled == 3           \* since, before any cancel; it counts up to 2 reads

Goto(w, label) == pc' = [pc EXCEPT ![w] = label]

\* send_jnl_file returns: its locals, and what is recorded of it, are gone.
Finish(w) ==
  /\ Goto(w, "return")
  /\ process_size' = [process_size EXCEPT ![w] = 0]
  /\ r_size' = [r_size EXCEPT ![w] = 0]
  /\ since' = [since EXCEPT ![w] = NotCancelled]
  /\ reopened' = [reopened EXCEPT ![w] = FALSE]

\* The iterator moves on from the account just played.
Advance(w) ==
  /\ code' = [code EXCEPT ![w] = All]
  /\ dangling' = [dangling EXCEPT ![w] = FALSE]

\* command_playback returns.
Leave(w) ==
  /\ Goto(w, "idle")
  /\ target' = [target EXCEPT ![w] = All]
  /\ visited' = [visited EXCEPT ![w] = {}]

Playing(w) == pc[w] \notin {"idle", "next", "return"}

\* Descriptors that are open, and the bytes read and sent at once.
Live == {f \in Fd : SockLookup_[f] # NoCode}
BufSize(a) == IF JnlRate[a] > 0 THEN JnlRate[a] ELSE DftBufSize
RateSize(a) == IF JnlRate[a] > 0 THEN JnlRate[a] \div SlicePerSec ELSE DftBufSize

Least(i, j) == IF i < j THEN i ELSE j

PlaybackInit ==
  /\ is_quit_current_task = FALSE
  /\ clients_fd = [a \in Code |-> {}]
  /\ SockLookup_ = [f \in Fd |-> NoCode]
  /\ asked = 0
  /\ tasks = {}
  /\ quitting = FALSE
  /\ pc = [w \in Worker |-> "idle"]
  /\ target = [w \in Worker |-> All]
  /\ visited = [w \in Worker |-> {}]
  /\ code = [w \in Worker |-> All]
  /\ dangling = [w \in Worker |-> FALSE]
  /\ process_size = [w \in Worker |-> 0]
  /\ r_size = [w \in Worker |-> 0]
  /\ c_fds = [w \in Worker |-> {}]
  /\ c_fd = [w \in Worker |-> {}]
  /\ sent_size = [w \in Worker |-> 0]
  /\ since = [w \in Worker |-> NotCancelled]
  /\ reopened = [w \in Worker |-> FALSE]
  /\ aborted = FALSE

-----------------------------------------------------------------------------
(* The console and the clients *)

Cancelled ==
  /\ since' = [w \in Worker |-> IF Playing(w) THEN 0 ELSE since[w]]
  /\ reopened' = [w \in Worker |-> IF Playing(w) THEN FALSE ELSE reopened[w]]

\* `c'.
Cancel ==
  /\ ~quitting
  /\ is_quit_current_task' = TRUE
  /\ Cancelled
  /\ UNCHANGED <<accountVars, commandVars, pc, taskVars, bufferVars, sendVars, aborted>>

\* `q': the flag, then Stop(), which makes Run stop the pool. No key is read
\* after it.
Quit ==
  /\ ~quitting
  /\ quitting' = TRUE
  /\ is_quit_current_task' = TRUE
  /\ Cancelled
  /\ UNCHANGED <<accountVars, asked, tasks, pc, taskVars, bufferVars, sendVars, aborted>>

\* `p': the command's task reaches the pool.
AskPlayback(a) ==
  /\ ~quitting
  /\ asked < MaxPlaybacks
  /\ a \notin tasks
  /\ asked' = asked + 1
  /\ tasks' = tasks \cup {a}
  /\ UNCHANGED <<is_quit_current_task, accountVars, quitting, pc, taskVars, bufferVars,
                 sendVars, historyVars, aborted>>

\* A client logs in, a new connection or one that has an account already: in
\* that account nothing changes.
Login(f, a) ==
  /\ clients_fd' = [clients_fd EXCEPT ![a] = @ \cup {f}]
  /\ SockLookup_' = [SockLookup_ EXCEPT ![f] = a]
  /\ UNCHANGED <<is_quit_current_task, dangling, commandVars, pc, taskVars, bufferVars, sendVars,
                 historyVars, aborted>>

\* clear_client_context, for the last account only, and delete_context; with the
\* account's last descriptor the context goes.
Disconnect(f, a) ==
  /\ SockLookup_[f] = a
  /\ clients_fd' = [clients_fd EXCEPT ![a] = @ \ {f}]
  /\ SockLookup_' = [SockLookup_ EXCEPT ![f] = NoCode]
  /\ dangling' = [w \in Worker |->
                    dangling[w] \/ (clients_fd[a] = {f} /\ code[w] = a)]
  /\ UNCHANGED <<is_quit_current_task, commandVars, pc, taskVars, bufferVars, sendVars,
                 historyVars, aborted>>

-----------------------------------------------------------------------------
(* command_playback *)

\* A task begins; one begun after Stop() is never run. Which of several idle
\* threads it is makes no difference: one is enough.
Begin(w, a) ==
  /\ pc[w] = "idle"
  /\ w = CHOOSE v \in Worker : pc[v] = "idle"
  /\ ~quitting
  /\ a \in tasks
  /\ tasks' = tasks \ {a}
  /\ target' = [target EXCEPT ![w] = a]
  /\ Goto(w, "next")
  /\ UNCHANGED <<is_quit_current_task, accountVars, asked, quitting, visited, code, bufferVars,
                 sendVars, historyVars, aborted>>

\* Accounts the iterator has still to visit.
Left(w) == {a \in Code \ visited[w] : clients_fd[a] # {} /\ target[w] \in {All, a}}

\* The next account, in no particular order.
NextAccount(w, a) ==
  /\ pc[w] = "next"
  /\ a \in Left(w)
  /\ code' = [code EXCEPT ![w] = a]
  /\ visited' = [visited EXCEPT ![w] = @ \cup {a}]
  /\ Goto(w, "open")
  /\ UNCHANGED <<is_quit_current_task, accountVars, commandVars, target, bufferVars, sendVars,
                 historyVars, aborted>>

\* end().
EndPlayback(w) ==
  /\ pc[w] = "next"
  /\ Left(w) = {}
  /\ Leave(w)
  /\ UNCHANGED <<is_quit_current_task, accountVars, commandVars, code, bufferVars, sendVars,
                 historyVars, aborted>>

\* if(is_quit_current_task) break.
Return(w) ==
  /\ pc[w] = "return"
  /\ Advance(w)
  /\ IF is_quit_current_task
     THEN Leave(w)
     ELSE Goto(w, "next") /\ UNCHANGED <<target, visited>>
  /\ UNCHANGED <<is_quit_current_task, clients_fd, SockLookup_, commandVars, bufferVars,
                 sendVars, historyVars, aborted>>

\* it++ on an entry that clear_client_context has erased.
AdvanceFreedIterator(w) ==
  /\ pc[w] = "return"
  /\ ~is_quit_current_task
  /\ dangling[w]
  /\ aborted' = TRUE
  /\ UNCHANGED <<is_quit_current_task, accountVars, commandVars, pc, taskVars, bufferVars,
                 sendVars, historyVars>>

-----------------------------------------------------------------------------
(* send_jnl_file *)

\* stat() or open() fails.
OpenFails(w) ==
  /\ pc[w] = "open"
  /\ Finish(w)
  /\ UNCHANGED <<is_quit_current_task, accountVars, commandVars, taskVars, sendVars, aborted>>

\* The flag is reset here, whoever set it.
Open(w) ==
  /\ pc[w] = "open"
  /\ is_quit_current_task' = FALSE
  /\ reopened' = [v \in Worker |-> Playing(v) /\ since[v] # NotCancelled]
  /\ Goto(w, "read")
  /\ UNCHANGED <<accountVars, commandVars, taskVars, bufferVars, sendVars, since, aborted>>

EndOfFile(w) ==
  /\ pc[w] = "read"
  /\ process_size[w] >= FileSize
  /\ Finish(w)
  /\ UNCHANGED <<is_quit_current_task, accountVars, commandVars, taskVars, sendVars, aborted>>

\* Mutant: the size of the buffer is added, not what was read into it.
ReadFileByBuffer(w) ==
  LET n == BufSize(code[w])
  IN /\ pc[w] = "read"
     /\ process_size[w] < FileSize
     /\ ~dangling[w]
     /\ r_size' = [r_size EXCEPT ![w] = Least(n, FileSize - process_size[w])]
     /\ process_size' = [process_size EXCEPT ![w] = @ + n]
     /\ c_fds' = [c_fds EXCEPT ![w] = clients_fd[code[w]]]
     /\ since' = [since EXCEPT ![w] = IF @ < 2 THEN @ + 1 ELSE @]
     /\ Goto(w, "fd")
     /\ UNCHANGED <<is_quit_current_task, accountVars, commandVars, taskVars, c_fd, sent_size,
                    reopened, aborted>>

\* Mutant: the next read starts where this one did.
ReadFileAgain(w) ==
  LET n == Least(BufSize(code[w]), FileSize - process_size[w])
  IN /\ pc[w] = "read"
     /\ process_size[w] < FileSize
     /\ ~dangling[w]
     /\ r_size' = [r_size EXCEPT ![w] = n]
     /\ c_fds' = [c_fds EXCEPT ![w] = clients_fd[code[w]]]
     /\ since' = [since EXCEPT ![w] = IF @ < 2 THEN @ + 1 ELSE @]
     /\ Goto(w, "fd")
     /\ UNCHANGED <<is_quit_current_task, accountVars, commandVars, taskVars, process_size, c_fd,
                    sent_size, reopened, aborted>>

\* Read a buffer, and copy the account's descriptors.
ReadFile(w) ==
  LET n == Least(BufSize(code[w]), FileSize - process_size[w])
  IN /\ pc[w] = "read"
     /\ process_size[w] < FileSize
     /\ ~dangling[w]
     /\ r_size' = [r_size EXCEPT ![w] = n]
     /\ process_size' = [process_size EXCEPT ![w] = @ + n]
     /\ c_fds' = [c_fds EXCEPT ![w] = clients_fd[code[w]]]
     /\ since' = [since EXCEPT ![w] = IF @ < 2 THEN @ + 1 ELSE @]
     /\ Goto(w, "fd")
     /\ UNCHANGED <<is_quit_current_task, accountVars, commandVars, taskVars, c_fd, sent_size,
                    reopened, aborted>>

\* No descriptors: "About playback task...", which tells the other playbacks
\* to stop as well.
NoClients(w) ==
  /\ pc[w] = "read"
  /\ process_size[w] < FileSize
  /\ dangling[w]
  /\ is_quit_current_task' = TRUE
  /\ Finish(w)
  /\ UNCHANGED <<accountVars, commandVars, taskVars, sendVars, aborted>>

ReadFreedContext(w) ==
  /\ pc[w] = "read"
  /\ process_size[w] < FileSize
  /\ dangling[w]
  /\ aborted' = TRUE
  /\ UNCHANGED <<is_quit_current_task, accountVars, commandVars, pc, taskVars, bufferVars,
                 sendVars, historyVars>>

\* The next descriptor, in the order of the set.
NextFd(w, f) ==
  /\ pc[w] = "fd"
  /\ f \in c_fds[w]
  /\ c_fds' = [c_fds EXCEPT ![w] = @ \ {f}]
  /\ c_fd' = [c_fd EXCEPT ![w] = {f}]
  /\ Goto(w, "send")
  /\ UNCHANGED <<is_quit_current_task, accountVars, commandVars, taskVars, bufferVars, sent_size,
                 historyVars, aborted>>

\* send_data takes all of what it is offered, or nothing if the descriptor is
\* closed: then the loop goes round with the same bytes, and the same again
\* when RateSize is zero, so only a step that sends something is one here.
Send(w) ==
  LET n == Least(RateSize(code[w]), r_size[w] - sent_size[w])
  IN /\ pc[w] = "send"
     /\ c_fd[w] \subseteq Live
     /\ n > 0
     /\ IF sent_size[w] + n < r_size[w]
        THEN sent_size' = [sent_size EXCEPT ![w] = @ + n] /\ UNCHANGED <<pc, c_fd>>
        ELSE /\ sent_size' = [sent_size EXCEPT ![w] = 0]
             /\ c_fd' = [c_fd EXCEPT ![w] = {}]
             /\ Goto(w, "fd")
     /\ UNCHANGED <<is_quit_current_task, accountVars, commandVars, taskVars, bufferVars, c_fds,
                    historyVars, aborted>>

\* Mutant: the flag is looked at once a file, in command_playback.
CheckNothing(w) ==
  /\ pc[w] = "fd"
  /\ c_fds[w] = {}
  /\ Goto(w, "read")
  /\ UNCHANGED <<is_quit_current_task, accountVars, commandVars, taskVars, bufferVars, sendVars,
                 historyVars, aborted>>

\* After the last descriptor, the flag.
Check(w) ==
  /\ pc[w] = "fd"
  /\ c_fds[w] = {}
  /\ IF is_quit_current_task
     THEN Finish(w)
     ELSE Goto(w, "read") /\ UNCHANGED <<bufferVars, historyVars>>
  /\ UNCHANGED <<is_quit_current_task, accountVars, commandVars, taskVars, sendVars, aborted>>

-----------------------------------------------------------------------------

SendJnlFile(w) ==
  \/ OpenFails(w)
  \/ Open(w)
  \/ EndOfFile(w)
  \/ ReadFile(w)
  \/ NoClients(w)
  \/ ReadFreedContext(w)
  \/ \E f \in Fd : NextFd(w, f)
  \/ Send(w)
  \/ Check(w)

CommandPlayback(w) ==
  \/ \E a \in Code \cup {All} : Begin(w, a)
  \/ \E a \in Code : NextAccount(w, a)
  \/ EndPlayback(w)
  \/ Return(w)
  \/ AdvanceFreedIterator(w)

Play(w) == ~aborted /\ (CommandPlayback(w) \/ SendJnlFile(w))

PlaybackNext ==
  \/ \E w \in Worker : Play(w)
  \/ /\ ~aborted
     /\ \/ Cancel
        \/ Quit
        \/ \E a \in Target : AskPlayback(a)
        \/ \E f \in Fd, a \in Code : Login(f, a) \/ Disconnect(f, a)

PlaybackSpec == PlaybackInit /\ [][PlaybackNext]_playbackVars

\* The pool's threads run.
FairPlayback == PlaybackSpec /\ \A w \in Worker : WF_playbackVars(Play(w))

-----------------------------------------------------------------------------
(* Properties *)

PlaybackTypeOK ==
  /\ clients_fd \in [Code -> SUBSET Fd]
  /\ SockLookup_ \in [Fd -> Code \cup {NoCode}]
  /\ \A f \in Live : f \in clients_fd[SockLookup_[f]]
  /\ asked \in 0 .. MaxPlaybacks
  /\ tasks \subseteq Code \cup {All}
  /\ pc \in [Worker -> {"idle", "next", "return", "open", "read", "fd", "send"}]
  /\ target \in [Worker -> Code \cup {All}]
  /\ visited \in [Worker -> SUBSET Code]
  /\ code \in [Worker -> Code \cup {All}]
  /\ \A w \in Worker : Playing(w) => code[w] \in Code
  /\ dangling \in [Worker -> BOOLEAN] /\ reopened \in [Worker -> BOOLEAN]
  /\ process_size \in [Worker -> 0 .. FileSize]
  /\ r_size \in [Worker -> 0 .. FileSize]
  /\ \A w \in Worker : sent_size[w] \in 0 .. r_size[w]
  /\ c_fds \in [Worker -> SUBSET Fd] /\ c_fd \in [Worker -> SUBSET Fd]
  /\ since \in [Worker -> 0 .. NotCancelled]
  /\ is_quit_current_task \in BOOLEAN /\ quitting \in BOOLEAN /\ aborted \in BOOLEAN

\* A cancel that comes during a file stops that playback within a buffer, as
\* long as no playback opens a file in the meantime: the flag is looked at after
\* every buffer, and a playback reads no more than one after it is set.
CancelHeardOnceOpen ==
  \A w \in Worker : Playing(w) /\ ~reopened[w] => since[w] \in {0, 1, NotCancelled}

\* Sending to a descriptor that is closed, or nothing at a time: for ever.
Spins(w) ==
  /\ pc[w] = "send"
  /\ ~(c_fd[w] \subseteq Live) \/ RateSize(code[w]) = 0

\* A playback ends, unless it comes to a number that is closed (its client has
\* left meanwhile, or left it behind in its first account) or the rate leaves
\* nothing to send in a slice.
EveryPlaybackEnds == \A w \in Worker : pc[w] # "idle" ~> pc[w] = "idle" \/ Spins(w) \/ aborted

\* "[c] to cancel tasks!" (bse_server.cpp): no playback reads a second buffer
\* after it has been cancelled.
CancelHeard == \A w \in Worker : Playing(w) => since[w] # 2

\* "[q] to exit!" (bse_server.cpp): the threads that Run has to join come back.
QuitEnds == quitting ~> (\A w \in Worker : pc[w] = "idle") \/ aborted

\* "send to all fd in this account" (bse_server.cpp): a journal is sent to
\* nobody who is not in its account.
JournalWithinAccount ==
  \A w \in Worker : pc[w] = "send" =>
    c_fd[w] \cap Live \subseteq clients_fd[code[w]]
=============================================================================
