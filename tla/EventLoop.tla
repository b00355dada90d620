----------------------------- MODULE EventLoop -----------------------------
(***************************************************************************)
(* EpollNet::Run and its command channel: a FIFO into which other threads  *)
(* write fixed-size records with Command and Stop, watched by the same     *)
(* epoll descriptor, in edge-triggered mode, as the sockets.  Run reads    *)
(* one record for each event, commits the command's handler to the thread  *)
(* pool, or leaves its loop on CMD_QUIT and shuts down: pool, command      *)
(* channel, connections, epoll.                                            *)
(*                                                                         *)
(* Composition.  The pool is its abstract specification, TaskPool, which   *)
(* ThreadPool is shown to implement: a handler is a task named by the      *)
(* number of the record that asked for it.                                 *)
(*                                                                         *)
(* Grain.  One step for each system call another thread can race with: the *)
(* open of the writing end, the epoll_ctl, the write of a record, the      *)
(* epoll_wait, the read of a record, and each stage of the shutdown.       *)
(***************************************************************************)
EXTENDS Integers, Sequences, FiniteSets

CONSTANT MaxTyped           \* bound: records ever written

ASSUME LoopAssumption == MaxTyped \in Nat

VARIABLES
  phase,                    \* where Run is
  Cmdfd_,                   \* what Command writes to: stdin (0), fifo, closed
  fifo,                     \* the records in the FIFO, oldest first
  monitored,                \* the FIFO is in the epoll set
  edge,                     \* it is on epoll's ready list
  typed,                    \* how many records were written
  merged,                   \* history: records that met an event already pending
  contexts,                 \* NetContext_: live, freed
  Tasks_, running, finished, closed     \* the pool

runVars == <<phase, contexts>>
pipeVars == <<Cmdfd_, fifo, monitored, edge, merged>>
poolVars == <<Tasks_, running, finished, closed>>
vars == <<runVars, pipeVars, typed, poolVars>>

Kind == {"task", "unknown", "quit"}   \* has a handler, has none, CMD_QUIT

Record == [id : 1 .. MaxTyped, kind : Kind]

Pool == INSTANCE TaskPool WITH Task <- 1 .. MaxTyped, queue <- Tasks_

Init ==
  /\ phase = "setup"
  /\ contexts = "live"
  /\ Cmdfd_ = "stdin"
  /\ fifo = << >>
  /\ monitored = FALSE
  /\ edge = FALSE
  /\ merged = 0
  /\ typed = 0
  /\ Pool!Init

-----------------------------------------------------------------------------
(* Command and Stop, called by any thread at any time *)

\* Mutant: a record written while others are unread raises no edge.
CommandEdgeIfEmpty(kind) ==
  /\ typed < MaxTyped
  /\ typed' = typed + 1
  /\ IF Cmdfd_ = "fifo"
     THEN /\ fifo' = Append(fifo, [id |-> typed + 1, kind |-> kind])
          /\ edge' = (edge \/ (monitored /\ fifo = << >>))
          /\ merged' = merged + (IF monitored /\ edge THEN 1 ELSE 0)
     ELSE UNCHANGED <<fifo, edge, merged>>
  /\ UNCHANGED <<runVars, Cmdfd_, monitored, poolVars>>

\* Before setup_command_fd Cmdfd_ is 0, after clear_command_fd it is a closed
\* descriptor: the record goes nowhere.
Command(kind) ==
  /\ typed < MaxTyped
  /\ typed' = typed + 1
  /\ IF Cmdfd_ = "fifo"
     THEN /\ fifo' = Append(fifo, [id |-> typed + 1, kind |-> kind])
          /\ edge' = monitored
          /\ merged' = merged + (IF edge THEN 1 ELSE 0)
     ELSE UNCHANGED <<fifo, edge, merged>>
  /\ UNCHANGED <<runVars, Cmdfd_, monitored, poolVars>>

-----------------------------------------------------------------------------
(* Run *)

\* setup_command_fd: the reading end, then Cmdfd_.
OpenFifo ==
  /\ phase = "setup"
  /\ phase' = "opened"
  /\ Cmdfd_' = "fifo"
  /\ UNCHANGED <<contexts, fifo, monitored, edge, merged, typed, poolVars>>

\* mkfifo or open fails: Run goes on with no command channel.
OpenFifoFails ==
  /\ phase = "setup"
  /\ phase' = "wait"
  /\ UNCHANGED <<contexts, pipeVars, typed, poolVars>>

\* add_event(fd,EPOLLIN) reports what is there already; then add_command,
\* add_monitor and ThreadPool_.Start().
MonitorFifo ==
  /\ phase = "opened"
  /\ phase' = "wait"
  /\ monitored' = TRUE
  /\ edge' = (fifo # << >>)
  /\ merged' = IF fifo = << >> THEN 0 ELSE Len(fifo) - 1
  /\ UNCHANGED <<contexts, Cmdfd_, fifo, typed, poolVars>>

\* epoll_wait reports the FIFO: the edge is spent.
EpollWait ==
  /\ phase = "wait"
  /\ edge
  /\ phase' = "command"
  /\ edge' = FALSE
  /\ UNCHANGED <<contexts, Cmdfd_, fifo, monitored, merged, typed, poolVars>>

\* epoll_wait returns -1, with EINTR for one: the loop is left.
EpollWaitFails ==
  /\ phase = "wait"
  /\ phase' = "stop"
  /\ UNCHANGED <<contexts, pipeVars, typed, poolVars>>

\* Mutant: the edge is spent when the record is read.
HandleCommandSpendsEdge ==
  /\ phase = "command"
  /\ fifo' = Tail(fifo)
  /\ edge' = FALSE
  /\ \/ Head(fifo).kind = "quit" /\ phase' = "stop" /\ UNCHANGED poolVars
     \/ Head(fifo).kind = "unknown" /\ phase' = "wait" /\ UNCHANGED poolVars
     \/ Head(fifo).kind = "task" /\ phase' = "wait" /\ Pool!Submit(Head(fifo).id)
  /\ UNCHANGED <<contexts, Cmdfd_, monitored, merged, typed>>

\* handle_command: one read, of one record.
HandleCommand ==
  /\ phase = "command"
  /\ fifo' = Tail(fifo)
  /\ \/ Head(fifo).kind = "quit" /\ phase' = "stop" /\ UNCHANGED poolVars
     \/ Head(fifo).kind = "unknown" /\ phase' = "wait" /\ UNCHANGED poolVars
     \/ Head(fifo).kind = "task" /\ phase' = "wait" /\ Pool!Submit(Head(fifo).id)
  /\ UNCHANGED <<contexts, Cmdfd_, monitored, edge, merged, typed>>

\* Mutant: the pool is told to stop and not waited for.
StopPoolNoJoin ==
  /\ phase = "stop"
  /\ phase' = "closefifo"
  /\ UNCHANGED <<contexts, pipeVars, typed, poolVars>>

\* ThreadPool_.Stop(): it returns when the workers are gone.
StopPool ==
  /\ phase = "stop"
  /\ phase' = "closefifo"
  /\ Pool!Close
  /\ UNCHANGED <<contexts, pipeVars, typed>>

\* Mutant: only the reading end is closed.
ClearCommandFdOneEnd ==
  /\ phase = "closefifo"
  /\ phase' = "free"
  /\ fifo' = << >>
  /\ monitored' = FALSE
  /\ edge' = FALSE
  /\ UNCHANGED <<contexts, Cmdfd_, merged, typed, poolVars>>

\* clear_command_fd: both ends; what is unread is gone.
ClearCommandFd ==
  /\ phase = "closefifo"
  /\ phase' = "free"
  /\ Cmdfd_' = IF Cmdfd_ = "fifo" THEN "closed" ELSE Cmdfd_
  /\ fifo' = << >>
  /\ monitored' = FALSE
  /\ edge' = FALSE
  /\ UNCHANGED <<contexts, merged, typed, poolVars>>

\* delete_context() and clear_epoll().
DeleteContexts ==
  /\ phase = "free"
  /\ phase' = "returned"
  /\ contexts' = "freed"
  /\ UNCHANGED <<pipeVars, typed, poolVars>>

-----------------------------------------------------------------------------
(* The pool's workers; Start() comes just before the first epoll_wait *)

Work ==
  /\ phase \notin {"setup", "opened"}
  /\ \/ Pool!Begin
     \/ \E t \in 1 .. MaxTyped : Pool!End(t)
  /\ UNCHANGED <<runVars, pipeVars, typed>>

-----------------------------------------------------------------------------

Loop == EpollWait \/ HandleCommand

Run ==
  \/ OpenFifo
  \/ OpenFifoFails
  \/ MonitorFifo
  \/ Loop
  \/ EpollWaitFails
  \/ StopPool
  \/ ClearCommandFd
  \/ DeleteContexts

Next ==
  \/ \E kind \in Kind : Command(kind)
  \/ Run
  \/ Work

Spec == Init /\ [][Next]_vars

\* The thread in Run goes on as long as epoll_wait has something for it.
FairSpec == Spec /\ WF_vars(Loop)

-----------------------------------------------------------------------------
(* Properties *)

\* Types, and the writing end of the FIFO is open only while the reading end
\* is: a record written with no reader would raise SIGPIPE.
TypeOK ==
  /\ phase \in {"setup", "opened", "wait", "command", "stop", "closefifo", "free", "returned"}
  /\ contexts \in {"live", "freed"}
  /\ Cmdfd_ \in {"stdin", "fifo", "closed"}
  /\ fifo \in Seq(Record)
  /\ monitored \in BOOLEAN /\ edge \in BOOLEAN /\ closed \in BOOLEAN
  /\ merged \in 0 .. MaxTyped
  /\ typed \in 0 .. MaxTyped
  /\ Tasks_ \in Seq(1 .. MaxTyped)
  /\ running \subseteq 1 .. MaxTyped
  /\ finished \subseteq 1 .. MaxTyped
  /\ Cmdfd_ = "fifo" => phase \in {"opened", "wait", "command", "stop", "closefifo"}
  /\ monitored => Cmdfd_ = "fifo"

\* Events for which Run still owes, or is about to do, one read.
Owed == (IF edge THEN 1 ELSE 0) + (IF phase = "command" THEN 1 ELSE 0)

\* One event pays for one record: what is unread is what Run still has an
\* event for, plus every record that was merged into another one's event.
\* Run therefore never reads an empty FIFO (handle_command would take EAGAIN
\* for command 0), and never catches up with a merge: from then on each
\* command is answered one or more commands late.
Backlog ==
  /\ phase \in {"wait", "command"} /\ monitored => Len(fifo) = merged + Owed
  /\ phase = "command" => fifo # << >>

\* Connections are freed after the last task: no handler runs, waits to run or
\* begins later on a freed NetContext_ (Run calls ThreadPool_.Stop first).
FreedLast == contexts = "freed" => closed /\ running = {}

\* A quit makes Run leave its loop as long as no two records shared an event.
QuitAloneStops ==
  (\E i \in DOMAIN fifo : fifo[i].kind = "quit") /\ monitored
    ~> phase \notin {"wait", "command"} \/ merged > 0

\* "[q] to exit!" (bse_server.cpp): a quit that reached the command channel
\* makes Run leave its loop.
QuitStops ==
  (\E i \in DOMAIN fifo : fifo[i].kind = "quit") /\ monitored
    ~> phase \notin {"wait", "command"}
=============================================================================
