---------------------------- MODULE ServerProofs ----------------------------
(***************************************************************************)
(* What the server's console sets in motion: the commands that Run reads   *)
(* from the FIFO (EventLoop), for any number of records, and the playbacks *)
(* (Playback), for any accounts, threads, rates and sizes.  The two have   *)
(* no name in common, and are proved one after the other.                  *)
(*                                                                         *)
(* CancelHeardOnceOpen is not inductive: that a cancelled playback reads   *)
(* one buffer at most needs that it finds the flag still set after it      *)
(* (HearsCancel), which only another file's opening could have cleared.    *)
(***************************************************************************)
EXTENDS EventLoop, Playback, SequenceTheorems, TLAPS

-----------------------------------------------------------------------------
(* The loop and its FIFO *)

\* The inductive invariant: no more is unread, or was merged, than was typed.
LoopInv ==
  /\ TypeOK
  /\ Backlog
  /\ Len(fifo) <= typed /\ merged <= typed
  /\ ~monitored => edge = FALSE
  /\ phase = "command" => monitored
  /\ phase \in {"setup", "opened"} => ~monitored /\ merged = 0
  /\ phase = "opened" => Cmdfd_ = "fifo"

USE LoopAssumption

LEMMA LoopInit == Init => LoopInv
<1> SUFFICES ASSUME Init PROVE LoopInv
  OBVIOUS
<1>1. fifo = << >> /\ Len(fifo) = 0 /\ fifo \in Seq(Record) /\ Tasks_ \in Seq(1 .. MaxTyped)
  BY EmptySeq DEF Init, Pool!Init
<1>2. TypeOK
  <2>1. merged \in 0 .. MaxTyped /\ typed \in 0 .. MaxTyped
    BY DEF Init
  <2>2. monitored \in BOOLEAN /\ edge \in BOOLEAN /\ closed \in BOOLEAN
    BY DEF Init, Pool!Init
  <2>3. QED
    BY <1>1, <2>1, <2>2 DEF Init, Pool!Init, TypeOK
<1>3. Backlog
  BY DEF Init, Backlog
<1>4. QED
  BY <1>1, <1>2, <1>3 DEF Init, LoopInv

\* What Append and Tail do to the FIFO.
LEMMA FifoFacts ==
  ASSUME fifo \in Seq(Record)
  PROVE  /\ Len(fifo) \in Nat
         /\ fifo = << >> <=> Len(fifo) = 0
         /\ \A r \in Record : Append(fifo, r) \in Seq(Record) /\ Len(Append(fifo, r)) = Len(fifo) + 1
         /\ fifo # << >> => /\ Tail(fifo) \in Seq(Record) /\ Len(Tail(fifo)) = Len(fifo) - 1
                            /\ Head(fifo) \in Record
BY LenProperties, EmptySeq, AppendProperties, HeadTailProperties

LEMMA CommandStep ==
  ASSUME LoopInv, NEW kind \in Kind, Command(kind)
  PROVE  LoopInv'
<1> DEFINE r == [id |-> typed + 1, kind |-> kind]
<1>1. r \in Record
  BY DEF Command, LoopInv, TypeOK, Record
<1>2. CASE Cmdfd_ = "fifo"
  <2>1. /\ fifo' = Append(fifo, r) /\ edge' = monitored /\ typed' = typed + 1
        /\ typed < MaxTyped /\ merged' = merged + (IF edge THEN 1 ELSE 0)
        /\ UNCHANGED <<phase, contexts, Cmdfd_, monitored, Tasks_, running, finished, closed>>
    BY <1>2 DEF Command, runVars, poolVars
  <2> HIDE DEF r
  <2>2. fifo' \in Seq(Record) /\ Len(fifo') = Len(fifo) + 1 /\ Len(fifo) \in Nat /\ fifo' # << >>
    BY <1>1, <2>1, FifoFacts, LenProperties, EmptySeq DEF LoopInv, TypeOK
  <2>3. /\ typed \in Nat /\ merged \in Nat /\ typed' \in 0 .. MaxTyped
        /\ merged' <= typed' /\ merged' \in 0 .. MaxTyped /\ Len(fifo') <= typed'
    BY <2>1, <2>2 DEF LoopInv, TypeOK
  <2>4. TypeOK'
    BY <2>1, <2>2, <2>3 DEF LoopInv, TypeOK
  <2>5. phase \in {"wait", "command"} /\ monitored => Len(fifo') = merged' + Owed'
    BY <2>1, <2>2, <2>3 DEF LoopInv, TypeOK, Backlog, Owed
  <2>6. Backlog'
    BY <2>1, <2>2, <2>5 DEF Backlog
  <2>7. phase \in {"setup", "opened"} => ~monitored /\ merged' = 0
    <3>1. phase \in {"setup", "opened"} => ~monitored /\ merged = 0 /\ edge = FALSE
      BY DEF LoopInv
    <3>2. edge = FALSE => merged' = merged
      BY <2>1, <2>3 DEF LoopInv, TypeOK
    <3>3. QED
      BY <3>1, <3>2
  <2>8. QED
    BY <2>1, <2>3, <2>4, <2>6, <2>7 DEF LoopInv
<1>3. CASE Cmdfd_ # "fifo"
  <2>1. /\ typed' = typed + 1 /\ typed < MaxTyped
        /\ UNCHANGED <<phase, contexts, Cmdfd_, fifo, monitored, edge, merged, Tasks_, running,
                       finished, closed>>
    BY <1>3 DEF Command, runVars, poolVars
  <2>2. typed \in Nat /\ merged \in Nat /\ Len(fifo) \in Nat /\ typed' \in 0 .. MaxTyped
    BY <2>1, FifoFacts DEF LoopInv, TypeOK
  <2>3. Len(fifo') <= typed' /\ merged' <= typed'
    BY <2>1, <2>2 DEF LoopInv
  <2>4. TypeOK' /\ Backlog'
    BY <2>1, <2>2 DEF LoopInv, TypeOK, Backlog, Owed
  <2>5. QED
    BY <2>1, <2>3, <2>4 DEF LoopInv
<1>4. QED
  BY <1>2, <1>3

\* One turn of the loop: an event spent, then a record read for it.
LEMMA LoopStep ==
  ASSUME LoopInv, Loop
  PROVE  LoopInv'
<1>1. CASE EpollWait
  <2>1. /\ phase = "wait" /\ phase' = "command" /\ edge /\ edge' = FALSE
        /\ UNCHANGED <<contexts, Cmdfd_, fifo, monitored, merged, typed, Tasks_, running,
                       finished, closed>>
    BY <1>1 DEF EpollWait, poolVars
  <2>2. monitored /\ Len(fifo) \in Nat /\ merged \in Nat
    BY <2>1, FifoFacts DEF LoopInv, TypeOK
  <2>3. Owed = 1 /\ Owed' = 1
    BY <2>1 DEF Owed
  <2>4. Len(fifo) = merged + 1 /\ fifo # << >>
    BY <2>1, <2>2, <2>3, FifoFacts DEF LoopInv, Backlog, TypeOK
  <2>5. TypeOK'
    BY <2>1, <2>2 DEF LoopInv, TypeOK
  <2>6. QED
    BY <2>1, <2>2, <2>3, <2>4, <2>5 DEF LoopInv, Backlog
<1>2. CASE HandleCommand
  <2>1. /\ phase = "command" /\ fifo' = Tail(fifo) /\ phase' \in {"wait", "stop"}
        /\ UNCHANGED <<contexts, Cmdfd_, monitored, edge, merged, typed>>
    BY <1>2 DEF HandleCommand
  <2>2. /\ fifo # << >> /\ Len(fifo) \in Nat /\ Len(fifo') = Len(fifo) - 1
        /\ fifo' \in Seq(Record) /\ Head(fifo) \in Record /\ monitored
    BY <2>1, FifoFacts DEF LoopInv, Backlog, TypeOK
  <2>3. /\ Tasks_' \in Seq(1 .. MaxTyped) /\ running' = running /\ finished' = finished
        /\ closed' = closed
    <3>1. CASE UNCHANGED poolVars
      BY <3>1 DEF LoopInv, TypeOK, poolVars
    <3>2. CASE Pool!Submit(Head(fifo).id)
      <4>1. Head(fifo).id \in 1 .. MaxTyped
        BY <2>2 DEF Record
      <4>2. QED
        BY <3>2, <4>1, AppendProperties DEF Pool!Submit, LoopInv, TypeOK
    <3>3. QED
      BY <1>2, <3>1, <3>2 DEF HandleCommand
  <2>4. TypeOK'
    BY <2>1, <2>2, <2>3 DEF LoopInv, TypeOK
  <2>5. merged \in Nat /\ typed \in Nat
    BY DEF LoopInv, TypeOK
  <2>6. Owed = (IF edge THEN 1 ELSE 0) + 1 /\ Owed' = (IF edge THEN 1 ELSE 0) + 0
    BY <2>1 DEF Owed
  <2>7. Len(fifo) = merged + Owed
    BY <2>1, <2>2 DEF LoopInv, Backlog
  <2>8. Len(fifo') = merged' + Owed' /\ Len(fifo') <= typed'
    BY <2>1, <2>2, <2>5, <2>6, <2>7 DEF LoopInv
  <2>9. QED
    BY <2>1, <2>2, <2>4, <2>8 DEF LoopInv, Backlog
<1>3. QED
  BY <1>1, <1>2 DEF Loop

LEMMA LoopNext == LoopInv /\ [Next]_vars => LoopInv'
<1> SUFFICES ASSUME LoopInv, [Next]_vars PROVE LoopInv'
  OBVIOUS
<1> USE DEF runVars, pipeVars, poolVars
<1>f. Len(fifo) \in Nat /\ (fifo # << >> => Len(fifo) > 0)
  BY FifoFacts DEF LoopInv, TypeOK
<1>1. ASSUME NEW kind \in Kind, Command(kind) PROVE LoopInv'
  BY <1>1, CommandStep
<1>2. CASE Loop
  BY <1>2, LoopStep
<1>3. CASE OpenFifo \/ OpenFifoFails \/ EpollWaitFails \/ DeleteContexts
  <2>1. UNCHANGED <<fifo, monitored, edge, merged, typed, Tasks_, running, finished, closed>>
    BY <1>3 DEF OpenFifo, OpenFifoFails, EpollWaitFails, DeleteContexts
  <2>2. TypeOK'
    <3>1. \/ phase = "setup" /\ phase' = "opened" /\ Cmdfd_' = "fifo" /\ contexts' = contexts
          \/ phase = "setup" /\ phase' = "wait" /\ UNCHANGED <<Cmdfd_, contexts>>
          \/ phase = "wait" /\ phase' = "stop" /\ UNCHANGED <<Cmdfd_, contexts>>
          \/ phase = "free" /\ phase' = "returned" /\ Cmdfd_' = Cmdfd_ /\ contexts' = "freed"
      BY <1>3 DEF OpenFifo, OpenFifoFails, EpollWaitFails, DeleteContexts
    <3>2. /\ phase' \in {"setup", "opened", "wait", "command", "stop", "closefifo", "free",
                        "returned"}
          /\ contexts' \in {"live", "freed"} /\ Cmdfd_' \in {"stdin", "fifo", "closed"}
          /\ Cmdfd_' = "fifo" => phase' \in {"opened", "wait", "command", "stop", "closefifo"}
          /\ monitored => Cmdfd_' = "fifo"
      BY <3>1 DEF LoopInv, TypeOK
    <3>3. QED
      BY <2>1, <3>2 DEF LoopInv, TypeOK
  <2>3. Backlog' /\ (phase' = "command" => monitored)
        /\ (phase' \in {"setup", "opened"} => ~monitored /\ merged = 0)
        /\ (phase' = "opened" => Cmdfd_' = "fifo")
    BY <1>3, <2>1 DEF OpenFifo, OpenFifoFails, EpollWaitFails, DeleteContexts, LoopInv, Backlog
  <2>4. QED
    BY <2>1, <2>2, <2>3 DEF LoopInv
<1>4. CASE MonitorFifo
  <2>1. /\ phase = "opened" /\ phase' = "wait" /\ monitored' = TRUE
        /\ edge' = (fifo # << >>) /\ merged' = IF fifo = << >> THEN 0 ELSE Len(fifo) - 1
        /\ UNCHANGED <<contexts, Cmdfd_, fifo, typed, Tasks_, running, finished, closed>>
    BY <1>4 DEF MonitorFifo
  <2>2. fifo = << >> <=> Len(fifo) = 0
    BY FifoFacts DEF LoopInv, TypeOK
  <2>3. typed \in Nat /\ typed <= MaxTyped /\ Len(fifo) <= typed
    BY DEF LoopInv, TypeOK
  <2>4. merged' \in 0 .. MaxTyped /\ merged' <= typed'
    <3>1. CASE fifo = << >>
      BY <2>1, <2>3, <3>1
    <3>2. CASE fifo # << >>
      <4>1. merged' = Len(fifo) - 1
        BY <2>1, <3>2
      <4>2. QED
        BY <1>f, <2>1, <2>3, <3>2, <4>1
    <3>3. QED
      BY <3>1, <3>2
  <2>5. Len(fifo') = merged' + Owed'
    <3>1. CASE fifo = << >>
      <4>1. merged' = 0 /\ Owed' = 0 + 0 /\ Len(fifo') = 0
        BY <2>1, <2>2, <3>1 DEF Owed
      <4>2. QED
        BY <4>1
    <3>2. CASE fifo # << >>
      <4>1. merged' = Len(fifo) - 1 /\ Owed' = 1 + 0 /\ Len(fifo') = Len(fifo)
        BY <2>1, <3>2 DEF Owed
      <4>2. QED
        BY <1>f, <4>1
    <3>3. QED
      BY <3>1, <3>2
  <2>6. TypeOK'
    <3>1. edge' \in BOOLEAN /\ monitored' \in BOOLEAN 
      BY <2>1
    <3>2. QED
      BY <2>1, <2>4, <3>1 DEF LoopInv, TypeOK
  <2>7. QED
    BY <2>1, <2>3, <2>4, <2>5, <2>6 DEF LoopInv, Backlog
<1>5. CASE StopPool
  BY <1>5, <1>f DEF StopPool, Pool!Close, LoopInv, TypeOK, Backlog, Owed
<1>6. CASE ClearCommandFd
  <2>1. /\ phase = "closefifo" /\ phase' = "free" /\ fifo' = << >> /\ monitored' = FALSE
        /\ edge' = FALSE /\ Cmdfd_' = IF Cmdfd_ = "fifo" THEN "closed" ELSE Cmdfd_
        /\ UNCHANGED <<contexts, merged, typed, Tasks_, running, finished, closed>>
    BY <1>6 DEF ClearCommandFd
  <2>2. fifo' \in Seq(Record) /\ Len(fifo') = 0
    BY <2>1, EmptySeq
  <2>3. TypeOK'
    BY <2>1, <2>2 DEF LoopInv, TypeOK
  <2>4. QED
    BY <2>1, <2>2, <2>3 DEF LoopInv, TypeOK, Backlog
<1>7. CASE Work
  <2>1. UNCHANGED <<phase, contexts, Cmdfd_, fifo, monitored, edge, merged, typed>>
    BY <1>7 DEF Work
  <2>2. /\ Tasks_' \in Seq(1 .. MaxTyped) /\ running' \subseteq 1 .. MaxTyped
        /\ finished' \subseteq 1 .. MaxTyped /\ closed' = closed
    <3>1. CASE Pool!Begin
      <4>1. Head(Tasks_) \in 1 .. MaxTyped /\ Tail(Tasks_) \in Seq(1 .. MaxTyped)
        BY <3>1, HeadTailProperties DEF Pool!Begin, LoopInv, TypeOK
      <4>2. QED
        BY <3>1, <4>1 DEF Pool!Begin, LoopInv, TypeOK
    <3>2. CASE \E t \in 1 .. MaxTyped : Pool!End(t)
      BY <3>2 DEF Pool!End, LoopInv, TypeOK
    <3>3. QED
      BY <1>7, <3>1, <3>2 DEF Work
  <2>3. TypeOK'
    BY <2>1, <2>2 DEF LoopInv, TypeOK
  <2>4. QED
    BY <2>1, <2>3 DEF LoopInv, Backlog, Owed
<1>8. CASE UNCHANGED vars
  BY <1>8 DEF vars, LoopInv, TypeOK, Backlog, Owed
<1>9. QED
  BY <1>1, <1>2, <1>3, <1>4, <1>5, <1>6, <1>7, <1>8 DEF Next, Run

\* Run never reads an empty FIFO, and what it leaves unread is exactly the
\* records that shared an event (Command's write, epoll_wait, handle_command's
\* single read).
THEOREM LoopBacklog == Spec => [](TypeOK /\ Backlog)
<1>1. LoopInv => TypeOK /\ Backlog
  BY DEF LoopInv
<1>2. QED
  BY <1>1, LoopInit, LoopNext, PTL DEF Spec

-----------------------------------------------------------------------------
\* Once ThreadPool_.Stop() has returned the pool stays closed and idle, and
\* Run frees the connections only then (Run's shutdown sequence).
THEOREM LoopFreedLast == Spec => []FreedLast
<1> DEFINE Idle == phase \in {"closefifo", "free", "returned"} => closed /\ running = {}
           Inv == FreedLast /\ Idle /\ (contexts = "freed" => phase = "returned")
<1>1. Init => Inv
  BY DEF Init, FreedLast
<1>2. Inv /\ [Next]_vars => Inv'
  <2> SUFFICES ASSUME Inv, [Next]_vars PROVE Inv'
    OBVIOUS
  <2> USE DEF FreedLast, runVars, pipeVars, poolVars
  <2>1. CASE \E kind \in Kind : Command(kind)
    BY <2>1 DEF Command
  <2>2. CASE OpenFifo \/ OpenFifoFails \/ MonitorFifo \/ EpollWait \/ EpollWaitFails
    BY <2>2 DEF OpenFifo, OpenFifoFails, MonitorFifo, EpollWait, EpollWaitFails
  <2>3. CASE HandleCommand
    BY <2>3 DEF HandleCommand, Pool!Submit
  <2>4. CASE StopPool
    BY <2>4 DEF StopPool, Pool!Close
  <2>5. CASE ClearCommandFd \/ DeleteContexts
    BY <2>5 DEF ClearCommandFd, DeleteContexts
  <2>6. CASE Work
    BY <2>6 DEF Work, Pool!Begin, Pool!End
  <2>7. CASE UNCHANGED vars
    BY <2>7 DEF vars
  <2>8. QED
    BY <2>1, <2>2, <2>3, <2>4, <2>5, <2>6, <2>7 DEF Next, Run, Loop
<1>3. QED
  BY <1>1, <1>2, PTL DEF Spec

-----------------------------------------------------------------------------
(* Playback: types *)

PlayLabel == {"idle", "next", "return", "open", "read", "fd", "send"}

\* An open descriptor is in the account it logged in to last.
AccountTypes ==
  /\ clients_fd \in [Code -> SUBSET Fd]
  /\ SockLookup_ \in [Fd -> Code \cup {NoCode}]
  /\ \A f \in Fd : SockLookup_[f] # NoCode => f \in clients_fd[SockLookup_[f]]
  /\ dangling \in [Worker -> BOOLEAN]

\* A thread that plays knows its account.
TaskTypes ==
  /\ pc \in [Worker -> PlayLabel]
  /\ target \in [Worker -> Code \cup {All}]
  /\ visited \in [Worker -> SUBSET Code]
  /\ code \in [Worker -> Code \cup {All}]
  /\ \A w \in Worker : Playing(w) => code[w] \in Code

\* What was sent of a buffer, and nothing when no buffer is being sent.
BufferTypes ==
  /\ process_size \in [Worker -> 0 .. FileSize]
  /\ r_size \in [Worker -> 0 .. FileSize]
  /\ sent_size \in [Worker -> Nat]
  /\ \A w \in Worker : sent_size[w] <= r_size[w]
  /\ \A w \in Worker : pc[w] # "send" => sent_size[w] = 0

FdTypes == c_fds \in [Worker -> SUBSET Fd] /\ c_fd \in [Worker -> SUBSET Fd]

CommandTypes ==
  /\ asked \in 0 .. MaxPlaybacks
  /\ tasks \subseteq Code \cup {All}

ConsoleFlags ==
  is_quit_current_task \in BOOLEAN /\ quitting \in BOOLEAN /\ aborted \in BOOLEAN

HistoryTypes == since \in [Worker -> 0 .. NotCancelled] /\ reopened \in [Worker -> BOOLEAN]

PlaybackTypes ==
  /\ AccountTypes /\ TaskTypes /\ BufferTypes /\ FdTypes /\ CommandTypes /\ ConsoleFlags
  /\ HistoryTypes

LEMMA PlaybackTypeParts == ASSUME PlaybackTypes PROVE PlaybackTypeOK
<1>1. AccountTypes /\ TaskTypes /\ BufferTypes
  BY Zenon DEF PlaybackTypes
<1>2. \A w \in Worker : sent_size[w] \in 0 .. r_size[w]
  BY <1>1, SMT DEF BufferTypes
<1>3. \A f \in Live : f \in clients_fd[SockLookup_[f]]
  BY <1>1, Zenon DEF AccountTypes, Live
<1> QED
  BY <1>2, <1>3, Zenon DEF PlaybackTypes, PlaybackTypeOK, AccountTypes, TaskTypes, BufferTypes, FdTypes,
    CommandTypes, ConsoleFlags, HistoryTypes, PlayLabel

LEMMA PlaybackConstants ==
  /\ FileSize \in Nat /\ MaxPlaybacks \in Nat /\ All \notin Code /\ NoCode \notin Code
  /\ Target \subseteq Code \cup {All}
  /\ \A a \in Code : BufSize(a) \in Nat /\ RateSize(a) \in Nat
<1>1. /\ FileSize \in Nat /\ MaxPlaybacks \in Nat /\ All \notin Code /\ NoCode \notin Code
      /\ Target \subseteq Code \cup {All}
      /\ JnlRate \in [Code -> Nat] /\ SlicePerSec \in Nat \ {0} /\ DftBufSize \in Nat
  BY PlaybackAssumption, Zenon
<1> QED
  BY <1>1, SMT DEF BufSize, RateSize

\* What Goto does.
LEMMA PlayMoves ==
  ASSUME TaskTypes, NEW w \in Worker, NEW label \in PlayLabel, Goto(w, label)
  PROVE  /\ pc' \in [Worker -> PlayLabel]
         /\ pc'[w] = label
         /\ \A v \in Worker \ {w} : pc'[v] = pc[v]
BY SMT DEF TaskTypes, Goto

LEMMA TaskTypesStep == ASSUME TaskTypes, PlaybackNext PROVE TaskTypes'
<1>1. ASSUME NEW w \in Worker, NEW label \in PlayLabel \ {"idle", "next", "return", "open"},
             Goto(w, label), Playing(w), UNCHANGED taskVars
      PROVE  TaskTypes'
  BY <1>1, PlayMoves, SMT DEF TaskTypes, taskVars, Playing, PlayLabel
<1>2. ASSUME NEW w \in Worker, Goto(w, "return"), UNCHANGED taskVars
      PROVE  TaskTypes'
  BY <1>2, PlayMoves, SMT DEF TaskTypes, taskVars, Playing, PlayLabel
<1>3. ASSUME NEW w \in Worker, NEW a \in Code \cup {All}, Begin(w, a) PROVE TaskTypes'
  BY <1>3, PlayMoves, SMT DEF Begin, TaskTypes, Playing, PlayLabel
<1>4. ASSUME NEW w \in Worker, NEW a \in Code, NextAccount(w, a) PROVE TaskTypes'
  BY <1>4, PlayMoves, SMT DEF NextAccount, TaskTypes, Playing, PlayLabel
<1>5. ASSUME NEW w \in Worker, EndPlayback(w) PROVE TaskTypes'
  BY <1>5, PlayMoves, SMT DEF EndPlayback, Leave, TaskTypes, Playing, PlayLabel
<1>6. ASSUME NEW w \in Worker, Return(w) PROVE TaskTypes'
  BY <1>6, PlayMoves, SMT DEF Return, Advance, Leave, TaskTypes, Playing, PlayLabel
<1>7. ASSUME NEW w \in Worker, OpenFails(w) \/ EndOfFile(w) \/ NoClients(w) PROVE TaskTypes'
  BY <1>2, <1>7, SMT DEF OpenFails, EndOfFile, NoClients, Finish
<1>8. ASSUME NEW w \in Worker, Open(w) \/ ReadFile(w) \/ \E f \in Fd : NextFd(w, f)
      PROVE  TaskTypes'
  BY <1>1, <1>8, SMT DEF Open, ReadFile, NextFd, Playing, PlayLabel
<1>9. ASSUME NEW w \in Worker, Send(w) PROVE TaskTypes'
  <2>1. CASE UNCHANGED pc
    BY <1>9, <2>1, SMT DEF Send, TaskTypes, taskVars, Playing
  <2>2. CASE Goto(w, "fd")
    BY <1>1, <1>9, <2>2, SMT DEF Send, Playing, PlayLabel
  <2> QED
    BY <1>9, <2>1, <2>2, Zenon DEF Send
<1>10. ASSUME NEW w \in Worker, Check(w) PROVE TaskTypes'
  BY <1>1, <1>2, <1>10, SMT DEF Check, Finish, Playing, PlayLabel
<1>11. CASE UNCHANGED <<pc, taskVars>>
  BY <1>11, SMT DEF TaskTypes, taskVars, Playing
<1>12. \/ \E w \in Worker : \/ \E a \in Code \cup {All} : Begin(w, a)
                            \/ \E a \in Code : NextAccount(w, a)
                            \/ EndPlayback(w) \/ Return(w) \/ OpenFails(w) \/ Open(w)
                            \/ EndOfFile(w) \/ ReadFile(w) \/ NoClients(w)
                            \/ \E f \in Fd : NextFd(w, f)
                            \/ Send(w) \/ Check(w)
       \/ UNCHANGED <<pc, taskVars>>
  BY Zenon DEF PlaybackNext, Play, CommandPlayback, SendJnlFile, Cancel, Quit, AskPlayback, Login,
    Disconnect, AdvanceFreedIterator, ReadFreedContext
<1> QED
  BY <1>3, <1>4, <1>5, <1>6, <1>7, <1>8, <1>9, <1>10, <1>11, <1>12, Zenon

LEMMA AccountTypesStep == ASSUME AccountTypes, PlaybackNext PROVE AccountTypes'
<1>1. ASSUME NEW f \in Fd, NEW a \in Code, Login(f, a) PROVE AccountTypes'
  BY <1>1, PlaybackConstants, SMT DEF Login, AccountTypes
<1>2. ASSUME NEW f \in Fd, NEW a \in Code, Disconnect(f, a) PROVE AccountTypes'
  <2>1. dangling' \in [Worker -> BOOLEAN]
    BY <1>2, Zenon DEF Disconnect
  <2>2. /\ clients_fd' = [clients_fd EXCEPT ![a] = @ \ {f}]
        /\ SockLookup_' = [SockLookup_ EXCEPT ![f] = NoCode]
    BY <1>2, Zenon DEF Disconnect
  <2> QED
    BY <2>1, <2>2, PlaybackConstants, SMT DEF AccountTypes
<1>3. ASSUME NEW w \in Worker, Return(w) PROVE AccountTypes'
  <2>1. /\ dangling' = [dangling EXCEPT ![w] = FALSE]
        /\ clients_fd' = clients_fd /\ SockLookup_' = SockLookup_
    BY <1>3, Zenon DEF Return, Advance
  <2> QED
    BY <2>1, SMT DEF AccountTypes
<1>4. CASE UNCHANGED accountVars
  BY <1>4, SMT DEF AccountTypes, accountVars
<1>5. \/ \E f \in Fd, a \in Code : Login(f, a) \/ Disconnect(f, a)
      \/ \E w \in Worker : Return(w)
      \/ UNCHANGED accountVars
  BY Zenon DEF PlaybackNext, Play, CommandPlayback, SendJnlFile, Cancel, Quit, AskPlayback,
    AdvanceFreedIterator, ReadFreedContext, Begin, NextAccount, EndPlayback, OpenFails, Open,
    EndOfFile, ReadFile, NoClients, NextFd, Send, Check
<1> QED
  BY <1>1, <1>2, <1>3, <1>4, <1>5, Zenon

LEMMA FdTypesStep == ASSUME AccountTypes, TaskTypes, FdTypes, PlaybackNext PROVE FdTypes'
<1>1. ASSUME NEW w \in Worker, ReadFile(w) PROVE FdTypes'
  <2>1. code[w] \in Code /\ clients_fd[code[w]] \in SUBSET Fd
    BY <1>1, SMT DEF ReadFile, TaskTypes, AccountTypes, Playing
  <2> QED
    BY <1>1, <2>1, SMT DEF ReadFile, FdTypes
<1>2. ASSUME NEW w \in Worker, NEW f \in Fd, NextFd(w, f) PROVE FdTypes'
  BY <1>2, SMT DEF NextFd, FdTypes
<1>3. ASSUME NEW w \in Worker, Send(w) PROVE FdTypes'
  BY <1>3, SMT DEF Send, FdTypes
<1>4. CASE UNCHANGED <<c_fds, c_fd>>
  BY <1>4, SMT DEF FdTypes
<1>5. \/ \E w \in Worker : ReadFile(w) \/ (\E f \in Fd : NextFd(w, f)) \/ Send(w)
      \/ UNCHANGED <<c_fds, c_fd>>
  BY Zenon DEF PlaybackNext, Play, CommandPlayback, SendJnlFile, Cancel, Quit, AskPlayback, Login,
    Disconnect, AdvanceFreedIterator, ReadFreedContext, Begin, NextAccount, EndPlayback, Return,
    OpenFails, Open, EndOfFile, NoClients, Check, sendVars
<1> QED
  BY <1>1, <1>2, <1>3, <1>4, <1>5, Zenon

\* A thread that sends nothing goes on to something else than sending.
LEMMA BuffersKept ==
  ASSUME TaskTypes, BufferTypes, UNCHANGED <<bufferVars, sent_size>>,
         NEW w \in Worker, NEW label \in PlayLabel, Goto(w, label), pc[w] # "send"
  PROVE  BufferTypes'
BY PlayMoves, SMT DEF BufferTypes, bufferVars

LEMMA BuffersDropped ==
  ASSUME TaskTypes, BufferTypes, UNCHANGED sent_size,
         NEW w \in Worker, Finish(w), pc[w] # "send"
  PROVE  BufferTypes'
<1>1. pc'[w] = "return" /\ \A v \in Worker \ {w} : pc'[v] = pc[v]
  BY PlayMoves, SMT DEF Finish, PlayLabel
<1>2. 0 \in 0 .. FileSize
  BY PlaybackConstants, SMT
<1> QED
  BY <1>1, <1>2, SMT DEF BufferTypes, Finish

LEMMA BufferTypesStep ==
  ASSUME TaskTypes, BufferTypes, PlaybackNext
  PROVE  BufferTypes'
<1>1. ASSUME NEW w \in Worker, NEW a \in Code \cup {All}, Begin(w, a) PROVE BufferTypes'
  BY <1>1, BuffersKept, SMT DEF Begin, PlayLabel, sendVars
<1>2. ASSUME NEW w \in Worker, NEW a \in Code, NextAccount(w, a) PROVE BufferTypes'
  BY <1>2, BuffersKept, SMT DEF NextAccount, PlayLabel, sendVars
<1>3. ASSUME NEW w \in Worker, EndPlayback(w) \/ Return(w) PROVE BufferTypes'
  BY <1>3, BuffersKept, SMT DEF EndPlayback, Return, Leave, PlayLabel, sendVars
<1>4. ASSUME NEW w \in Worker, OpenFails(w) \/ EndOfFile(w) \/ NoClients(w) PROVE BufferTypes'
  BY <1>4, BuffersDropped, SMT DEF OpenFails, EndOfFile, NoClients, sendVars
<1>5. ASSUME NEW w \in Worker, Open(w) PROVE BufferTypes'
  BY <1>5, BuffersKept, SMT DEF Open, PlayLabel, sendVars
<1>6. ASSUME NEW w \in Worker, ReadFile(w) PROVE BufferTypes'
  <2> DEFINE n == Least(BufSize(code[w]), FileSize - process_size[w])
  <2>1. /\ pc[w] = "read" /\ process_size[w] < FileSize /\ Goto(w, "fd")
        /\ r_size' = [r_size EXCEPT ![w] = n]
        /\ process_size' = [process_size EXCEPT ![w] = @ + n] /\ sent_size' = sent_size
    BY <1>6, Zenon DEF ReadFile
  <2>2. code[w] \in Code
    BY <2>1, SMT DEF TaskTypes, Playing
  <2>3. n \in 0 .. FileSize /\ process_size[w] + n \in 0 .. FileSize
    BY <2>1, <2>2, PlaybackConstants, SMT DEF Least, BufferTypes
  <2>4. pc'[w] = "fd" /\ \A v \in Worker \ {w} : pc'[v] = pc[v]
    BY <2>1, PlayMoves, SMT DEF PlayLabel
  <2> HIDE DEF n
  <2> QED
    BY <2>1, <2>3, <2>4, SMT DEF BufferTypes
<1>7. ASSUME NEW w \in Worker, NEW f \in Fd, NextFd(w, f) PROVE BufferTypes'
  BY <1>7, BuffersKept, SMT DEF NextFd, PlayLabel
<1>8. ASSUME NEW w \in Worker, Send(w) PROVE BufferTypes'
  <2> DEFINE n == Least(RateSize(code[w]), r_size[w] - sent_size[w])
  <2>1. pc[w] = "send" /\ n > 0 /\ UNCHANGED bufferVars
    BY <1>8, Zenon DEF Send
  <2>2. code[w] \in Code
    BY <2>1, SMT DEF TaskTypes, Playing
  <2>3. n \in Nat /\ sent_size[w] + n \in Nat /\ 0 <= r_size[w]
    BY <2>1, <2>2, PlaybackConstants, SMT DEF Least, BufferTypes
  <2>4. CASE sent_size[w] + n < r_size[w]
    <3>1. sent_size' = [sent_size EXCEPT ![w] = @ + n] /\ pc' = pc
      BY <1>8, <2>4, Zenon DEF Send
    <3> HIDE DEF n
    <3> QED
      BY <2>1, <2>3, <2>4, <3>1, SMT DEF BufferTypes, bufferVars
  <2>5. CASE ~(sent_size[w] + n < r_size[w])
    <3>1. sent_size' = [sent_size EXCEPT ![w] = 0] /\ Goto(w, "fd")
      BY <1>8, <2>5, Zenon DEF Send
    <3>2. pc'[w] = "fd" /\ \A v \in Worker \ {w} : pc'[v] = pc[v]
      BY <3>1, PlayMoves, SMT DEF PlayLabel
    <3> HIDE DEF n
    <3> QED
      BY <2>1, <2>3, <3>1, <3>2, SMT DEF BufferTypes, bufferVars
  <2> QED
    BY <2>4, <2>5, Zenon
<1>9. ASSUME NEW w \in Worker, Check(w) PROVE BufferTypes'
  BY <1>9, BuffersKept, BuffersDropped, SMT DEF Check, PlayLabel, sendVars
<1>10. CASE UNCHANGED <<pc, bufferVars, sent_size>>
  BY <1>10, SMT DEF BufferTypes, bufferVars
<1>11. \/ \E w \in Worker : \/ \E a \in Code \cup {All} : Begin(w, a)
                            \/ \E a \in Code : NextAccount(w, a)
                            \/ EndPlayback(w) \/ Return(w) \/ OpenFails(w) \/ Open(w)
                            \/ EndOfFile(w) \/ ReadFile(w) \/ NoClients(w)
                            \/ \E f \in Fd : NextFd(w, f)
                            \/ Send(w) \/ Check(w)
       \/ UNCHANGED <<pc, bufferVars, sent_size>>
  BY Zenon DEF PlaybackNext, Play, CommandPlayback, SendJnlFile, Cancel, Quit, AskPlayback, Login,
    Disconnect, AdvanceFreedIterator, ReadFreedContext, sendVars
<1> QED
  BY <1>1, <1>2, <1>3, <1>4, <1>5, <1>6, <1>7, <1>8, <1>9, <1>10, <1>11, Zenon

LEMMA CommandTypesStep == ASSUME CommandTypes, PlaybackNext PROVE CommandTypes'
<1>1. ASSUME NEW a \in Target, AskPlayback(a) PROVE CommandTypes'
  BY <1>1, PlaybackConstants, SMT DEF AskPlayback, CommandTypes
<1>2. ASSUME NEW w \in Worker, NEW a \in Code \cup {All}, Begin(w, a) PROVE CommandTypes'
  BY <1>2, SMT DEF Begin, CommandTypes
<1>3. CASE UNCHANGED <<asked, tasks>>
  BY <1>3, SMT DEF CommandTypes
<1>4. \/ \E a \in Target : AskPlayback(a)
      \/ \E w \in Worker : \E a \in Code \cup {All} : Begin(w, a)
      \/ UNCHANGED <<asked, tasks>>
  BY Zenon DEF PlaybackNext, Play, CommandPlayback, SendJnlFile, Cancel, Quit, Login, Disconnect,
    AdvanceFreedIterator, ReadFreedContext, NextAccount, EndPlayback, Return, OpenFails, Open,
    EndOfFile, ReadFile, NoClients, NextFd, Send, Check, commandVars
<1> QED
  BY <1>1, <1>2, <1>3, <1>4, Zenon

LEMMA ConsoleFlagsStep == ASSUME ConsoleFlags, PlaybackNext PROVE ConsoleFlags'
<1>1. CASE Cancel
  BY <1>1, Zenon DEF Cancel, ConsoleFlags, commandVars
<1>2. CASE Quit
  BY <1>2, Zenon DEF Quit, ConsoleFlags
<1>3. ASSUME NEW w \in Worker, Open(w) PROVE ConsoleFlags'
  BY <1>3, Zenon DEF Open, ConsoleFlags, commandVars
<1>4. ASSUME NEW w \in Worker, NoClients(w) PROVE ConsoleFlags'
  BY <1>4, Zenon DEF NoClients, ConsoleFlags, commandVars
<1>5. ASSUME NEW w \in Worker, AdvanceFreedIterator(w) \/ ReadFreedContext(w) PROVE ConsoleFlags'
  BY <1>5, Zenon DEF AdvanceFreedIterator, ReadFreedContext, ConsoleFlags, commandVars
<1>6. CASE UNCHANGED <<is_quit_current_task, quitting, aborted>>
  BY <1>6, Zenon DEF ConsoleFlags
<1>7. \/ Cancel \/ Quit
      \/ \E w \in Worker : Open(w) \/ NoClients(w) \/ AdvanceFreedIterator(w) \/ ReadFreedContext(w)
      \/ UNCHANGED <<is_quit_current_task, quitting, aborted>>
  BY Zenon DEF PlaybackNext, Play, CommandPlayback, SendJnlFile, AskPlayback, Login, Disconnect,
    Begin, NextAccount, EndPlayback, Return, OpenFails, EndOfFile, ReadFile, NextFd, Send, Check,
    commandVars
<1> QED
  BY <1>1, <1>2, <1>3, <1>4, <1>5, <1>6, <1>7, Zenon

LEMMA HistoryTypesStep == ASSUME HistoryTypes, PlaybackNext PROVE HistoryTypes'
<1>1. \A n \in 0 .. NotCancelled : (IF n < 2 THEN n + 1 ELSE n) \in 0 .. NotCancelled
  BY SMT DEF NotCancelled
<1>2. 0 \in 0 .. NotCancelled /\ NotCancelled \in 0 .. NotCancelled
  BY SMT DEF NotCancelled
<1>3. ASSUME Cancelled PROVE HistoryTypes'
  <2>1. since' \in [Worker -> 0 .. NotCancelled]
    BY <1>2, <1>3, Zenon DEF Cancelled, HistoryTypes
  <2>2. reopened' \in [Worker -> BOOLEAN]
    BY <1>3, Zenon DEF Cancelled, HistoryTypes
  <2> QED
    BY <2>1, <2>2, Zenon DEF HistoryTypes
<1>4. ASSUME NEW w \in Worker, Finish(w) PROVE HistoryTypes'
  BY <1>2, <1>4, SMT DEF Finish, HistoryTypes
<1>5. ASSUME NEW w \in Worker, Open(w) PROVE HistoryTypes'
  BY <1>5, Zenon DEF Open, HistoryTypes, Playing
<1>6. ASSUME NEW w \in Worker, ReadFile(w) PROVE HistoryTypes'
  BY <1>1, <1>6, SMT DEF ReadFile, HistoryTypes
<1>7. CASE UNCHANGED historyVars
  BY <1>7, SMT DEF historyVars, HistoryTypes
<1>8. \/ Cancelled
      \/ \E w \in Worker : Finish(w) \/ Open(w) \/ ReadFile(w)
      \/ UNCHANGED historyVars
  BY Zenon DEF PlaybackNext, Play, CommandPlayback, SendJnlFile, Cancel, Quit, AskPlayback, Login,
    Disconnect, AdvanceFreedIterator, ReadFreedContext, Begin, NextAccount, EndPlayback, Return,
    OpenFails, EndOfFile, NoClients, NextFd, Send, Check
<1> QED
  BY <1>3, <1>4, <1>5, <1>6, <1>7, <1>8, Zenon

LEMMA PlaybackTypesInit == ASSUME PlaybackInit PROVE PlaybackTypes
<1>1. AccountTypes
  <2>1. dangling \in [Worker -> BOOLEAN]
    BY Zenon DEF PlaybackInit
  <2>2. clients_fd = [a \in Code |-> {}] /\ SockLookup_ = [f \in Fd |-> NoCode]
    BY Zenon DEF PlaybackInit
  <2> QED
    BY <2>1, <2>2, SMT DEF AccountTypes
<1>2. TaskTypes
  BY SMT DEF PlaybackInit, TaskTypes, Playing, PlayLabel
<1>3. BufferTypes /\ CommandTypes
  BY PlaybackConstants, SMT DEF PlaybackInit, BufferTypes, CommandTypes
<1>4. FdTypes
  BY SMT DEF PlaybackInit, FdTypes
<1>5. ConsoleFlags
  BY Zenon DEF PlaybackInit, ConsoleFlags
<1>6. HistoryTypes
  <2>1. since \in [Worker -> 0 .. NotCancelled]
    BY SMT DEF PlaybackInit, NotCancelled
  <2>2. reopened \in [Worker -> BOOLEAN]
    BY Zenon DEF PlaybackInit
  <2> QED
    BY <2>1, <2>2, Zenon DEF HistoryTypes
<1> QED
  BY <1>1, <1>2, <1>3, <1>4, <1>5, <1>6, Zenon DEF PlaybackTypes

LEMMA PlaybackTypesStep ==
  ASSUME PlaybackTypes, [PlaybackNext]_playbackVars
  PROVE  PlaybackTypes'
<1>1. CASE PlaybackNext
  BY <1>1, AccountTypesStep, TaskTypesStep, BufferTypesStep, FdTypesStep, CommandTypesStep,
     ConsoleFlagsStep, HistoryTypesStep, Zenon DEF PlaybackTypes
<1>2. CASE UNCHANGED playbackVars
  BY <1>2, Zenon
     DEF playbackVars, accountVars, commandVars, taskVars, bufferVars, sendVars, historyVars,
         PlaybackTypes, AccountTypes, TaskTypes, BufferTypes, FdTypes, CommandTypes, ConsoleFlags,
         HistoryTypes, Playing
<1> QED
  BY <1>1, <1>2, Zenon

LEMMA PlaybackTypesAlways == PlaybackSpec => []PlaybackTypes
<1>1. PlaybackInit => PlaybackTypes
  BY PlaybackTypesInit
<1>2. PlaybackTypes /\ [PlaybackNext]_playbackVars => PlaybackTypes'
  BY PlaybackTypesStep
<1> QED
  BY <1>1, <1>2, PTL DEF PlaybackSpec

\* PlaybackTypeOK: whatever clients, cancels and quits come in between, a
\* playback reads no more than the file has and sends no more than it has read
\* (bse_server.cpp:223, 254), and an open descriptor is among the clients of the
\* account it logged in to last (bse_server.cpp:617).
THEOREM PlaybackWithinFile == PlaybackSpec => []PlaybackTypeOK
<1>1. PlaybackTypes => PlaybackTypeOK
  BY PlaybackTypeParts
<1> QED
  BY <1>1, PlaybackTypesAlways, PTL

-----------------------------------------------------------------------------
(* Playback: the cancel *)

\* A thread that was cancelled, and since when no file has been opened, finds
\* the flag set; it has read one buffer at most, which it is sending then.
HearsCancel(w) ==
  /\ ~Playing(w) => since[w] = NotCancelled
  /\ Playing(w) /\ ~reopened[w] =>
       /\ since[w] # 2
       /\ since[w] = 1 => pc[w] \in {"fd", "send"}
       /\ since[w] # NotCancelled => is_quit_current_task

CancelInv == \A w \in Worker : HearsCancel(w)

\* A thread goes on and nothing is recorded of it.
LEMMA CancelKept ==
  ASSUME TaskTypes, CancelInv, UNCHANGED <<is_quit_current_task, historyVars>>,
         NEW w \in Worker, NEW label \in PlayLabel, Goto(w, label),
         Playing(w) => label \notin {"idle", "next", "return"},
         pc[w] \in {"fd", "send"} /\ since[w] = 1 /\ ~reopened[w] => label \in {"fd", "send"}
  PROVE  CancelInv'
<1>1. pc'[w] = label /\ \A v \in Worker \ {w} : pc'[v] = pc[v]
  BY PlayMoves, Zenon
<1>2. HearsCancel(w)'
  BY <1>1, SMT DEF CancelInv, HearsCancel, Playing, historyVars, NotCancelled
<1>3. \A v \in Worker \ {w} : HearsCancel(v)'
  BY <1>1, SMT DEF CancelInv, HearsCancel, Playing, historyVars
<1> QED
  BY <1>2, <1>3, Zenon DEF CancelInv

\* send_jnl_file returns.
LEMMA CancelFinished ==
  ASSUME TaskTypes, HistoryTypes, CancelInv, NEW w \in Worker, Finish(w),
         is_quit_current_task' = is_quit_current_task \/ is_quit_current_task'
  PROVE  CancelInv'
<1>1. pc'[w] = "return" /\ \A v \in Worker \ {w} : pc'[v] = pc[v]
  BY PlayMoves, SMT DEF Finish, PlayLabel
<1>2. HearsCancel(w)'
  BY <1>1, SMT DEF HearsCancel, Playing, Finish, HistoryTypes
<1>3. \A v \in Worker \ {w} : since'[v] = since[v] /\ reopened'[v] = reopened[v]
  BY SMT DEF Finish, HistoryTypes
<1>4. \A v \in Worker \ {w} : HearsCancel(v)'
  BY <1>1, <1>3, SMT DEF CancelInv, HearsCancel, Playing
<1> QED
  BY <1>2, <1>4, Zenon DEF CancelInv

LEMMA CancelStep ==
  ASSUME TaskTypes, HistoryTypes, CancelInv, PlaybackNext
  PROVE  CancelInv'
<1>1. CASE Cancel \/ Quit
  <2>1. /\ is_quit_current_task' /\ UNCHANGED pc
        /\ since' = [w \in Worker |-> IF Playing(w) THEN 0 ELSE since[w]]
    BY <1>1, Zenon DEF Cancel, Quit, Cancelled
  <2>2. ASSUME NEW w \in Worker PROVE HearsCancel(w)'
    <3>1. Playing(w)' = Playing(w)
      BY <2>1, SMT DEF Playing
    <3>2. CASE Playing(w)
      <4>1. since'[w] = 0
        BY <2>1, <3>2, SMT
      <4> QED
        BY <2>1, <3>1, <3>2, <4>1, SMT DEF HearsCancel
    <3>3. CASE ~Playing(w)
      <4>1. since'[w] = since[w] /\ since[w] = NotCancelled
        BY <2>1, <3>3, SMT DEF CancelInv, HearsCancel
      <4> QED
        BY <3>1, <3>3, <4>1, SMT DEF HearsCancel
    <3> QED
      BY <3>2, <3>3, Zenon
  <2> QED
    BY <2>2, Zenon DEF CancelInv
<1>2. ASSUME NEW w \in Worker, Open(w) PROVE CancelInv'
  <2>1. /\ pc[w] = "open" /\ Goto(w, "read") /\ UNCHANGED since
        /\ reopened' = [v \in Worker |-> Playing(v) /\ since[v] # NotCancelled]
    BY <1>2, Zenon DEF Open
  <2>2. pc'[w] = "read" /\ \A v \in Worker \ {w} : pc'[v] = pc[v]
    BY <2>1, PlayMoves, SMT DEF PlayLabel
  <2>3. \A v \in Worker : Playing(v)' = Playing(v) /\ since'[v] = since[v]
    BY <2>1, <2>2, SMT DEF Playing
  <2>4. \A v \in Worker : reopened'[v] = (Playing(v) /\ since[v] # NotCancelled)
    BY <2>1, Zenon
  <2>5. ASSUME NEW v \in Worker PROVE HearsCancel(v)'
    <3>1. CASE Playing(v)
      <4>1. reopened'[v] \/ since'[v] = NotCancelled
        BY <2>3, <2>4, <3>1, Zenon
      <4> QED
        BY <2>3, <3>1, <4>1, SMT DEF HearsCancel, NotCancelled
    <3>2. CASE ~Playing(v)
      BY <2>3, <3>2, Zenon DEF CancelInv, HearsCancel
    <3> QED
      BY <3>1, <3>2, Zenon
  <2> QED
    BY <2>5, Zenon DEF CancelInv
<1>3. ASSUME NEW w \in Worker, ReadFile(w) PROVE CancelInv'
  <2>1. /\ pc[w] = "read" /\ Goto(w, "fd") /\ UNCHANGED <<reopened, is_quit_current_task>>
        /\ since' = [since EXCEPT ![w] = IF @ < 2 THEN @ + 1 ELSE @]
    BY <1>3, Zenon DEF ReadFile
  <2>2. pc'[w] = "fd" /\ \A v \in Worker \ {w} : pc'[v] = pc[v]
    BY <2>1, PlayMoves, SMT DEF PlayLabel
  <2>3. /\ since[w] \in 0 .. 3 /\ since'[w] = IF since[w] < 2 THEN since[w] + 1 ELSE since[w]
        /\ \A v \in Worker \ {w} : since'[v] = since[v]
    BY <2>1, SMT DEF HistoryTypes, NotCancelled
  <2>4. HearsCancel(w)'
    BY <2>1, <2>2, <2>3, SMT DEF CancelInv, HearsCancel, Playing, NotCancelled
  <2>5. \A v \in Worker \ {w} : HearsCancel(v)'
    BY <2>1, <2>2, <2>3, SMT DEF CancelInv, HearsCancel, Playing
  <2> QED
    BY <2>4, <2>5, Zenon DEF CancelInv
<1>4. ASSUME NEW w \in Worker, Check(w) PROVE CancelInv'
  <2>1. CASE is_quit_current_task
    BY <1>4, <2>1, CancelFinished, SMT DEF Check
  <2>2. CASE ~is_quit_current_task
    <3>1. pc[w] = "fd" /\ Goto(w, "read") /\ UNCHANGED <<is_quit_current_task, historyVars>>
      BY <1>4, <2>2, Zenon DEF Check
    <3>2. ~(since[w] = 1 /\ ~reopened[w])
      BY <2>2, <3>1, SMT DEF CancelInv, HearsCancel, Playing, NotCancelled
    <3> QED
      BY <3>1, <3>2, CancelKept, SMT DEF PlayLabel
  <2> QED
    BY <2>1, <2>2, Zenon
<1>5. ASSUME NEW w \in Worker, OpenFails(w) \/ EndOfFile(w) \/ NoClients(w) PROVE CancelInv'
  <2>1. Finish(w) /\ (is_quit_current_task' = is_quit_current_task \/ is_quit_current_task')
    BY <1>5, Zenon DEF OpenFails, EndOfFile, NoClients
  <2> QED
    BY <2>1, CancelFinished, Zenon
<1>6. ASSUME NEW w \in Worker,
             \/ \E a \in Code \cup {All} : Begin(w, a)
             \/ \E a \in Code : NextAccount(w, a)
             \/ EndPlayback(w) \/ Return(w)
      PROVE  CancelInv'
  <2>1. PICK label \in PlayLabel : Goto(w, label)
    BY <1>6, SMT DEF Begin, NextAccount, EndPlayback, Return, Leave, PlayLabel
  <2>2. ~Playing(w) /\ pc[w] \notin {"fd", "send"}
    BY <1>6, SMT DEF Begin, NextAccount, EndPlayback, Return, Playing
  <2>3. UNCHANGED <<is_quit_current_task, historyVars>>
    BY <1>6, Zenon DEF Begin, NextAccount, EndPlayback, Return
  <2> QED
    BY <2>1, <2>2, <2>3, CancelKept, Zenon
<1>7. ASSUME NEW w \in Worker, NEW f \in Fd, NextFd(w, f) PROVE CancelInv'
  BY <1>7, CancelKept, SMT DEF NextFd, PlayLabel
<1>8. ASSUME NEW w \in Worker, Send(w) PROVE CancelInv'
  <2>1. UNCHANGED <<is_quit_current_task, historyVars>>
    BY <1>8, Zenon DEF Send
  <2>2. CASE Goto(w, "fd")
    BY <2>1, <2>2, CancelKept, SMT DEF PlayLabel
  <2>3. CASE UNCHANGED pc
    BY <2>1, <2>3, SMT DEF CancelInv, HearsCancel, Playing, historyVars
  <2> QED
    BY <1>8, <2>2, <2>3, Zenon DEF Send
<1>9. CASE UNCHANGED <<is_quit_current_task, pc, historyVars>>
  BY <1>9, SMT DEF CancelInv, HearsCancel, Playing, historyVars
<1>10. \/ Cancel \/ Quit
       \/ \E w \in Worker : \/ Open(w) \/ ReadFile(w) \/ Check(w)
                            \/ OpenFails(w) \/ EndOfFile(w) \/ NoClients(w)
                            \/ \E a \in Code \cup {All} : Begin(w, a)
                            \/ \E a \in Code : NextAccount(w, a)
                            \/ EndPlayback(w) \/ Return(w)
                            \/ \E f \in Fd : NextFd(w, f)
                            \/ Send(w)
       \/ UNCHANGED <<is_quit_current_task, pc, historyVars>>
  BY Zenon DEF PlaybackNext, Play, CommandPlayback, SendJnlFile, AskPlayback, Login, Disconnect,
    AdvanceFreedIterator, ReadFreedContext
<1> QED
  BY <1>1, <1>2, <1>3, <1>4, <1>5, <1>6, <1>7, <1>8, <1>9, <1>10, Zenon

\* CancelHeardOnceOpen: however many threads play, and whatever becomes of the
\* clients, a cancel stops every playback within a buffer, as long as none opens
\* a file in the meantime, which would clear the flag (bse_server.cpp:195, 273).
THEOREM PlaybackCancelHeard == PlaybackSpec => []CancelHeardOnceOpen
<1>1. PlaybackInit => CancelInv
  BY SMT DEF PlaybackInit, CancelInv, HearsCancel, Playing
<1>2. ASSUME PlaybackTypes, CancelInv, [PlaybackNext]_playbackVars PROVE CancelInv'
  <2>1. CASE UNCHANGED playbackVars
    BY <1>2, <2>1, SMT DEF CancelInv, HearsCancel, Playing, playbackVars, historyVars
  <2> QED
    BY <1>2, <2>1, CancelStep, Zenon DEF PlaybackTypes
<1>3. ASSUME PlaybackTypes, CancelInv PROVE CancelHeardOnceOpen
  <2>1. \A w \in Worker : since[w] \in 0 .. 3
    BY <1>3, SMT DEF PlaybackTypes, HistoryTypes, NotCancelled
  <2> QED
    BY <1>3, <2>1, SMT DEF CancelInv, HearsCancel, CancelHeardOnceOpen, NotCancelled
<1>4. PlaybackTypes /\ CancelInv /\ [PlaybackNext]_playbackVars => CancelInv'
  BY <1>2
<1>5. PlaybackTypes /\ CancelInv => CancelHeardOnceOpen
  BY <1>3
<1> QED
  BY <1>1, <1>4, <1>5, PlaybackTypesAlways, PTL DEF PlaybackSpec
================================================================================
