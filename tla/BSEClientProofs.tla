---------------------------- MODULE BSEClientProofs ----------------------------
(***************************************************************************)
(* That the client's FILE is used after its fclose only if the server      *)
(* hangs up, and that the journal has the server's messages in their       *)
(* order, for any number of threads and messages.                          *)
(*                                                                         *)
(* FileSafeWhileUp is not inductive alone: it needs that no task runs      *)
(* before the pool starts and after it stops (Staffed), that as long as    *)
(* the server is there nobody sees the connection end (Undisturbed), and   *)
(* that it is the destructor which closes the file then, after Run.        *)
(* JournalInOrder needs that r_mutex keeps the readers apart (OneReader)   *)
(* and what the pointer says of the FILE (Pointer).                        *)
(***************************************************************************)
EXTENDS BSEClient, TLAPS

Early == {"queued", "connect", "fifo", "monitor"}
Late == {"clear_fd", "free", "returned"}
Ending == {"ended", "fclose", "null", "clear"}
LoopLabels == Early \cup Late \cup Ending \cup {"wait", "stop", "hung"}

Quiet == \A w \in Worker : pc[w] = "idle"

\* The pool's threads work only while Run is in its loop or stops them.
Staffed ==
  /\ DOMAIN pc = Thread
  /\ pc[Loop] \in LoopLabels
  /\ pc[Loop] \in Early => Quiet /\ Tasks_ = << >>
  /\ pc[Loop] \in Late => Quiet /\ (closed \/ Tasks_ = << >>)
  /\ main = "returned" => pc[Loop] = "returned"

\* With the server there, nobody sees the connection end, and the file is
\* closed by the destructor only.
Undisturbed ==
  peer = "up" =>
    /\ \A t \in Thread : pc[t] \notin Ending
    /\ pc[Loop] \in {"fifo", "monitor", "wait", "stop", "hung"} => conn = "up"
    /\ file = "closed" => main = "returned"
    /\ ~corrupted

SafeInv == Staffed /\ Undisturbed

LEMMA Moves ==
  ASSUME DOMAIN pc = Thread, NEW t \in Thread, NEW label, Goto(t, label)
  PROVE  /\ DOMAIN pc' = Thread
         /\ pc'[t] = label
         /\ \A u \in Thread \ {t} : pc'[u] = pc[u]
BY SMT DEF Goto

LEMMA Threads == Worker \subseteq Thread /\ Loop \in Thread /\ Loop \notin Worker
BY ClientAssumption, SMT DEF Thread

-----------------------------------------------------------------------------
(* Types *)

WorkerLabels ==
  {"idle", "read", "reading", "process", "fwrite", "write", "writing"} \cup Ending

Places ==
  /\ DOMAIN pc = Thread
  /\ pc[Loop] \in LoopLabels
  /\ \A w \in Worker : pc[w] \in WorkerLabels

Locks ==
  /\ r_mutex \in Worker \cup {Nobody} /\ w_mutex \in Worker \cup {Nobody}
  /\ r_mutex # Nobody => pc[r_mutex] \notin {"idle", "read", "write", "writing"}
  /\ w_mutex # Nobody => pc[w_mutex] \notin {"idle", "write", "read", "reading", "process",
                                             "fwrite"}

Queues ==
  /\ sent \in Seq(Kind) /\ taken \in 0 .. Len(sent)
  /\ Tasks_ \in Seq({"read", "write"})
  /\ journal \in Seq(1 .. MaxSent)

Flags ==
  /\ main \in {"typing", "typed", "join", "hung", "returned"}
  /\ Cmdfd_ \in {"stdin", "fifo", "closed"}
  /\ fifo \in BOOLEAN /\ monitored \in BOOLEAN /\ fifo_edge \in BOOLEAN /\ unheard \in BOOLEAN
  /\ conn \in {"none", "up", "closed"} /\ edge \in BOOLEAN /\ unwritten \in BOOLEAN
  /\ peer \in {"up", "gone"}
  /\ closed \in BOOLEAN
  /\ jnl_file_ \in BOOLEAN /\ file \in {"none", "open", "closed"}
  /\ corrupted \in BOOLEAN /\ died \in BOOLEAN

\* A message that is being saved has been read.
Counts ==
  /\ Len(sent) <= MaxSent
  /\ \A w \in Worker : pc[w] \in {"process", "fwrite"} => taken > 0

LEMMA TypeParts == TypeOK <=> Places /\ Locks /\ Queues /\ Flags
BY SMT DEF TypeOK, Places, Locks, Queues, Flags, LoopLabels, WorkerLabels, Early, Late, Ending

\* What a step of Run does to the threads.
LEMMA RunMoves ==
  ASSUME Run
  PROVE  /\ UNCHANGED <<lockVars, streamVars, journal>>
         /\ UNCHANGED pc \/ \E label \in LoopLabels : Goto(Loop, label)
<1>1. CASE BeginRun
  BY <1>1, SMT DEF BeginRun, LoopLabels, Early, Late, fileVars
<1>2. CASE OpenFifo \/ MonitorFifo
  BY <1>2, SMT DEF OpenFifo, MonitorFifo, LoopLabels, Early, fileVars
<1>3. CASE RemoteClose
  BY <1>3, SMT DEF RemoteClose, LoopLabels, Ending, fileVars
<1>7. CASE Dispatch
  BY <1>7, Zenon DEF Dispatch, fileVars
<1>4. CASE HandleCommand \/ StopPool \/ StopPoolLost
  BY <1>4, SMT DEF HandleCommand, StopPool, StopPoolLost, LoopLabels, Late, fileVars
<1>5. CASE ClearCommandFd \/ DeleteContexts
  BY <1>5, SMT DEF ClearCommandFd, DeleteContexts, LoopLabels, Late, fileVars
<1>6. CASE Disconnect(Loop)
  BY <1>6, SMT DEF Disconnect, CloseTest, CloseFile, SetNull, Clear, LoopLabels, Ending, fileVars
<1> QED
  BY <1>1, <1>2, <1>3, <1>4, <1>5, <1>6, <1>7, Zenon DEF Run

LEMMA PlacesStep == ASSUME Places, Queues, Next PROVE Places'
<1>1. ASSUME NEW label \in LoopLabels, Goto(Loop, label) PROVE Places'
  BY <1>1, Moves, Threads, SMT DEF Places
<1>2. ASSUME NEW w \in Worker, NEW label \in WorkerLabels, Goto(w, label) PROVE Places'
  BY <1>2, Moves, Threads, SMT DEF Places
<1>3. CASE UNCHANGED pc
  BY <1>3, SMT DEF Places
<1>4. CASE Main
  BY <1>3, <1>4, SMT DEF Main, StopThreads, StopThreadsLost, Destroy
<1>5. CASE Environment
  BY <1>1, <1>3, <1>5, SMT
     DEF Environment, TypeQuit, Send, Hangup, Connect, ConnectFails, LoopLabels, Early, Late
<1>6. CASE Run
  BY <1>1, <1>3, <1>6, RunMoves, Zenon
<1>7. ASSUME NEW w \in Worker, Work(w) PROVE Places'
  <2>1. CASE Begin(w)
    <3>1. Head(Tasks_) \in {"read", "write"}
      BY <2>1, SMT DEF Begin, Queues
    <3> QED
      BY <1>2, <2>1, <3>1, SMT DEF Begin, WorkerLabels
  <2>2. CASE HandleRead(w)
    BY <1>2, <2>2, SMT DEF HandleRead, LockRead, ReadMessage, ReadAgain, ReadEnds, ProcessData,
                           SaveJnl, Leave, WorkerLabels, Ending
  <2>3. CASE HandleWrite(w)
    BY <1>2, <1>3, <2>3, SMT DEF HandleWrite, LockWrite, Write, WriteFails, WriteBrokenPipe, Leave,
                                 WorkerLabels, Ending
  <2>4. CASE Disconnect(w)
    BY <1>2, <2>4, Threads, SMT DEF Disconnect, CloseTest, CloseFile, SetNull, Clear, Leave,
                                    WorkerLabels, Ending
  <2> QED
    BY <1>7, <2>1, <2>2, <2>3, <2>4, Zenon DEF Work
<1> QED
  BY <1>4, <1>5, <1>6, <1>7, Zenon DEF Next

\* A thread goes on and keeps what it has locked.
LEMMA LocksKept ==
  ASSUME Places, Locks, NEW t \in Thread, NEW label, Goto(t, label), UNCHANGED lockVars,
         r_mutex = t => label \notin {"idle", "read", "write", "writing"},
         w_mutex = t => label \notin {"idle", "write", "read", "reading", "process", "fwrite"}
  PROVE  Locks'
<1>1. pc'[t] = label /\ \A u \in Thread \ {t} : pc'[u] = pc[u]
  BY Moves, Zenon DEF Places
<1> QED
  BY <1>1, Threads, SMT DEF Locks, lockVars

LEMMA LocksLeft == ASSUME Places, Locks, NEW w \in Worker, Leave(w) PROVE Locks'
<1>1. \A u \in Thread \ {w} : pc'[u] = pc[u]
  BY Moves, Threads, Zenon DEF Places, Leave
<1> QED
  BY <1>1, Threads, ClientAssumption, SMT DEF Locks, Leave, Released

LEMMA LocksStep == ASSUME Places, Locks, Next PROVE Locks'
<1>1. ASSUME NEW label, Goto(Loop, label), UNCHANGED lockVars PROVE Locks'
  <2>2. \A u \in Worker : pc'[u] = pc[u]
    BY <1>1, Moves, Threads, Zenon DEF Places
  <2> QED
    BY <1>1, <2>2, SMT DEF Locks, lockVars
<1>2. CASE UNCHANGED <<pc, lockVars>>
  BY <1>2, SMT DEF Locks, lockVars
<1>3. CASE Main
  BY <1>2, <1>3, SMT DEF Main, StopThreads, StopThreadsLost, Destroy
<1>4. CASE Environment
  BY <1>1, <1>2, <1>4, SMT DEF Environment, TypeQuit, Send, Hangup, Connect, ConnectFails
<1>5. CASE Run
  BY <1>1, <1>2, <1>5, RunMoves, Zenon
<1>6. ASSUME NEW w \in Worker, Work(w) PROVE Locks'
  <2>0. w \in Thread /\ w # Loop /\ w # Nobody
    BY Threads, ClientAssumption, SMT
  <2>1. r_mutex = w => pc[w] \notin {"idle", "read", "write", "writing"}
    BY <2>0, SMT DEF Locks
  <2>2. w_mutex = w => pc[w] \notin {"idle", "write", "read", "reading", "process", "fwrite"}
    BY <2>0, SMT DEF Locks
  <2>3. CASE Begin(w)
    BY <2>0, <2>1, <2>2, <2>3, LocksKept, SMT DEF Begin
  <2>4. CASE HandleRead(w)
    <3>1. CASE LockRead(w)
      <4>1. CASE conn = "up"
        <5>1. pc'[w] = "reading" /\ \A u \in Thread \ {w} : pc'[u] = pc[u]
          BY <2>0, <3>1, <4>1, Moves, SMT DEF LockRead, Places
        <5> QED
          BY <2>0, <2>2, <3>1, <4>1, <5>1, Threads, SMT DEF LockRead, Locks
      <4>2. CASE conn # "up"
        BY <2>0, <2>1, <2>2, <3>1, <4>2, LocksKept, SMT DEF LockRead, lockVars
      <4> QED
        BY <4>1, <4>2, Zenon
    <3>2. CASE ReadMessage(w) \/ ReadEnds(w) \/ ProcessData(w) \/ SaveJnl(w)
      BY <2>0, <2>1, <2>2, <3>2, LocksKept, SMT DEF ReadMessage, ReadEnds, ProcessData, SaveJnl
    <3>3. CASE ReadAgain(w)
      BY <3>3, LocksLeft, SMT DEF ReadAgain
    <3> QED
      BY <2>4, <3>1, <3>2, <3>3, Zenon DEF HandleRead
  <2>5. CASE HandleWrite(w)
    <3>1. CASE LockWrite(w)
      <4>1. CASE conn = "up"
        <5>1. pc'[w] = "writing" /\ \A u \in Thread \ {w} : pc'[u] = pc[u]
          BY <2>0, <3>1, <4>1, Moves, SMT DEF LockWrite, Places
        <5> QED
          BY <2>0, <2>1, <3>1, <4>1, <5>1, Threads, SMT DEF LockWrite, Locks
      <4>2. CASE conn # "up"
        BY <2>0, <2>1, <2>2, <3>1, <4>2, LocksKept, SMT DEF LockWrite, lockVars
      <4> QED
        BY <4>1, <4>2, Zenon
    <3>2. CASE WriteFails(w)
      BY <2>0, <2>1, <2>2, <3>2, LocksKept, SMT DEF WriteFails
    <3>3. CASE Write(w)
      BY <3>3, LocksLeft, SMT DEF Write
    <3>4. CASE WriteBrokenPipe(w)
      BY <1>2, <3>4, SMT DEF WriteBrokenPipe
    <3> QED
      BY <2>5, <3>1, <3>2, <3>3, <3>4, Zenon DEF HandleWrite
  <2>6. CASE Disconnect(w)
    <3>1. CASE CloseTest(w) \/ CloseFile(w) \/ SetNull(w)
      BY <2>0, <2>1, <2>2, <3>1, LocksKept, SMT DEF CloseTest, CloseFile, SetNull
    <3>2. CASE Clear(w)
      BY <2>0, <3>2, LocksLeft, SMT DEF Clear
    <3> QED
      BY <2>6, <3>1, <3>2, Zenon DEF Disconnect
  <2> QED
    BY <1>6, <2>3, <2>4, <2>5, <2>6, Zenon DEF Work
<1> QED
  BY <1>3, <1>4, <1>5, <1>6, Zenon DEF Next

LEMMA QueuesStep == ASSUME Places, Queues, Counts, Next PROVE Queues' /\ Counts'
<1>1. ASSUME UNCHANGED <<streamVars, Tasks_, journal>>,
             \A w \in Worker : pc'[w] \in {"process", "fwrite"} => pc[w] \in {"process", "fwrite"}
      PROVE  Queues' /\ Counts'
  BY <1>1, SMT DEF Queues, Counts, streamVars
<1>2. CASE Main
  BY <1>1, <1>2, SMT DEF Main, StopThreads, StopThreadsLost, Destroy, poolVars, fileVars
<1>3. ASSUME NEW label, Goto(Loop, label) PROVE \A w \in Worker : pc'[w] = pc[w]
  BY <1>3, Moves, Threads, Zenon DEF Places
<1>4. CASE Environment
  <2>1. ASSUME NEW kind \in Kind, Send(kind) PROVE Queues' /\ Counts'
    <3>1. sent' = Append(sent, kind) /\ Len(sent) < MaxSent /\ UNCHANGED <<pc, taken, Tasks_, journal>>
      BY <2>1, SMT DEF Send, poolVars, fileVars
    <3>2. sent' \in Seq(Kind) /\ Len(sent') = Len(sent) + 1
      BY <3>1, SMT DEF Queues
    <3> QED
      BY <3>1, <3>2, ClientAssumption, SMT DEF Queues, Counts
  <2>2. CASE TypeQuit \/ Hangup
    BY <1>1, <2>2, SMT DEF TypeQuit, Hangup, poolVars, fileVars
  <2>3. CASE Connect \/ ConnectFails
    <3>1. \A w \in Worker : pc'[w] = pc[w]
      BY <1>3, <2>3, SMT DEF Connect, ConnectFails
    <3> QED
      BY <1>1, <2>3, <3>1, SMT DEF Connect, ConnectFails, poolVars, fileVars
  <2> QED
    BY <1>4, <2>1, <2>2, <2>3, Zenon DEF Environment
<1>5. CASE Run
  <2>1. \A w \in Worker : pc'[w] = pc[w]
    BY <1>3, <1>5, RunMoves, Zenon
  <2>2. UNCHANGED <<streamVars, journal>>
    BY <1>5, RunMoves, Zenon
  <2>3. Tasks_' \in Seq({"read", "write"})
    <3>1. CASE Dispatch
      <4>1. PICK r \in Seq({"read", "write"}), u \in Seq({"read", "write"}) : Tasks_' = Tasks_ \o r \o u
        <5>1. << >> \in Seq({"read", "write"}) /\ <<"read">> \in Seq({"read", "write"})
              /\ <<"write">> \in Seq({"read", "write"})
          BY SMT
        <5> QED
          BY <3>1, <5>1, Zenon DEF Dispatch
      <4> QED
        BY <4>1, SMT DEF Queues
    <3>2. CASE UNCHANGED Tasks_
      BY <3>2, Zenon DEF Queues
    <3>3. Dispatch \/ UNCHANGED Tasks_
      BY <1>5, SMT
         DEF Run, BeginRun, OpenFifo, MonitorFifo, RemoteClose, HandleCommand, StopPool,
             StopPoolLost, ClearCommandFd, DeleteContexts, Disconnect, CloseTest, CloseFile,
             SetNull, Clear, poolVars
    <3> QED
      BY <3>1, <3>2, <3>3, Zenon
  <2> QED
    BY <2>1, <2>2, <2>3, SMT DEF Queues, Counts, streamVars
<1>6. ASSUME NEW w \in Worker, Work(w) PROVE Queues' /\ Counts'
  <2>1. ASSUME NEW label, Goto(w, label)
        PROVE  pc'[w] = label /\ \A u \in Worker \ {w} : pc'[u] = pc[u]
    BY <2>1, Moves, Threads, Zenon DEF Places
  <2>2. CASE Begin(w)
    <3>1. Head(Tasks_) \in {"read", "write"} /\ Tail(Tasks_) \in Seq({"read", "write"})
      BY <2>2, SMT DEF Begin, Queues
    <3>2. UNCHANGED <<sent, taken, journal>> /\ Tasks_' = Tail(Tasks_) /\ Goto(w, Head(Tasks_))
      BY <2>2, SMT DEF Begin, streamVars, fileVars
    <3>3. \A u \in Worker : pc'[u] \in {"process", "fwrite"} => pc[u] \in {"process", "fwrite"}
      BY <2>1, <3>1, <3>2, SMT
    <3> QED
      BY <3>1, <3>2, <3>3, SMT DEF Queues, Counts
  <2>3. CASE ReadMessage(w)
    BY <2>1, <2>3, SMT DEF ReadMessage, Queues, Counts, poolVars, fileVars
  <2>4. CASE SaveJnl(w)
    <3>1. taken \in 1 .. MaxSent
      BY <2>4, ClientAssumption, SMT DEF SaveJnl, Queues, Counts
    <3> QED
      BY <2>1, <2>4, <3>1, SMT DEF SaveJnl, Queues, Counts, poolVars, streamVars
  <2>5. CASE LockRead(w) \/ ReadAgain(w) \/ ReadEnds(w) \/ ProcessData(w) \/ HandleWrite(w)
             \/ Disconnect(w)
    <3>1. UNCHANGED <<streamVars, Tasks_, journal>>
      BY <2>5, SMT DEF LockRead, ReadAgain, ReadEnds, ProcessData, HandleWrite, LockWrite, Write,
                       WriteFails, WriteBrokenPipe, Disconnect, CloseTest, CloseFile, SetNull, Clear,
                       poolVars, fileVars
    <3>2. UNCHANGED pc \/ \E label \in WorkerLabels :
             /\ Goto(w, label)
             /\ label \in {"process", "fwrite"} => pc[w] = "process"
      BY <2>5, Threads, SMT
         DEF LockRead, ReadAgain, ReadEnds, ProcessData, HandleWrite, LockWrite, Write,
             WriteFails, WriteBrokenPipe, Disconnect, CloseTest, CloseFile, SetNull, Clear,
             Leave, WorkerLabels, Ending
    <3> QED
      BY <1>1, <2>1, <3>1, <3>2, SMT
  <2> QED
    BY <1>6, <2>2, <2>3, <2>4, <2>5, Zenon DEF Work, HandleRead
<1> QED
  BY <1>2, <1>4, <1>5, <1>6, Zenon DEF Next

-----------------------------------------------------------------------------
(* The file *)

\* A step of the loop's thread that leaves the file alone.
LEMMA LoopMoves ==
  ASSUME SafeInv, NEW label \in LoopLabels, Goto(Loop, label),
         UNCHANGED <<main, peer, file, corrupted>>,
         label \in Early => pc[Loop] \in Early /\ Tasks_' = << >>,
         label \in Late => /\ pc[Loop] \in Early \cup Late \/ Quiet
                           /\ closed' \/ Tasks_' = << >>,
         main # "returned",
         peer = "up" => /\ label \notin Ending
                        /\ label \in {"fifo", "monitor", "wait", "stop", "hung"} => conn' = "up"
  PROVE  SafeInv'
<1>1. /\ DOMAIN pc' = Thread /\ pc'[Loop] = label
      /\ \A u \in Thread \ {Loop} : pc'[u] = pc[u]
  BY Moves, Threads, Zenon DEF SafeInv, Staffed
<1>2. Quiet => Quiet'
  BY <1>1, Threads, SMT DEF Quiet
<1>3. Staffed'
  BY <1>1, <1>2, SMT DEF SafeInv, Staffed
<1>4. Undisturbed'
  BY <1>1, Threads, SMT DEF SafeInv, Undisturbed
<1> QED
  BY <1>3, <1>4, Zenon DEF SafeInv

LEMMA RunSafe == ASSUME SafeInv, Run PROVE SafeInv'
<1>0. main = "returned" => pc[Loop] = "returned"
  BY Zenon DEF SafeInv, Staffed
<1>1. CASE BeginRun
  <2>1. pc[Loop] \in Early /\ Tasks_ = << >> /\ Tasks_' = Tasks_
    BY <1>1, SMT DEF BeginRun, SafeInv, Staffed, Early, poolVars
  <2> QED
    BY <1>0, <1>1, <2>1, LoopMoves, SMT
       DEF BeginRun, LoopLabels, Early, Late, Ending, fileVars
<1>2. CASE OpenFifo \/ MonitorFifo
  <2>1. pc[Loop] \in Early /\ Tasks_ = << >> /\ Tasks_' = Tasks_
    BY <1>2, SMT DEF OpenFifo, MonitorFifo, SafeInv, Staffed, Early, poolVars
  <2>2. peer = "up" => conn' = "up"
    BY <1>2, SMT DEF OpenFifo, MonitorFifo, SafeInv, Undisturbed, socketVars
  <2> QED
    BY <1>0, <1>2, <2>1, <2>2, LoopMoves, SMT
       DEF OpenFifo, MonitorFifo, LoopLabels, Early, Late, Ending, fileVars
<1>3. CASE RemoteClose
  BY <1>0, <1>3, LoopMoves, SMT
     DEF RemoteClose, Idling, LoopLabels, Early, Late, Ending, fileVars
<1>4. CASE Dispatch
  BY <1>4, SMT DEF Dispatch, Idling, SafeInv, Staffed, Undisturbed, Quiet, Early, Late, fileVars
<1>5. CASE HandleCommand
  <2>1. peer = "up" => conn' = "up"
    BY <1>5, SMT DEF HandleCommand, Idling, SafeInv, Undisturbed, socketVars
  <2> QED
    BY <1>0, <1>5, <2>1, LoopMoves, SMT
       DEF HandleCommand, Idling, LoopLabels, Early, Late, Ending, fileVars
<1>6. CASE StopPool
  BY <1>0, <1>6, LoopMoves, SMT DEF StopPool, Quiet, LoopLabels, Early, Late, Ending, fileVars
<1>9. CASE StopPoolLost
  <2>1. peer = "up" => conn' = "up"
    BY <1>9, SMT DEF StopPoolLost, SafeInv, Undisturbed, socketVars
  <2> QED
    BY <1>0, <1>9, <2>1, LoopMoves, SMT DEF StopPoolLost, LoopLabels, Early, Late, Ending, fileVars
<1>7. CASE ClearCommandFd \/ DeleteContexts
  <2>1. pc[Loop] \in Late /\ (closed' \/ Tasks_' = << >>)
    BY <1>7, SMT DEF ClearCommandFd, DeleteContexts, SafeInv, Staffed, Late, poolVars
  <2> QED
    BY <1>0, <1>7, <2>1, LoopMoves, SMT
       DEF ClearCommandFd, DeleteContexts, LoopLabels, Early, Late, Ending, fileVars
<1>8. CASE Disconnect(Loop)
  <2>1. pc[Loop] \in Ending
    BY <1>8, SMT DEF Disconnect, CloseTest, CloseFile, SetNull, Clear, Ending
  <2>2. peer # "up" /\ UNCHANGED <<main, peer>>
    BY <1>8, <2>1, Threads, SMT
       DEF SafeInv, Undisturbed, Disconnect, CloseTest, CloseFile, SetNull, Clear
  <2>3. PICK label \in {"fclose", "null", "clear", "wait"} : Goto(Loop, label)
    BY <1>8, SMT DEF Disconnect, CloseTest, CloseFile, SetNull, Clear
  <2>4. DOMAIN pc' = Thread /\ pc'[Loop] = label
    BY <2>3, Moves, Threads, Zenon DEF SafeInv, Staffed
  <2> QED
    BY <1>0, <2>1, <2>2, <2>4, SMT
       DEF SafeInv, Staffed, Undisturbed, LoopLabels, Early, Late, Ending
<1> QED
  BY <1>1, <1>2, <1>3, <1>4, <1>5, <1>6, <1>7, <1>8, <1>9, Zenon DEF Run

LEMMA MainSafe == ASSUME SafeInv, Main PROVE SafeInv'
<1>1. CASE StopThreads \/ StopThreadsLost
  BY <1>1, SMT DEF StopThreads, StopThreadsLost, SafeInv, Staffed, Undisturbed, Quiet, poolVars,
                   socketVars, fileVars
<1>2. CASE Destroy
  <2>1. /\ UNCHANGED <<pc, closed, Tasks_, conn, peer>>
        /\ main = "join" /\ main' = "returned" /\ pc[Loop] = "returned"
    BY <1>2, SMT DEF Destroy, poolVars, socketVars
  <2>2. peer = "up" => ~corrupted'
    <3>1. ASSUME peer = "up" PROVE file # "closed" /\ ~corrupted
      BY <2>1, <3>1, SMT DEF SafeInv, Undisturbed
    <3> QED
      BY <1>2, <3>1, Zenon DEF Destroy
  <2>3. Quiet' = Quiet
    BY <2>1, SMT DEF Quiet
  <2> QED
    BY <2>1, <2>2, <2>3, SMT DEF SafeInv, Staffed, Undisturbed
<1> QED
  BY <1>1, <1>2, Zenon DEF Main

\* A worker that is not idle: Run is in its loop or stops the pool.
LEMMA Busy ==
  ASSUME SafeInv, NEW w \in Worker, pc[w] # "idle"
  PROVE  pc[Loop] \notin Early \cup Late /\ main # "returned"
BY SMT DEF SafeInv, Staffed, Quiet, Late, Early

\* A worker's step that leaves the file alone.
LEMMA WorkerMoves ==
  ASSUME SafeInv, NEW w \in Worker, NEW label, Goto(w, label),
         UNCHANGED <<main, peer>>,
         pc[Loop] \notin Early \cup Late,
         peer = "up" => /\ label \notin Ending
                        /\ UNCHANGED <<file, conn>>
                        /\ ~corrupted'
  PROVE  SafeInv'
<1>1. /\ DOMAIN pc' = Thread /\ pc'[w] = label
      /\ \A u \in Thread \ {w} : pc'[u] = pc[u]
  BY Moves, Threads, Zenon DEF SafeInv, Staffed
<1>2. pc'[Loop] = pc[Loop]
  BY <1>1, Threads, Zenon
<1>3. Staffed'
  BY <1>1, <1>2, SMT DEF SafeInv, Staffed
<1>4. Undisturbed'
  BY <1>1, <1>2, Threads, SMT DEF SafeInv, Undisturbed
<1> QED
  BY <1>3, <1>4, Zenon DEF SafeInv

LEMMA WorkSafe == ASSUME SafeInv, Queues, NEW w \in Worker, Work(w) PROVE SafeInv'
<1>0. peer = "up" => ~corrupted
  BY Zenon DEF SafeInv, Undisturbed
<1>1. CASE Begin(w)
  <2>1. pc[Loop] \notin Early \cup Late
    BY <1>1, SMT DEF Begin, SafeInv, Staffed, Early, Late
  <2>2. Head(Tasks_) \in {"read", "write"}
    BY <1>1, SMT DEF Begin, Queues
  <2> QED
    BY <1>0, <1>1, <2>1, <2>2, WorkerMoves, SMT DEF Begin, Ending, socketVars, fileVars
<1>2. ASSUME pc[w] # "idle"
      PROVE  /\ pc[Loop] \notin Early \cup Late
             /\ peer = "up" => conn = "up" /\ file # "closed" /\ pc[w] \notin Ending
  <2>1. pc[Loop] \notin Early \cup Late /\ main # "returned"
    BY <1>2, Busy
  <2>2. pc[Loop] \in Ending \cup {"wait", "stop", "hung"}
    BY <2>1, SMT DEF SafeInv, Staffed, LoopLabels
  <2> QED
    BY <2>1, <2>2, Threads, SMT DEF SafeInv, Undisturbed
<1>3. CASE LockRead(w) \/ ReadMessage(w) \/ ReadAgain(w) \/ ReadEnds(w)
  BY <1>0, <1>2, <1>3, WorkerMoves, SMT
     DEF LockRead, ReadMessage, ReadAgain, ReadEnds, Leave, Ending, socketVars, fileVars
<1>4. CASE ProcessData(w)
  <2>1. PICK label \in {"fwrite", "reading"} : Goto(w, label)
    BY <1>4, SMT DEF ProcessData
  <2>2. pc[w] = "process" /\ UNCHANGED <<main, peer, file, conn, corrupted>>
    BY <1>4, SMT DEF ProcessData, fileVars
  <2> QED
    BY <1>0, <1>2, <2>1, <2>2, WorkerMoves, SMT DEF Ending
<1>8. CASE SaveJnl(w)
  <2>1. pc[w] = "fwrite" /\ Goto(w, "reading") /\ UNCHANGED <<main, peer, file, conn>>
    BY <1>8, SMT DEF SaveJnl, socketVars
  <2>2. peer = "up" => ~corrupted'
    <3>1. ASSUME peer = "up" PROVE file # "closed" /\ ~corrupted
      BY <1>0, <1>2, <2>1, <3>1, SMT
    <3> QED
      BY <1>8, <3>1, Zenon DEF SaveJnl
  <2> QED
    BY <1>2, <2>1, <2>2, WorkerMoves, SMT DEF Ending
<1>5. CASE LockWrite(w) \/ Write(w) \/ WriteFails(w)
  BY <1>0, <1>2, <1>5, WorkerMoves, SMT
     DEF LockWrite, Write, WriteFails, Leave, Ending, socketVars, fileVars
<1>6. CASE WriteBrokenPipe(w)
  BY <1>6, SMT DEF WriteBrokenPipe, SafeInv, Staffed, Undisturbed, Quiet, socketVars, poolVars,
                   fileVars
<1>7. CASE Disconnect(w)
  <2>1. pc[w] \in Ending /\ pc[w] # "idle" /\ UNCHANGED <<main, peer>>
    BY <1>7, SMT DEF Disconnect, CloseTest, CloseFile, SetNull, Clear, Ending
  <2>2. peer # "up" /\ pc[Loop] \notin Early \cup Late
    BY <1>2, <2>1, Zenon
  <2>3. PICK label : Goto(w, label)
    BY <1>7, Threads, SMT DEF Disconnect, CloseTest, CloseFile, SetNull, Clear, Leave
  <2> QED
    BY <2>1, <2>2, <2>3, WorkerMoves, Zenon
<1> QED
  BY <1>1, <1>3, <1>4, <1>5, <1>6, <1>7, <1>8, Zenon DEF Work, HandleRead, HandleWrite

LEMMA EnvironmentSafe == ASSUME SafeInv, Environment PROVE SafeInv'
<1>1. CASE TypeQuit
  BY <1>1, SMT DEF TypeQuit, SafeInv, Staffed, Undisturbed, Quiet, socketVars, poolVars, fileVars
<1>2. ASSUME NEW kind \in Kind, Send(kind) PROVE SafeInv'
  BY <1>2, SMT DEF Send, SafeInv, Staffed, Undisturbed, Quiet, poolVars, fileVars
<1>3. CASE Hangup
  BY <1>3, SMT DEF Hangup, SafeInv, Staffed, Undisturbed, Quiet, poolVars
<1>4. CASE Connect \/ ConnectFails
  <2>0. pc[Loop] = "connect" /\ UNCHANGED <<main, peer, corrupted, Tasks_, closed>>
    BY <1>4, SMT DEF Connect, ConnectFails, poolVars, fileVars
  <2>1. /\ Quiet /\ Tasks_ = << >> /\ main # "returned"
        /\ peer = "up" => ~corrupted /\ (file = "closed" => main = "returned")
                         /\ \A t \in Thread : pc[t] \notin Ending
    BY <2>0, SMT DEF SafeInv, Staffed, Undisturbed, Early
  <2>2. PICK label \in {"fifo", "returned"} :
          /\ Goto(Loop, label)
          /\ label = "fifo" => conn' = "up"
    BY <1>4, SMT DEF Connect, ConnectFails
  <2>3. file' = file \/ file' = "open"
    BY <1>4, SMT DEF Connect, ConnectFails, on_connect, fileVars
  <2>4. /\ DOMAIN pc' = Thread /\ pc'[Loop] = label
        /\ \A u \in Thread \ {Loop} : pc'[u] = pc[u]
    BY <2>2, Moves, Threads, Zenon DEF SafeInv, Staffed
  <2>5. Quiet'
    BY <2>1, <2>4, Threads, SMT DEF Quiet
  <2>6. Staffed'
    BY <2>0, <2>1, <2>4, <2>5, SMT DEF Staffed, LoopLabels, Early, Late
  <2>7. Undisturbed'
    BY <2>0, <2>1, <2>2, <2>3, <2>4, Threads, SMT DEF Undisturbed, Ending
  <2> QED
    BY <2>6, <2>7, Zenon DEF SafeInv
<1> QED
  BY <1>1, <1>2, <1>3, <1>4, Zenon DEF Environment

\* The flags by what they belong to, and which actions change them.
CommandFlags ==
  /\ Cmdfd_ \in {"stdin", "fifo", "closed"}
  /\ fifo \in BOOLEAN /\ monitored \in BOOLEAN /\ fifo_edge \in BOOLEAN /\ unheard \in BOOLEAN

SocketFlags ==
  /\ conn \in {"none", "up", "closed"} /\ edge \in BOOLEAN /\ unwritten \in BOOLEAN
  /\ peer \in {"up", "gone"}

FileFlags ==
  jnl_file_ \in BOOLEAN /\ file \in {"none", "open", "closed"} /\ corrupted \in BOOLEAN

ProcessFlags ==
  main \in {"typing", "typed", "join", "hung", "returned"} /\ closed \in BOOLEAN /\ died \in BOOLEAN

LEMMA FlagParts == Flags <=> CommandFlags /\ SocketFlags /\ FileFlags /\ ProcessFlags
BY Zenon DEF Flags, CommandFlags, SocketFlags, FileFlags, ProcessFlags

LEMMA CommandFlagsStep == ASSUME CommandFlags, Next PROVE CommandFlags'
<1>1. CASE TypeQuit
  BY <1>1, Zenon DEF TypeQuit, CommandFlags
<1>2. CASE OpenFifo
  BY <1>2, Zenon DEF OpenFifo, CommandFlags
<1>3. CASE MonitorFifo
  BY <1>3, Zenon DEF MonitorFifo, CommandFlags
<1>4. CASE HandleCommand
  BY <1>4, Zenon DEF HandleCommand, CommandFlags
<1>5. CASE ClearCommandFd
  BY <1>5, Zenon DEF ClearCommandFd, CommandFlags
<1>6. TypeQuit \/ OpenFifo \/ MonitorFifo \/ HandleCommand \/ ClearCommandFd
      \/ UNCHANGED <<commandVars, unheard>>
  BY Zenon DEF Next, Main, Run, Environment, Work, HandleRead, HandleWrite, Disconnect,
     StopThreads, StopThreadsLost, Destroy, BeginRun, RemoteClose, Dispatch, StopPool,
     StopPoolLost, DeleteContexts, CloseTest, CloseFile, SetNull, Clear, Send, Hangup, Connect,
     ConnectFails, Begin, LockRead, ReadMessage, ReadAgain, ReadEnds, ProcessData, SaveJnl,
     LockWrite, Write, WriteFails, WriteBrokenPipe
<1> QED
  BY <1>1, <1>2, <1>3, <1>4, <1>5, <1>6, Zenon DEF CommandFlags, commandVars

LEMMA SocketFlagsStep == ASSUME SocketFlags, Next PROVE SocketFlags'
<1>1. CASE \E kind \in Kind : Send(kind)
  BY <1>1, Zenon DEF Send, SocketFlags
<1>2. CASE Hangup
  BY <1>2, Zenon DEF Hangup, SocketFlags
<1>3. CASE Connect
  BY <1>3, Zenon DEF Connect, SocketFlags, on_connect
<1>4. CASE RemoteClose
  BY <1>4, Zenon DEF RemoteClose, SocketFlags
<1>5. CASE Dispatch
  BY <1>5, Zenon DEF Dispatch, SocketFlags
<1>6. CASE DeleteContexts
  BY <1>6, Zenon DEF DeleteContexts, SocketFlags
<1>7. CASE \E t \in Thread : Clear(t)
  BY <1>7, Zenon DEF Clear, SocketFlags
<1>8. CASE \E w \in Worker : ProcessData(w)
  BY <1>8, Zenon DEF ProcessData, SocketFlags
<1>9. CASE \E w \in Worker : Write(w)
  BY <1>9, Zenon DEF Write, SocketFlags
<1>10. \/ \E kind \in Kind : Send(kind)
       \/ Hangup \/ Connect \/ RemoteClose \/ Dispatch \/ DeleteContexts
       \/ \E t \in Thread : Clear(t)
       \/ \E w \in Worker : ProcessData(w)
       \/ \E w \in Worker : Write(w)
       \/ UNCHANGED <<socketVars, peer>>
  BY Zenon DEF Next, Main, Run, Environment, Work, HandleRead, HandleWrite, Disconnect, Thread,
    TypeQuit, StopThreads, StopThreadsLost, Destroy, ConnectFails, BeginRun, OpenFifo,
    MonitorFifo, HandleCommand, StopPool, StopPoolLost, ClearCommandFd, CloseTest, CloseFile,
    SetNull, Begin, LockRead, ReadMessage, ReadAgain, ReadEnds, SaveJnl,
    LockWrite, WriteFails, WriteBrokenPipe, socketVars
<1> QED
  BY <1>1, <1>2, <1>3, <1>4, <1>5, <1>6, <1>7, <1>8, <1>9, <1>10, Zenon DEF SocketFlags,
    socketVars

LEMMA FileFlagsStep == ASSUME FileFlags, Next PROVE FileFlags'
<1>1. CASE Destroy
  BY <1>1, Zenon DEF Destroy, FileFlags
<1>2. CASE Connect
  BY <1>2, Zenon DEF Connect, FileFlags, on_connect
<1>3. CASE \E t \in Thread : CloseFile(t)
  BY <1>3, Zenon DEF CloseFile, FileFlags
<1>4. CASE \E t \in Thread : SetNull(t)
  BY <1>4, Zenon DEF SetNull, FileFlags
<1>5. CASE \E w \in Worker : SaveJnl(w)
  BY <1>5, Zenon DEF SaveJnl, FileFlags
<1>6. \/ Destroy \/ Connect
      \/ \E t \in Thread : CloseFile(t)
      \/ \E t \in Thread : SetNull(t)
      \/ \E w \in Worker : SaveJnl(w)
      \/ UNCHANGED <<jnl_file_, file, corrupted>>
  BY Zenon DEF Next, Main, Run, Environment, Work, HandleRead, HandleWrite, Disconnect, Thread,
    TypeQuit, StopThreads, StopThreadsLost, Send, Hangup, ConnectFails, BeginRun, OpenFifo,
    MonitorFifo, RemoteClose, Dispatch, HandleCommand, StopPool, StopPoolLost, ClearCommandFd,
    DeleteContexts, CloseTest, Clear, Begin, LockRead, ReadMessage, ReadAgain, ReadEnds,
    ProcessData, LockWrite, Write, WriteFails, WriteBrokenPipe, fileVars
<1> QED
  BY <1>1, <1>2, <1>3, <1>4, <1>5, <1>6, Zenon DEF FileFlags

LEMMA ProcessFlagsStep == ASSUME ProcessFlags, Next PROVE ProcessFlags'
<1>1. CASE TypeQuit
  BY <1>1, Zenon DEF TypeQuit, ProcessFlags, poolVars
<1>2. CASE StopThreads \/ StopThreadsLost
  BY <1>2, Zenon DEF StopThreads, StopThreadsLost, ProcessFlags, poolVars
<1>3. CASE Destroy
  BY <1>3, Zenon DEF Destroy, ProcessFlags, poolVars
<1>4. CASE StopPool
  BY <1>4, Zenon DEF StopPool, ProcessFlags
<1>5. CASE \E w \in Worker : WriteBrokenPipe(w)
  BY <1>5, Zenon DEF WriteBrokenPipe, ProcessFlags, poolVars
<1>6. TypeQuit \/ StopThreads \/ StopThreadsLost \/ Destroy \/ StopPool
      \/ (\E w \in Worker : WriteBrokenPipe(w)) \/ UNCHANGED <<main, closed, died>>
  BY Zenon DEF Next, Main, Run, Environment, Work, HandleRead, HandleWrite, Disconnect, Thread,
    Send, Hangup, Connect, ConnectFails, BeginRun, OpenFifo, MonitorFifo, RemoteClose, Dispatch,
    HandleCommand, StopPoolLost, ClearCommandFd, DeleteContexts, CloseTest, CloseFile, SetNull,
    Clear, Begin,
    LockRead, ReadMessage, ReadAgain, ReadEnds, ProcessData, SaveJnl, LockWrite, Write,
    WriteFails, poolVars
<1> QED
  BY <1>1, <1>2, <1>3, <1>4, <1>5, <1>6, Zenon DEF ProcessFlags

LEMMA FlagsStep == ASSUME Flags, Next PROVE Flags'
BY FlagParts, CommandFlagsStep, SocketFlagsStep, FileFlagsStep, ProcessFlagsStep, Zenon
   DEF Flags, CommandFlags, SocketFlags, FileFlags, ProcessFlags

-----------------------------------------------------------------------------

ClientInv == Places /\ Locks /\ Queues /\ Flags /\ Counts /\ SafeInv

-----------------------------------------------------------------------------
(* The journal *)

Reader == {"reading", "process", "fwrite"}
Saving == {"process", "fwrite"}

\* r_mutex keeps the readers apart.
OneReader == \A w \in Worker : pc[w] \in Reader => r_mutex = w

\* The FILE and the pointer to it: the pointer is set to null after the FILE
\* is closed, and a message is on its way to a FILE only if it is data.
Pointer ==
  /\ file = "open" => jnl_file_
  /\ jnl_file_ => file # "none"
  /\ \A t \in Thread : pc[t] = "null" => file = "closed"
  /\ \A w \in Worker : pc[w] = "fwrite" => file # "none" /\ sent[taken] = "data"
  /\ pc[Loop] \in {"queued", "connect"} => file = "none" /\ journal = << >> /\ taken = 0

LEMMA Alone ==
  ASSUME OneReader, NEW w \in Worker, pc[w] \in Reader
  PROVE  \A v \in Worker \ {w} : pc[v] \notin Reader
BY Zenon DEF OneReader

LEMMA OneReaderStep == ASSUME Places, Locks, Queues, OneReader, Next PROVE OneReader'
<1>1. ASSUME NEW t \in Thread, NEW label, Goto(t, label), UNCHANGED r_mutex,
             t = Loop \/ pc[t] \in Reader \/ label \notin Reader
      PROVE  OneReader'
  <2>1. pc'[t] = label /\ \A u \in Thread \ {t} : pc'[u] = pc[u]
    BY <1>1, Moves, Zenon DEF Places
  <2> QED
    BY <1>1, <2>1, Threads, SMT DEF OneReader
<1>2. CASE UNCHANGED <<pc, r_mutex>>
  BY <1>2, SMT DEF OneReader
<1>3. CASE Main
  BY <1>2, <1>3, SMT DEF Main, StopThreads, StopThreadsLost, Destroy, lockVars
<1>4. CASE Environment
  BY <1>1, <1>2, <1>4, Threads, SMT
     DEF Environment, TypeQuit, Send, Hangup, Connect, ConnectFails, lockVars
<1>5. CASE Run
  BY <1>1, <1>2, <1>5, RunMoves, Threads, Zenon DEF lockVars
<1>6. ASSUME NEW w \in Worker, Work(w) PROVE OneReader'
  <2>0. w \in Thread /\ w # Loop /\ w # Nobody
    BY Threads, ClientAssumption, SMT
  <2>1. ASSUME Leave(w) PROVE OneReader'
    <3>1. /\ pc'[w] = "idle"
          /\ \A u \in Thread \ {w} : pc'[u] = pc[u]
      BY <2>0, <2>1, Moves, Zenon DEF Places, Leave
    <3> QED
      BY <2>0, <2>1, <3>1, Threads, SMT DEF OneReader, Leave, Released, Reader
  <2>2. CASE Begin(w)
    <3>1. Head(Tasks_) \notin Reader
      BY <2>2, SMT DEF Begin, Queues, Reader
    <3> QED
      BY <1>1, <2>0, <2>2, <3>1, SMT DEF Begin, lockVars
  <2>3. CASE LockRead(w)
    <3>1. CASE conn = "up"
      <4>1. /\ pc'[w] = "reading" /\ r_mutex = Nobody /\ r_mutex' = w
            /\ \A u \in Thread \ {w} : pc'[u] = pc[u]
        BY <2>0, <2>3, <3>1, Moves, SMT DEF LockRead, Places
      <4>2. Nobody \notin Worker
        BY ClientAssumption, Zenon
      <4> QED
        BY <2>0, <4>1, <4>2, Threads, SMT DEF OneReader
    <3>2. CASE conn # "up"
      BY <1>1, <2>0, <2>3, <3>2, SMT DEF LockRead, Reader
    <3> QED
      BY <3>1, <3>2, Zenon
  <2>4. CASE ReadMessage(w) \/ ReadEnds(w) \/ ProcessData(w) \/ SaveJnl(w)
    BY <1>1, <2>0, <2>4, SMT DEF ReadMessage, ReadEnds, ProcessData, SaveJnl, Reader, lockVars
  <2>5. CASE ReadAgain(w) \/ Write(w)
    BY <2>1, <2>5, Zenon DEF ReadAgain, Write
  <2>6. CASE LockWrite(w) \/ WriteFails(w)
    BY <1>1, <2>0, <2>6, SMT DEF LockWrite, WriteFails, Reader, lockVars
  <2>7. CASE WriteBrokenPipe(w)
    BY <1>2, <2>7, Zenon DEF WriteBrokenPipe, lockVars
  <2>8. CASE Disconnect(w)
    <3>1. CASE Clear(w)
      BY <2>0, <2>1, <3>1, Zenon DEF Clear
    <3>2. CASE CloseTest(w) \/ CloseFile(w) \/ SetNull(w)
      BY <1>1, <2>0, <3>2, SMT DEF CloseTest, CloseFile, SetNull, Reader, lockVars
    <3> QED
      BY <2>8, <3>1, <3>2, Zenon DEF Disconnect
  <2> QED
    BY <1>6, <2>2, <2>3, <2>4, <2>5, <2>6, <2>7, <2>8, Zenon DEF Work, HandleRead, HandleWrite
<1> QED
  BY <1>3, <1>4, <1>5, <1>6, Zenon DEF Next

\* The messages settled, with a reader between read() and the end of
\* process_data and without.
LEMMA SettledIs ==
  ASSUME Queues, Counts
  PROVE  /\ Settled \in 0 .. taken
         /\ (\E w \in Worker : pc[w] \in Saving) => Settled = taken - 1
         /\ (\A w \in Worker : pc[w] \notin Saving) => Settled = taken
<1>1. taken \in Nat
  BY SMT DEF Queues
<1>2. (\E w \in Worker : pc[w] \in Saving) => taken > 0
  BY Zenon DEF Counts, Saving
<1> QED
  BY <1>1, <1>2, SMT DEF Settled, Saving

\* Sent messages do not change.
LEMMA SameData ==
  ASSUME NEW n \in Nat, \A i \in 1 .. n : sent'[i] = sent[i]
  PROVE  \A m \in 0 .. n : DataAmong(m)' = DataAmong(m)
BY SMT DEF DataAmong

JournalInv == OneReader /\ Pointer /\ JournalInOrder

\* A step that leaves the journal, and what the readers are saving, alone.
LEMMA Kept ==
  ASSUME Queues, Counts, Pointer, JournalInOrder,
         UNCHANGED <<taken, journal, jnl_file_, file, corrupted>>,
         \A i \in 1 .. taken : sent'[i] = sent[i],
         \A t \in Thread :
           \/ pc'[t] = pc[t]
           \/ pc[t] \notin Saving /\ pc'[t] \notin Saving \cup {"null"},
         pc'[Loop] \in {"queued", "connect"} => pc[Loop] \in {"queued", "connect"}
  PROVE  Pointer' /\ JournalInOrder'
<1>1. Settled' = Settled
  BY Threads, SMT DEF Settled, Saving
<1>2. taken \in Nat /\ Settled \in 0 .. taken
  BY SettledIs, SMT DEF Queues
<1>3. \A m \in 0 .. taken : DataAmong(m)' = DataAmong(m)
  BY <1>2, SameData, Zenon
<1>4. JournalInOrder'
  <2>1. \A m \in 0 .. taken : Lists(journal, DataAmong(m))' <=> Lists(journal, DataAmong(m))
    BY <1>3, SMT DEF Lists
  <2>2. 0 .. Settled \subseteq 0 .. taken
    BY <1>2, SMT
  <2> HIDE DEF Settled
  <2> QED
    BY <1>1, <1>2, <2>1, <2>2, SMT DEF JournalInOrder
<1>5. Pointer'
  <2>1. \A w \in Worker : pc'[w] = "fwrite" => pc[w] = "fwrite"
    BY Threads, SMT DEF Saving
  <2>2. \A w \in Worker : pc[w] = "fwrite" => taken \in 1 .. taken
    BY <1>2, SMT DEF Counts
  <2>3. \A w \in Worker : pc'[w] = "fwrite" => file' # "none" /\ sent'[taken'] = "data"
    BY <2>1, <2>2, SMT DEF Pointer
  <2>4. \A t \in Thread : pc'[t] = "null" => file' = "closed"
    BY SMT DEF Pointer
  <2> QED
    BY <2>3, <2>4, SMT DEF Pointer
<1> QED
  BY <1>4, <1>5, Zenon

\* Where a thread goes that is no reader with a message.
LEMMA KeptBy ==
  ASSUME Places, Queues, Counts, Pointer, JournalInOrder,
         UNCHANGED <<taken, journal, jnl_file_, file, corrupted>>,
         \A i \in 1 .. taken : sent'[i] = sent[i],
         NEW t \in Thread, NEW label, Goto(t, label),
         pc[t] \notin Saving, label \notin Saving \cup {"null"},
         label \in {"queued", "connect"} => t = Loop /\ pc[Loop] \in {"queued", "connect"}
  PROVE  Pointer' /\ JournalInOrder'
<1>1. pc'[t] = label /\ \A u \in Thread \ {t} : pc'[u] = pc[u]
  BY Moves, Zenon DEF Places
<1>2. pc'[Loop] \in {"queued", "connect"} => pc[Loop] \in {"queued", "connect"}
  BY <1>1, Threads, SMT
<1> QED
  BY <1>1, <1>2, Kept, SMT

\* on_connect, before which nothing was read, opens the journal or does not.
LEMMA ConnectJournal ==
  ASSUME ClientInv, JournalInv, Connect
  PROVE  Pointer' /\ JournalInOrder'
<1>1. /\ pc[Loop] = "connect" /\ Goto(Loop, "fifo")
      /\ UNCHANGED <<sent, taken, journal, corrupted>>
      /\ (jnl_file_' = TRUE /\ file' = "open") \/ UNCHANGED <<jnl_file_, file>>
  BY SMT DEF Connect, on_connect, streamVars
<1>2. file = "none" /\ journal = << >> /\ taken = 0
  BY <1>1, SMT DEF JournalInv, Pointer
<1>3. \A w \in Worker : pc[w] = "idle"
  BY <1>1, SMT DEF ClientInv, SafeInv, Staffed, Early, Quiet
<1>4. /\ pc'[Loop] = "fifo"
      /\ \A w \in Worker : pc'[w] = "idle"
  BY <1>1, <1>3, Moves, Threads, SMT DEF ClientInv, Places
<1>5. Settled' = 0
  BY <1>1, <1>2, <1>4, SMT DEF Settled
<1>6. Lists(journal, DataAmong(0))'
  BY <1>1, <1>2, SMT DEF Lists, DataAmong
<1>7. JournalInOrder'
  <2> HIDE DEF Settled, Lists, DataAmong
  <2>1. 0 \in 0 .. 0
    BY SMT
  <2> QED
    BY <1>5, <1>6, <2>1, Zenon DEF JournalInOrder
<1>8. Pointer'
  BY <1>1, <1>2, <1>4, SMT DEF Pointer, Thread, JournalInv
<1> QED
  BY <1>7, <1>8, Zenon

\* The FILE is closed, by whoever it is.
LEMMA CloseJournal ==
  ASSUME Queues, Counts, Pointer, JournalInOrder,
         UNCHANGED <<taken, sent, journal>>,
         file' = "closed", corrupted' = (corrupted \/ file = "closed"),
         jnl_file_' = jnl_file_ \/ jnl_file_' = FALSE,
         \A w \in Worker : pc'[w] = pc[w] \/ (pc[w] \notin Saving /\ pc'[w] \notin Saving),
         pc'[Loop] \notin {"queued", "connect"}
  PROVE  Pointer' /\ JournalInOrder'
<1>1. Settled' = Settled
  BY SMT DEF Settled, Saving
<1>2. \A m : DataAmong(m)' = DataAmong(m)
  BY SMT DEF DataAmong
<1>3. \A m : Lists(journal, DataAmong(m))' <=> Lists(journal, DataAmong(m))
  BY <1>2, SMT DEF Lists
<1>4. JournalInOrder'
  <2> HIDE DEF Settled, Lists, DataAmong
  <2> QED
    BY <1>1, <1>3, Zenon DEF JournalInOrder
<1>5. \A w \in Worker : pc'[w] = "fwrite" => pc[w] = "fwrite"
  BY SMT DEF Saving
<1> QED
  BY <1>4, <1>5, SMT DEF Pointer

\* A worker moves, and the FILE and the pointer stay as they are.
LEMMA PointerKept ==
  ASSUME Pointer, UNCHANGED <<jnl_file_, file>>,
         NEW w \in Worker, pc'[w] # "null",
         \A u \in Thread \ {w} : pc'[u] = pc[u],
         pc[Loop] \notin {"queued", "connect"},
         \A v \in Worker : pc'[v] = "fwrite" => file # "none" /\ sent'[taken'] = "data"
  PROVE  Pointer'
<1>1. w \in Thread /\ w # Loop
  BY Threads, Zenon
<1>2. pc'[Loop] = pc[Loop]
  BY <1>1, Threads, Zenon
<1>3. \A t \in Thread : pc'[t] = "null" => file' = "closed"
  BY <1>1, Zenon DEF Pointer
<1>4. (file' = "open" => jnl_file_') /\ (jnl_file_' => file' # "none")
  BY Zenon DEF Pointer
<1>5. \A v \in Worker : pc'[v] = "fwrite" => file' # "none" /\ sent'[taken'] = "data"
  BY Zenon
<1> QED
  BY <1>2, <1>3, <1>4, <1>5, Zenon DEF Pointer

LEMMA SetNullJournal ==
  ASSUME ClientInv, JournalInv, NEW t \in Thread, SetNull(t)
  PROVE  Pointer' /\ JournalInOrder'
<1>1. /\ pc[t] = "null" /\ Goto(t, "clear") /\ jnl_file_' = FALSE
      /\ UNCHANGED <<sent, taken, file, journal, corrupted>>
  BY SMT DEF SetNull, streamVars
<1>2. file = "closed"
  BY <1>1, SMT DEF JournalInv, Pointer
<1>3. pc'[t] = "clear" /\ \A u \in Thread \ {t} : pc'[u] = pc[u]
  BY <1>1, Moves, Zenon DEF ClientInv, Places
<1>4. Settled' = Settled
  BY <1>1, <1>3, Threads, SMT DEF Settled
<1>5. \A m : Lists(journal, DataAmong(m))' <=> Lists(journal, DataAmong(m))
  BY <1>1, SMT DEF Lists, DataAmong
<1>6. JournalInOrder'
  <2> HIDE DEF Settled, Lists, DataAmong
  <2> QED
    BY <1>1, <1>4, <1>5, Zenon DEF JournalInOrder, JournalInv
<1>7. Pointer'
  BY <1>1, <1>2, <1>3, Threads, SMT DEF JournalInv, Pointer
<1> QED
  BY <1>6, <1>7, Zenon

LEMMA DestroyJournal ==
  ASSUME ClientInv, JournalInv, Destroy
  PROVE  Pointer' /\ JournalInOrder'
<1>1. pc' = pc /\ pc[Loop] = "returned" /\ UNCHANGED <<sent, taken, journal>>
  BY Zenon DEF Destroy, streamVars
<1>2. CASE jnl_file_
  <2>1. /\ file' = "closed" /\ corrupted' = (corrupted \/ file = "closed")
        /\ jnl_file_' = FALSE
    BY <1>2, Zenon DEF Destroy
  <2>2. pc'[Loop] \notin {"queued", "connect"} /\ \A v \in Worker : pc'[v] = pc[v]
    BY <1>1, SMT
  <2> QED
    BY <1>1, <2>1, <2>2, CloseJournal, Zenon DEF JournalInv, ClientInv
<1>3. CASE ~jnl_file_
  BY <1>1, <1>3, Kept, SMT DEF Destroy, JournalInv, ClientInv
<1> QED
  BY <1>2, <1>3, Zenon

\* One message is read, and is not settled yet.
LEMMA ReadJournal ==
  ASSUME ClientInv, JournalInv, NEW w \in Worker, ReadMessage(w)
  PROVE  Pointer' /\ JournalInOrder'
<1>1. /\ pc[w] = "reading" /\ Goto(w, "process") /\ taken' = taken + 1
      /\ UNCHANGED <<sent, journal, jnl_file_, file, corrupted>>
  BY SMT DEF ReadMessage, fileVars
<1>2. w \in Thread /\ w # Loop
  BY Threads, Zenon
<1>3. pc'[w] = "process" /\ \A u \in Thread \ {w} : pc'[u] = pc[u]
  BY <1>1, <1>2, Moves, Zenon DEF ClientInv, Places
<1>4. \A v \in Worker : pc[v] \notin Saving
  BY <1>1, Alone, SMT DEF JournalInv, Reader, Saving
<1>5. taken \in Nat /\ Settled = taken
  BY <1>4, SettledIs, SMT DEF ClientInv, Queues
<1>6. Settled' = taken
  BY <1>1, <1>3, <1>5, SMT DEF Settled
<1>7. \A m : Lists(journal, DataAmong(m))' <=> Lists(journal, DataAmong(m))
  BY <1>1, SMT DEF Lists, DataAmong
<1>8. JournalInOrder'
  <2> HIDE DEF Settled, Lists, DataAmong
  <2> QED
    BY <1>1, <1>5, <1>6, <1>7, Zenon DEF JournalInOrder, JournalInv
<1>9. \A v \in Worker : pc'[v] # "fwrite"
  BY <1>3, <1>4, Threads, SMT DEF Saving
<1>10. pc[Loop] \notin {"queued", "connect"}
  BY <1>1, Busy, SMT DEF ClientInv, Early
<1>11. Pointer'
  BY <1>1, <1>3, <1>9, <1>10, PointerKept, SMT DEF JournalInv
<1> QED
  BY <1>8, <1>11, Zenon

\* A message more or less among the settled.
LEMMA OneMore ==
  ASSUME NEW n \in Nat, n > 0
  PROVE  DataAmong(n) = IF sent[n] = "data" THEN DataAmong(n - 1) \cup {n} ELSE DataAmong(n - 1)
<1>1. 1 .. n = (1 .. n - 1) \cup {n}
  BY SMT
<1> QED
  BY <1>1, SMT DEF DataAmong

\* process_data: a reply is settled, data only if there is no FILE to save it to.
LEMMA ProcessJournal ==
  ASSUME ClientInv, JournalInv, NEW w \in Worker, ProcessData(w)
  PROVE  Pointer' /\ JournalInOrder'
<1>1. /\ pc[w] = "process"
      /\ Goto(w, IF sent[taken] = "data" /\ jnl_file_ THEN "fwrite" ELSE "reading")
      /\ UNCHANGED <<sent, taken, journal, jnl_file_, file, corrupted>>
  BY SMT DEF ProcessData, fileVars, streamVars
<1>2. w \in Thread /\ w # Loop
  BY Threads, Zenon
<1>3. \A v \in Worker \ {w} : pc[v] \notin Saving
  BY <1>1, Alone, SMT DEF JournalInv, Reader, Saving
<1>4. taken \in Nat /\ taken > 0 /\ Settled = taken - 1
  BY <1>1, SettledIs, SMT DEF ClientInv, Queues, Counts, Saving
<1>5. \A m : Lists(journal, DataAmong(m))' <=> Lists(journal, DataAmong(m))
  BY <1>1, SMT DEF Lists, DataAmong
<1>8. pc[Loop] \notin {"queued", "connect"}
  BY <1>1, Busy, SMT DEF ClientInv, Early
<1>6. CASE sent[taken] = "data" /\ jnl_file_
  <2>1. pc'[w] = "fwrite" /\ \A u \in Thread \ {w} : pc'[u] = pc[u]
    BY <1>1, <1>2, <1>6, Moves, Zenon DEF ClientInv, Places
  <2>2. Settled' = Settled
    BY <1>1, <1>4, <2>1, SMT DEF Settled
  <2>3. JournalInOrder'
    <3> HIDE DEF Settled, Lists, DataAmong
    <3> QED
      BY <1>1, <1>5, <2>2, Zenon DEF JournalInOrder, JournalInv
  <2>4. Pointer'
    <3>1. \A v \in Worker : pc'[v] = "fwrite" => v = w
      BY <1>3, <2>1, Threads, SMT DEF Saving
    <3>2. file # "none" /\ sent'[taken'] = "data"
      BY <1>1, <1>6, Zenon DEF JournalInv, Pointer
    <3> QED
      BY <1>1, <1>8, <2>1, <3>1, <3>2, PointerKept, SMT DEF JournalInv
  <2> QED
    BY <2>3, <2>4, Zenon
<1>7. CASE ~(sent[taken] = "data" /\ jnl_file_)
  <2>1. pc'[w] = "reading" /\ \A u \in Thread \ {w} : pc'[u] = pc[u]
    BY <1>1, <1>2, <1>7, Moves, Zenon DEF ClientInv, Places
  <2>2. \A v \in Worker : pc'[v] \notin Saving
    BY <1>3, <2>1, Threads, SMT DEF Saving
  <2>3. Settled' = taken
    BY <1>1, <2>2, SMT DEF Settled, Saving
  <2>4. jnl_file_ => DataAmong(taken) = DataAmong(taken - 1)
    BY <1>4, <1>7, OneMore, SMT
  <2>5. 0 .. Settled \subseteq 0 .. taken
    BY <1>4, SMT
  <2>6. JournalInOrder'
    <3> HIDE DEF Settled, Lists, DataAmong
    <3> QED
      BY <1>1, <1>4, <1>5, <2>3, <2>4, <2>5, SMT DEF JournalInOrder, JournalInv
  <2>7. Pointer'
    BY <1>1, <1>8, <2>1, <2>2, PointerKept, SMT DEF JournalInv, Saving
  <2> QED
    BY <2>6, <2>7, Zenon
<1> QED
  BY <1>6, <1>7, Zenon

\* save_jnl: the message comes after all that were saved before.
LEMMA SaveJournal ==
  ASSUME ClientInv, JournalInv, NEW w \in Worker, SaveJnl(w)
  PROVE  Pointer' /\ JournalInOrder'
<1>1. /\ pc[w] = "fwrite" /\ Goto(w, "reading")
      /\ corrupted' = (corrupted \/ file = "closed") /\ journal' = Append(journal, taken)
      /\ UNCHANGED <<sent, taken, jnl_file_, file>>
  BY SMT DEF SaveJnl, streamVars
<1>2. w \in Thread /\ w # Loop
  BY Threads, Zenon
<1>3. \A v \in Worker \ {w} : pc[v] \notin Saving
  BY <1>1, Alone, SMT DEF JournalInv, Reader, Saving
<1>4. taken \in Nat /\ taken > 0 /\ Settled = taken - 1
  BY <1>1, SettledIs, SMT DEF ClientInv, Queues, Counts, Saving
<1>5. pc'[w] = "reading" /\ \A u \in Thread \ {w} : pc'[u] = pc[u]
  BY <1>1, <1>2, Moves, Zenon DEF ClientInv, Places
<1>6. \A v \in Worker : pc'[v] \notin Saving
  BY <1>3, <1>5, Threads, SMT DEF Saving
<1>7. Settled' = taken
  BY <1>1, <1>6, SMT DEF Settled, Saving
<1>8. sent[taken] = "data" /\ (file # "closed" => jnl_file_)
  <2>1. file \in {"none", "open", "closed"}
    BY Zenon DEF ClientInv, Flags
  <2> QED
    BY <1>1, <2>1, SMT DEF JournalInv, Pointer
<1>9. ASSUME ~corrupted' PROVE Lists(journal, DataAmong(taken))'
  <2>1. Lists(journal, DataAmong(taken - 1))
    BY <1>1, <1>4, <1>8, <1>9, Zenon DEF JournalInv, JournalInOrder
  <2>2. DataAmong(taken) = DataAmong(taken - 1) \cup {taken} /\ DataAmong(taken)' = DataAmong(taken)
    BY <1>1, <1>4, <1>8, OneMore, SMT DEF DataAmong
  <2>3. \A x \in DataAmong(taken - 1) : x < taken
    BY <1>4, SMT DEF DataAmong
  <2>4. journal \in Seq(Nat)
    BY ClientAssumption, SMT DEF ClientInv, Queues
  <2>5. /\ DOMAIN journal' = (DOMAIN journal) \cup {Len(journal) + 1}
        /\ Len(journal) \in Nat /\ DOMAIN journal = 1 .. Len(journal)
        /\ journal'[Len(journal) + 1] = taken
        /\ \A i \in DOMAIN journal : journal'[i] = journal[i]
    BY <1>1, <1>4, <2>4, SMT
  <2>6. \A i \in DOMAIN journal : journal[i] < taken /\ i < Len(journal) + 1
    BY <2>1, <2>3, <2>5, SMT DEF Lists
  <2> DEFINE S == DataAmong(taken - 1)
  <2>7. {journal'[i] : i \in DOMAIN journal'} = S \cup {taken}
    <3> HIDE DEF S
    <3>1. {journal[i] : i \in DOMAIN journal} = S
      BY <2>1, Zenon DEF Lists, S
    <3> QED
      BY <2>5, <3>1, SMT
  <2>8. \A i, j \in DOMAIN journal' : i < j => journal'[i] < journal'[j]
    <3>1. \A i, j \in DOMAIN journal : i < j => journal[i] < journal[j]
      BY <2>1, Zenon DEF Lists
    <3> QED
      BY <2>5, <2>6, <3>1, SMT
  <2> QED
    BY <2>2, <2>7, <2>8, Zenon DEF Lists
<1>10. JournalInOrder'
  <2> HIDE DEF Settled, Lists, DataAmong
  <2>1. taken \in 0 .. taken
    BY <1>4, SMT
  <2> QED
    BY <1>1, <1>7, <1>9, <2>1, Zenon DEF JournalInOrder
<1>11. pc[Loop] \notin {"queued", "connect"}
  BY <1>1, Busy, SMT DEF ClientInv, Early
<1>12. Pointer'
  BY <1>1, <1>5, <1>6, <1>11, PointerKept, SMT DEF JournalInv, Saving
<1> QED
  BY <1>10, <1>12, Zenon

LEMMA DisconnectJournal ==
  ASSUME ClientInv, JournalInv, NEW t \in Thread, Disconnect(t)
  PROVE  Pointer' /\ JournalInOrder'
<1>1. CASE CloseTest(t)
  BY <1>1, KeptBy, SMT DEF CloseTest, ClientInv, JournalInv, Saving, streamVars, fileVars
<1>2. CASE CloseFile(t)
  <2>1. /\ pc[t] = "fclose" /\ Goto(t, "null") /\ file' = "closed"
        /\ corrupted' = (corrupted \/ file = "closed")
        /\ UNCHANGED <<sent, taken, journal, jnl_file_>>
    BY <1>2, Zenon DEF CloseFile, streamVars
  <2>2. pc'[t] = "null" /\ \A u \in Thread \ {t} : pc'[u] = pc[u]
    BY <2>1, Moves, Zenon DEF ClientInv, Places
  <2>3. \A w \in Worker : pc'[w] = pc[w] \/ (pc[w] \notin Saving /\ pc'[w] \notin Saving)
    BY <2>1, <2>2, Threads, SMT DEF Saving
  <2>4. pc'[Loop] \notin {"queued", "connect"}
    <3>1. CASE t = Loop
      BY <2>2, <3>1, SMT
    <3>2. CASE t # Loop
      <4>1. pc[Loop] \notin {"queued", "connect"}
        BY <2>1, <3>2, Busy, SMT DEF ClientInv, Early, Thread
      <4> QED
        BY <2>2, <3>2, <4>1, Threads, SMT
    <3> QED
      BY <3>1, <3>2, Zenon
  <2> QED
    BY <2>1, <2>3, <2>4, CloseJournal, Zenon DEF JournalInv, ClientInv
<1>3. CASE Clear(t)
  BY <1>3, KeptBy, SMT DEF Clear, Leave, ClientInv, JournalInv, Saving, streamVars, fileVars
<1> QED
  BY <1>1, <1>2, <1>3, SetNullJournal, Zenon DEF Disconnect

LEMMA JournalStep == ASSUME ClientInv, JournalInv, Next PROVE JournalInv'
<1> SUFFICES Pointer' /\ JournalInOrder'
  BY OneReaderStep, Zenon DEF ClientInv, JournalInv
<1>1. CASE Main
  <2>1. CASE StopThreads \/ StopThreadsLost
    BY <2>1, Kept, SMT DEF StopThreads, StopThreadsLost, ClientInv, JournalInv, streamVars, fileVars
  <2> QED
    BY <1>1, <2>1, DestroyJournal, Zenon DEF Main
<1>2. CASE Environment
  <2>1. CASE TypeQuit \/ Hangup
    BY <2>1, Kept, SMT DEF TypeQuit, Hangup, ClientInv, JournalInv, streamVars, fileVars
  <2>2. ASSUME NEW kind \in Kind, Send(kind) PROVE Pointer' /\ JournalInOrder'
    <3>1. sent' = Append(sent, kind) /\ UNCHANGED <<pc, taken, fileVars>>
      BY <2>2, SMT DEF Send
    <3>2. \A i \in 1 .. taken : sent'[i] = sent[i]
      BY <3>1, SMT DEF ClientInv, Queues
    <3>3. pc' = pc /\ UNCHANGED <<taken, journal, jnl_file_, file, corrupted>>
      BY <3>1, Zenon DEF fileVars
    <3> QED
      BY <3>2, <3>3, Kept, Zenon DEF ClientInv, JournalInv
  <2>3. CASE ConnectFails
    BY <2>3, KeptBy, Threads, SMT
       DEF ConnectFails, ClientInv, JournalInv, Saving, streamVars, fileVars
  <2> QED
    BY <1>2, <2>1, <2>2, <2>3, ConnectJournal, Zenon DEF Environment
<1>3. CASE Run
  <2>1. CASE BeginRun
    BY <2>1, KeptBy, Threads, SMT DEF BeginRun, ClientInv, JournalInv, Saving, streamVars, fileVars
  <2>2. CASE OpenFifo \/ MonitorFifo
    BY <2>2, KeptBy, Threads, SMT
       DEF OpenFifo, MonitorFifo, ClientInv, JournalInv, Saving, streamVars, fileVars
  <2>3. CASE RemoteClose \/ HandleCommand
    BY <2>3, KeptBy, Threads, SMT
       DEF RemoteClose, HandleCommand, Idling, ClientInv, JournalInv, Saving, streamVars, fileVars
  <2>4. CASE StopPool \/ StopPoolLost \/ ClearCommandFd \/ DeleteContexts
    BY <2>4, KeptBy, Threads, SMT
       DEF StopPool, StopPoolLost, ClearCommandFd, DeleteContexts, ClientInv, JournalInv, Saving,
           streamVars, fileVars
  <2>5. CASE Dispatch
    BY <2>5, Kept, SMT DEF Dispatch, Idling, ClientInv, JournalInv, streamVars, fileVars
  <2>6. CASE Disconnect(Loop)
    BY <2>6, DisconnectJournal, Threads, Zenon
  <2> QED
    BY <1>3, <2>1, <2>2, <2>3, <2>4, <2>5, <2>6, Zenon DEF Run
<1>4. ASSUME NEW w \in Worker, Work(w) PROVE Pointer' /\ JournalInOrder'
  <2>0. w \in Thread /\ w # Loop
    BY Threads, Zenon
  <2>1. CASE Begin(w)
    <3>1. Head(Tasks_) \in {"read", "write"}
      BY <2>1, SMT DEF Begin, ClientInv, Queues
    <3> QED
      BY <2>0, <2>1, <3>1, KeptBy, SMT
         DEF Begin, ClientInv, JournalInv, Saving, streamVars, fileVars
  <2>2. CASE LockRead(w) \/ ReadAgain(w) \/ ReadEnds(w)
    BY <2>0, <2>2, KeptBy, SMT
       DEF LockRead, ReadAgain, ReadEnds, Leave, ClientInv, JournalInv, Saving, streamVars, fileVars
  <2>3. CASE LockWrite(w) \/ Write(w) \/ WriteFails(w)
    BY <2>0, <2>3, KeptBy, SMT
       DEF LockWrite, Write, WriteFails, Leave, ClientInv, JournalInv, Saving, streamVars, fileVars
  <2>4. CASE WriteBrokenPipe(w)
    BY <2>4, Kept, SMT DEF WriteBrokenPipe, ClientInv, JournalInv, streamVars, fileVars
  <2>5. CASE Disconnect(w)
    BY <2>0, <2>5, DisconnectJournal, Zenon
  <2> QED
    BY <1>4, <2>1, <2>2, <2>3, <2>4, <2>5, ReadJournal, ProcessJournal, SaveJournal, Zenon
       DEF Work, HandleRead, HandleWrite
<1> QED
  BY <1>1, <1>2, <1>3, <1>4, Zenon DEF Next

-----------------------------------------------------------------------------

LEMMA ClientInit == ASSUME Init PROVE ClientInv
<1>1. DOMAIN pc = Thread /\ pc[Loop] = "queued" /\ \A w \in Worker : pc[w] = "idle"
  BY Threads, SMT DEF Init
<1>2. Places /\ Locks
  BY <1>1, SMT DEF Init, Places, Locks, LoopLabels, WorkerLabels, Early
<1>3. Queues /\ Counts
  BY <1>1, ClientAssumption, SMT DEF Init, Queues, Counts
<1>4. Flags
  BY Zenon DEF Init, Flags
<1>5. SafeInv
  <2>1. Staffed
    BY <1>1, SMT DEF Init, Staffed, Quiet, LoopLabels, Early, Late
  <2>2. \A t \in Thread : pc[t] \notin Ending
    BY <1>1, SMT DEF Thread, Ending
  <2>3. pc[Loop] = "queued" /\ file = "none" /\ ~corrupted
    BY <1>1, Zenon DEF Init
  <2> QED
    BY <2>1, <2>2, <2>3, SMT DEF SafeInv, Undisturbed
<1> QED
  BY <1>2, <1>3, <1>4, <1>5, Zenon DEF ClientInv

LEMMA ClientStep == ASSUME ClientInv, [Next]_vars PROVE ClientInv'
<1>1. CASE Next
  <2>1. SafeInv'
    BY <1>1, RunSafe, MainSafe, WorkSafe, EnvironmentSafe, Zenon DEF ClientInv, Next
  <2> QED
    BY <1>1, <2>1, PlacesStep, LocksStep, QueuesStep, FlagsStep, Zenon DEF ClientInv
<1>2. CASE UNCHANGED vars
  BY <1>2, SMT
     DEF ClientInv, vars, commandVars, socketVars, streamVars, poolVars, lockVars, fileVars,
         Places, Locks, Queues, Flags, Counts, SafeInv, Staffed, Undisturbed, Quiet
<1> QED
  BY <1>1, <1>2, Zenon

LEMMA ClientAlways == Spec => []ClientInv
<1>1. Init => ClientInv
  BY ClientInit
<1>2. ClientInv /\ [Next]_vars => ClientInv'
  BY ClientStep
<1> QED
  BY <1>1, <1>2, PTL DEF Spec

\* TypeOK: the states are well formed, and a mutex of the connection's context
\* is held only by a thread that is in the handler which locked it, so that
\* whoever waits for it waits for a thread at work (epoll_net.cpp:370, 440).
THEOREM ClientTypes == Spec => []TypeOK
<1>1. ClientInv => TypeOK
  BY TypeParts, Zenon DEF ClientInv
<1> QED
  BY <1>1, ClientAlways, PTL

\* FileSafeWhileUp: whatever the user, the workers and Run do, with as many
\* threads and messages as one likes, the journal's FILE is not used after its
\* fclose unless the server has ended the connection (bse_client.cpp:95).
THEOREM ClientFileSafe == Spec => []FileSafeWhileUp
<1>1. ClientInv => FileSafeWhileUp
  BY Zenon DEF ClientInv, SafeInv, Undisturbed, FileSafeWhileUp
<1> QED
  BY <1>1, ClientAlways, PTL

LEMMA JournalAlways == Spec => []JournalInv
<1>1. ASSUME Init PROVE JournalInv
  <2>1. pc[Loop] = "queued" /\ \A w \in Worker : pc[w] = "idle"
    BY <1>1, Threads, SMT DEF Init
  <2>2. OneReader
    BY <2>1, SMT DEF OneReader, Reader
  <2>3. Pointer
    <3>1. file = "none" /\ jnl_file_ = FALSE /\ journal = << >> /\ taken = 0
      BY <1>1, Zenon DEF Init
    <3>2. \A t \in Thread : pc[t] # "null"
      BY <2>1, SMT DEF Thread
    <3> QED
      BY <2>1, <3>1, <3>2, SMT DEF Pointer
  <2>4. Settled = 0
    BY <1>1, <2>1, SMT DEF Init, Settled
  <2>5. Lists(journal, DataAmong(0))
    BY <1>1, SMT DEF Init, Lists, DataAmong
  <2>6. JournalInOrder
    <3> HIDE DEF Settled, Lists, DataAmong
    <3>1. 0 \in 0 .. 0
      BY SMT
    <3> QED
      BY <2>4, <2>5, <3>1, Zenon DEF JournalInOrder
  <2> QED
    BY <2>2, <2>3, <2>6, Zenon DEF JournalInv
<1>2. ASSUME ClientInv, JournalInv, [Next]_vars PROVE JournalInv'
  <2>1. CASE UNCHANGED vars
    <3>1. UNCHANGED <<pc, r_mutex, sent, taken, jnl_file_, file, journal, corrupted>>
      BY <2>1, SMT DEF vars, streamVars, lockVars, fileVars
    <3>2. Pointer' /\ JournalInOrder'
      BY <1>2, <3>1, Kept, SMT DEF ClientInv, JournalInv
    <3>3. OneReader'
      BY <1>2, <3>1, SMT DEF JournalInv, OneReader
    <3> QED
      BY <3>2, <3>3, Zenon DEF JournalInv
  <2> QED
    BY <1>2, <2>1, JournalStep, Zenon
<1>3. Init => JournalInv
  BY <1>1
<1>4. ClientInv /\ JournalInv /\ [Next]_vars => JournalInv'
  BY <1>2
<1> QED
  BY <1>3, <1>4, ClientAlways, PTL DEF Spec

\* JournalInOrder: for any number of threads in handle_read and of messages,
\* the journal is what the server sent that is no reply, in its order and
\* without a gap, up to where the file was closed (bse_client.cpp:160).
THEOREM ClientJournal == Spec => []JournalInOrder
<1>1. JournalInv => JournalInOrder
  BY Zenon DEF JournalInv
<1> QED
  BY <1>1, JournalAlways, PTL
================================================================================
