--------------------------- MODULE ConnectionsProofs ---------------------------
(***************************************************************************)
(* That the table of connections agrees with the kernel, for any numbers   *)
(* of descriptors, threads and connections.                                *)
(*                                                                         *)
(* TableMatchesKernel is not inductive alone.  That create_context finds   *)
(* no old entry in its way needs that each connection is accepted once     *)
(* (AcceptedOnce), and that the number being erased has another owner than *)
(* the entry (Stale), whichever connection the kernel gives it to.         *)
(***************************************************************************)
EXTENDS Connections, TLAPS

\* A connection in the backlog has no descriptor and no entry yet, and an
\* accepted one has one acceptor.
AcceptedOnce ==
  /\ \A f \in Fd : sock[f] \in 0 .. arrived /\ sock[f] \notin backlog
  /\ \A f \in Fd : NetContext_[f] \in 0 .. arrived /\ NetContext_[f] \notin backlog
  /\ \A w \in Worker : pc[w] = "create" => NetContext_[fd[w]] # ctxt[w]
  /\ \A v, w \in Worker : pc[v] = "create" /\ pc[w] = "create" /\ fd[v] = fd[w] => v = w

\* The entry being erased is not that of the number's next owner.
Stale == \A t \in Thread : pc[t] = "erase" => NetContext_[fd[t]] \notin {Free, sock[fd[t]]}

TableInv == TypeOK /\ TableMatchesKernel /\ AcceptedOnce /\ Stale

Labels == {"idle", "accept", "create", "add", "read", "clear", "delevent", "close", "erase"}

\* The part of TypeOK that is about the threads' locals.
Locals ==
  /\ pc \in [Thread -> Labels]
  /\ fd \in [Thread -> Fd \cup {None}]
  /\ ctxt \in [Thread -> Conn \cup {Free}]
  /\ \A t \in Thread : pc[t] \notin {"idle", "accept"} => fd[t] # None /\ ctxt[t] # Free

\* And about the rest.
Tables ==
  /\ sock \in [Fd -> Conn \cup {Free}]
  /\ watched \subseteq Fd /\ ready \subseteq watched
  /\ arrived \in 0 .. MaxConns
  /\ backlog \subseteq 1 .. arrived /\ sent \subseteq 1 .. arrived
  /\ unread \subseteq Open /\ ended \subseteq Open
  /\ NetContext_ \in [Fd -> Conn \cup {Free}]
  /\ ContextMutex_ \in Thread \cup {None}
  /\ accepts \in 0 .. MaxQueued
  /\ reads \in [Fd -> 0 .. MaxQueued]
  /\ incoming \in BOOLEAN /\ wronged \in BOOLEAN /\ mixed \in BOOLEAN
  /\ early \in BOOLEAN /\ exhausted \in BOOLEAN

LEMMA TypeParts == TypeOK <=> Locals /\ Tables
BY Zenon DEF TypeOK, Locals, Tables, Labels

LEMMA GotoLocals ==
  ASSUME Locals, NEW t \in Thread, NEW label \in Labels, Goto(t, label),
         label \in {"idle", "accept"} \/ pc[t] \notin {"idle", "accept"}
  PROVE  Locals'
BY SMT DEF Locals, Goto

LEMMA TakeLocals ==
  ASSUME Locals, NEW t \in Thread, NEW label \in Labels, NEW f \in Fd, NEW c \in Conn,
         Take(t, label, f, c)
  PROVE  Locals'
BY ConnectionAssumption, SMT DEF Locals, Take, Conn, Free

LEMMA TakeNothing ==
  ASSUME Locals, NEW t \in Thread, NEW label \in {"idle", "accept"}, Take(t, label, None, Free)
  PROVE  Locals'
BY SMT DEF Locals, Take, Labels

LEMMA LeaveLocals == ASSUME Locals, NEW t \in Thread, Leave(t) PROVE Locals'
BY TakeNothing, Zenon DEF Leave

-----------------------------------------------------------------------------
(* Types *)

\* Open, spelled out.
LEMMA OpenIs ==
  /\ \A c : c \in Open <=> c # Free /\ (c \in backlog \/ \E f \in Fd : sock[f] = c)
  /\ UNCHANGED <<sock, backlog>> => Open' = Open
<1>1. \A c : c \in Open <=> c # Free /\ (c \in backlog \/ \E f \in Fd : sock[f] = c)
  BY Zenon DEF Open
<1>2. UNCHANGED <<sock, backlog>> => Open' = Open
  BY SMT DEF Open
<1> QED
  BY <1>1, <1>2, Zenon

LEMMA ConnTypes ==
  ASSUME Tables
  PROVE  /\ backlog \subseteq Conn /\ Open \subseteq Conn /\ ended \subseteq Conn
         /\ unread \subseteq Conn
         /\ Loop \in Thread /\ Worker \subseteq Thread
<1>1. backlog \subseteq Conn
  BY ConnectionAssumption, SMT DEF Tables, Conn
<1>2. \A f \in Fd : sock[f] \in Conn \cup {Free}
  BY SMT DEF Tables
<1>3. Open \subseteq Conn
  BY <1>1, <1>2, OpenIs, Zenon
<1> QED
  BY <1>1, <1>3, SMT DEF Tables, Thread

LEMMA LocalsStep ==
  ASSUME Locals, Tables, Next
  PROVE  Locals'
<1>1. CASE UNCHANGED threadVars
  BY <1>1, SMT DEF Locals, threadVars
<1>2. ASSUME NEW f \in Fd, RemoteClose(f) PROVE Locals'
  <2>1. sock[f] \in Conn
    BY <1>2, ConnTypes, SMT DEF RemoteClose
  <2> QED
    BY <1>2, <2>1, ConnTypes, TakeLocals, SMT DEF RemoteClose, Labels
<1>3. ASSUME NEW w \in Worker, HandleAccept(w) PROVE Locals'
  <2>1. w \in Thread
    BY ConnTypes, SMT
  <2>2. ASSUME NEW c \in Conn, NEW f \in Fd, Accept(w, c, f) PROVE Locals'
    BY <2>1, <2>2, TakeLocals, SMT DEF Accept, Labels
  <2>3. CASE BeginAccept(w)
    BY <2>1, <2>3, GotoLocals, SMT DEF BeginAccept, Labels
  <2>4. CASE AcceptFails(w) \/ AcceptAgain(w)
    BY <2>1, <2>4, LeaveLocals, SMT DEF AcceptFails, AcceptAgain
  <2>5. CASE CreateContext(w)
    BY <2>1, <2>5, GotoLocals, SMT DEF CreateContext, Labels
  <2>6. CASE AddEvent(w)
    BY <2>1, <2>6, TakeNothing, SMT DEF AddEvent
  <2> QED
    BY <1>3, <2>2, <2>3, <2>4, <2>5, <2>6, Zenon DEF HandleAccept
<1>4. ASSUME NEW w \in Worker, HandleRead(w) PROVE Locals'
  <2>1. w \in Thread
    BY ConnTypes, SMT
  <2>2. ASSUME NEW f \in Fd, BeginRead(w, f) PROVE Locals'
    <3>1. CASE NetContext_[f] = Free
      BY <2>1, <2>2, <3>1, LeaveLocals, SMT DEF BeginRead
    <3>2. CASE NetContext_[f] # Free
      <4>1. NetContext_[f] \in Conn
        BY <3>2, SMT DEF Tables
      <4> QED
        BY <2>1, <2>2, <3>2, <4>1, TakeLocals, SMT DEF BeginRead, Labels
    <3> QED
      BY <3>1, <3>2, Zenon
  <2>3. CASE ReadBytes(w)
    BY <1>1, <2>3, SMT DEF ReadBytes
  <2>4. CASE ReadAgain(w)
    BY <2>1, <2>4, LeaveLocals, SMT DEF ReadAgain
  <2>5. CASE ReadFails(w)
    BY <2>1, <2>5, GotoLocals, SMT DEF ReadFails, Labels
  <2> QED
    BY <1>4, <2>2, <2>3, <2>4, <2>5, Zenon DEF HandleRead
<1>5. ASSUME NEW t \in Thread, ClearContextEvent(t) PROVE Locals'
  <2>1. CASE Clear(t)
    BY <2>1, LeaveLocals, GotoLocals, SMT DEF Clear, Labels
  <2>2. CASE DeleteEvent(t)
    BY <2>2, GotoLocals, SMT DEF DeleteEvent, Labels
  <2>3. CASE Close(t)
    BY <2>3, GotoLocals, SMT DEF Close, Labels
  <2>4. CASE CloseNothing(t) \/ Erase(t)
    BY <2>4, LeaveLocals, SMT DEF CloseNothing, Erase
  <2> QED
    BY <1>5, <2>1, <2>2, <2>3, <2>4, Zenon DEF ClearContextEvent
<1>6. ASSUME Connect \/ (\E c \in Conn : Send(c) \/ End(c)) \/ DispatchAccept
             \/ \E f \in Fd : DispatchRead(f)
      PROVE  UNCHANGED threadVars
  BY <1>6, SMT DEF Connect, Send, End, DispatchAccept, DispatchRead
<1> QED
  BY <1>1, <1>2, <1>3, <1>4, <1>5, <1>6, Zenon DEF Next, Dispatch

\* What the steps of a thread on its own descriptor need.
LEMMA OwnFd ==
  ASSUME Locals, NEW t \in Thread, pc[t] \notin {"idle", "accept"}
  PROVE  fd[t] \in Fd /\ ctxt[t] \in Conn
BY SMT DEF Locals

LEMMA KernelTablesStep ==
  ASSUME Locals, Tables, AcceptedOnce, Connect \/ (\E c \in Conn : Send(c) \/ End(c)) \/ Dispatch
  PROVE  Tables'
<1>1. CASE Connect
  <2>1. /\ backlog' = backlog \cup {arrived + 1} /\ sock' = sock
        /\ UNCHANGED <<unread, ended>>
    BY <1>1, SMT DEF Connect
  <2>2. Open \subseteq Open'
    BY <2>1, SMT DEF Open
  <2> QED
    BY <1>1, <2>1, <2>2, ConnectionAssumption, SMT
       DEF Connect, Tables, tableVars, taskVars, historyVars
<1>2. ASSUME NEW c \in Conn, Send(c) PROVE Tables'
  <2>1. Open' = Open /\ c \in Open /\ c # Free
    BY <1>2, OpenIs, SMT DEF Send
  <2>3. c \in 1 .. arrived
    <3>1. CASE c \in backlog
      BY <3>1, SMT DEF Tables
    <3>2. ASSUME NEW f \in Fd, sock[f] = c PROVE c \in 1 .. arrived
      BY <2>1, <3>2, SMT DEF AcceptedOnce, Tables, Free
    <3> QED
      BY <2>1, <3>1, <3>2, OpenIs, Zenon
  <2>2. Notify(c) \subseteq watched
    BY SMT DEF Notify
  <2>4. sent' = sent \cup {c} /\ unread' = unread \cup {c} /\ ready' = ready \cup Notify(c)
    BY <1>2, Zenon DEF Send
  <2>5. UNCHANGED <<sock, watched, arrived, backlog, ended, NetContext_, ContextMutex_, accepts,
                    reads, incoming, wronged, mixed, early, exhausted>>
    BY <1>2, Zenon DEF Send, tableVars, taskVars, historyVars
  <2>6. sent' \subseteq 1 .. arrived' /\ backlog' \subseteq 1 .. arrived'
    BY <2>3, <2>4, <2>5, SMT DEF Tables
  <2>7. unread' \subseteq Open' /\ ended' \subseteq Open' /\ ready' \subseteq watched'
    BY <2>1, <2>2, <2>4, <2>5, SMT DEF Tables
  <2> QED
    BY <2>5, <2>6, <2>7, SMT DEF Tables
<1>3. ASSUME NEW c \in Conn, End(c) PROVE Tables'
  <2>1. Open' = Open /\ c \in Open
    BY <1>3, OpenIs, SMT DEF End
  <2>2. Notify(c) \subseteq watched
    BY SMT DEF Notify
  <2> QED
    BY <1>3, <2>1, <2>2, SMT DEF End, Tables, tableVars, taskVars, historyVars
<1>4. CASE DispatchAccept
  <2>1. /\ UNCHANGED <<sock, watched, ready, arrived, sent, backlog, unread, ended,
                      NetContext_, ContextMutex_, reads, wronged, mixed, early, exhausted>>
        /\ incoming' = FALSE
    BY <1>4, Zenon DEF DispatchAccept, tableVars, historyVars
  <2>2. Open' = Open
    BY <2>1, OpenIs, Zenon
  <2>3. accepts' \in 0 .. MaxQueued
    BY <1>4, ConnectionAssumption, SMT DEF DispatchAccept, Tables
  <2>4. incoming' \in BOOLEAN
    BY <2>1, Zenon
  <2> QED
    BY <2>1, <2>2, <2>3, <2>4, Zenon DEF Tables
<1>5. ASSUME NEW f \in Fd, RemoteClose(f) PROVE Tables'
  BY <1>5, OpenIs, SMT DEF RemoteClose, Tables, tableVars, taskVars, historyVars
<1>6. ASSUME NEW f \in Fd, DispatchRead(f) PROVE Tables'
  BY <1>6, ConnectionAssumption, OpenIs, SMT DEF DispatchRead, Tables, tableVars, historyVars
<1> QED
  BY <1>1, <1>2, <1>3, <1>4, <1>5, <1>6, Zenon DEF Dispatch

LEMMA AcceptTablesStep ==
  ASSUME Locals, Tables, NEW w \in Worker, HandleAccept(w)
  PROVE  Tables'
<1>1. CASE BeginAccept(w)
  BY <1>1, ConnectionAssumption, OpenIs, SMT DEF BeginAccept, Tables, kernelVars, tableVars, historyVars
<1>2. ASSUME NEW c \in Conn, NEW f \in Fd, Accept(w, c, f) PROVE Tables'
  <2>1. /\ sock[f] = Free /\ sock' = [sock EXCEPT ![f] = c] /\ c # Free /\ c \in backlog
        /\ backlog' = backlog \ {c}
    BY <1>2, SMT DEF Accept, Conn, Free
  <2>2. Open \subseteq Open'
    <3>1. sock'[f] = c /\ \A g \in Fd \ {f} : sock'[g] = sock[g]
      BY <2>1, SMT DEF Tables
    <3>2. c \in Open'
      BY <2>1, <3>1, SMT DEF Open
    <3>3. ASSUME NEW d \in Open, d # c PROVE d \in Open'
      <4>1. CASE d \in backlog
        BY <2>1, <3>3, <4>1, OpenIs, SMT DEF Open
      <4>2. ASSUME NEW g \in Fd, sock[g] = d PROVE d \in Open'
        <5>1. d # Free
          BY OpenIs, Zenon
        <5>2. sock'[g] = d
          BY <2>1, <3>1, <4>2, <5>1, Zenon
        <5> QED
          BY <5>1, <5>2, SMT DEF Open
      <4> QED
        BY <4>1, <4>2, OpenIs, Zenon
    <3> QED
      BY <3>2, <3>3, Zenon
  <2> QED
    BY <1>2, <2>2, SMT DEF Accept, Tables, tableVars, taskVars, historyVars
<1>3. CASE AcceptFails(w)
  BY <1>3, OpenIs, SMT DEF AcceptFails, Tables, kernelVars, tableVars, taskVars
<1>4. CASE AcceptAgain(w)
  BY <1>4, OpenIs, SMT DEF AcceptAgain, Tables, kernelVars, tableVars, taskVars, historyVars
<1>5. CASE CreateContext(w)
  <2>1. fd[w] \in Fd /\ ctxt[w] \in Conn
    BY <1>5, OwnFd, ConnTypes, OpenIs, SMT DEF CreateContext
  <2> QED
    BY <1>5, <2>1, OpenIs, SMT DEF CreateContext, Tables, kernelVars, taskVars, historyVars
<1>6. CASE AddEvent(w)
  <2>1. fd[w] \in Fd
    BY <1>6, OwnFd, ConnTypes, OpenIs, SMT DEF AddEvent
  <2>2. early' \in BOOLEAN
    BY <1>6, Zenon DEF AddEvent, Tables
  <2> QED
    BY <1>6, <2>1, <2>2, OpenIs, SMT DEF AddEvent, Tables, tableVars, taskVars
<1> QED
  BY <1>1, <1>2, <1>3, <1>4, <1>5, <1>6, Zenon DEF HandleAccept

LEMMA ReadTablesStep ==
  ASSUME Locals, Tables, NEW w \in Worker, HandleRead(w)
  PROVE  Tables'
<1>1. ASSUME NEW f \in Fd, BeginRead(w, f) PROVE Tables'
  BY <1>1, ConnectionAssumption, OpenIs, SMT DEF BeginRead, Tables, kernelVars, tableVars, historyVars
<1>2. CASE ReadBytes(w)
  <2>1. mixed' \in BOOLEAN
    BY <1>2, Zenon DEF ReadBytes, Tables
  <2> QED
    BY <1>2, <2>1, OpenIs, SMT DEF ReadBytes, Tables, tableVars, taskVars
<1>3. CASE UNCHANGED <<kernelVars, tableVars, taskVars, historyVars>>
  <2>1. Open' = Open
    BY <1>3, OpenIs, SMT DEF kernelVars
  <2> QED
    BY <1>3, <2>1, SMT DEF Tables, kernelVars, tableVars, taskVars, historyVars
<1>4. CASE ReadAgain(w) \/ ReadFails(w)
  BY <1>3, <1>4, Zenon DEF ReadAgain, ReadFails
<1> QED
  BY <1>1, <1>2, <1>4, Zenon DEF HandleRead

LEMMA ClearTablesStep ==
  ASSUME Locals, Tables, NEW t \in Thread, ClearContextEvent(t)
  PROVE  Tables'
<1>1. CASE Clear(t) \/ CloseNothing(t)
  <2>1. UNCHANGED <<kernelVars, tableVars, taskVars, historyVars>>
    BY <1>1, Zenon DEF Clear, CloseNothing
  <2>2. Open' = Open
    BY <2>1, OpenIs, SMT DEF kernelVars
  <2> QED
    BY <2>1, <2>2, SMT DEF Tables, kernelVars, tableVars, taskVars, historyVars
<1>2. CASE DeleteEvent(t)
  BY <1>2, OpenIs, SMT DEF DeleteEvent, Tables, tableVars, taskVars, historyVars
<1>3. CASE Close(t)
  <2>1. fd[t] \in Fd
    BY <1>3, OwnFd, OpenIs, SMT DEF Close
  <2>2. wronged' \in BOOLEAN
    BY <1>3, Zenon DEF Close, CloseBy, Tables
  <2>3. unread' \subseteq Open' /\ ended' \subseteq Open'
    <3>1. /\ sock' = [sock EXCEPT ![fd[t]] = Free] /\ backlog' = backlog
          /\ unread' = unread \ {sock[fd[t]]} /\ ended' = ended \ {sock[fd[t]]}
      BY <1>3, SMT DEF Close, CloseBy
    <3>2. ASSUME NEW c \in Open, c # sock[fd[t]]
          PROVE  c \in Open'
      <4>1. CASE c \in backlog
        BY <3>1, <4>1, OpenIs, SMT DEF Open
      <4>2. ASSUME NEW f \in Fd, sock[f] = c
            PROVE  c \in Open'
        <5>1. sock'[f] = c
          BY <3>1, <3>2, <4>2, SMT DEF Tables
        <5>2. c # Free
          BY OpenIs, Zenon
        <5> QED
          BY <5>1, <5>2, SMT DEF Open
      <4> QED
        BY <4>1, <4>2, OpenIs, Zenon
    <3> QED
      BY <3>1, <3>2, SMT DEF Tables
  <2> QED
    BY <1>3, <2>1, <2>2, <2>3, OpenIs, SMT DEF Close, CloseBy, Tables, Free, taskVars
<1>4. CASE Erase(t)
  <2>1. fd[t] \in Fd
    BY <1>4, OwnFd, OpenIs, SMT DEF Erase
  <2> QED
    BY <1>4, <2>1, OpenIs, SMT DEF Erase, Tables, Free, kernelVars, taskVars, historyVars
<1> QED
  BY <1>1, <1>2, <1>3, <1>4, Zenon DEF ClearContextEvent

LEMMA TypeStep == TypeOK /\ AcceptedOnce /\ Next => TypeOK'
<1>1. ASSUME Locals, Tables, AcceptedOnce, Next PROVE Locals' /\ Tables'
  BY <1>1, LocalsStep, KernelTablesStep, AcceptTablesStep, ReadTablesStep, ClearTablesStep, Zenon
     DEF Next
<1>2. (Locals /\ Tables)' <=> TypeOK'
  BY TypeParts, PTL
<1> QED
  BY <1>1, <1>2, TypeParts, Zenon

-----------------------------------------------------------------------------
(* The table and the kernel *)

\* The parts of TableMatchesKernel, one descriptor or thread at a time.
EntryIsOwners(f) == NetContext_[f] # Free /\ Erasing(f) = {} => sock[f] = NetContext_[f]
OwnerHasEntry(f) ==
  sock[f] # Free /\ NetContext_[f] # sock[f] => \E w \in Creating(f) : ctxt[w] = sock[f]
CreatesForOwner(w) == pc[w] = "create" => sock[fd[w]] = ctxt[w]
ErasesUnderMutex(t) == pc[t] = "erase" <=> ContextMutex_ = t

Matches ==
  /\ \A f \in Fd : EntryIsOwners(f) /\ OwnerHasEntry(f)
  /\ \A w \in Worker : CreatesForOwner(w)
  /\ \A t \in Thread : ErasesUnderMutex(t)
  /\ AcceptedOnce /\ Stale

LEMMA MatchParts == TableMatchesKernel /\ AcceptedOnce /\ Stale <=> Matches
BY Zenon DEF TableMatchesKernel, Matches, EntryIsOwners, OwnerHasEntry, CreatesForOwner,
             ErasesUnderMutex

\* A step that leaves the table, the mutex, the descriptors and the backlog,
\* and takes no thread to or from creating and erasing.
Aside ==
  /\ UNCHANGED <<sock, backlog, arrived, NetContext_, ContextMutex_>>
  /\ \A t \in Thread : pc[t] = "create" <=> pc'[t] = "create"
  /\ \A t \in Thread : pc[t] = "erase" <=> pc'[t] = "erase"
  /\ \A t \in Thread : pc[t] \in {"create", "erase"} => fd'[t] = fd[t] /\ ctxt'[t] = ctxt[t]

LEMMA WorkersAreThreads == Worker \subseteq Thread /\ Loop \in Thread
BY SMT DEF Thread

LEMMA AsideStep == ASSUME TypeOK, Matches, Aside PROVE Matches'
<1>1. \A f \in Fd : Creating(f)' = Creating(f) /\ Erasing(f)' = Erasing(f)
  BY WorkersAreThreads, SMT DEF Aside, Creating, Erasing
<1>2. \A f \in Fd : (EntryIsOwners(f) /\ OwnerHasEntry(f))'
  BY <1>1, WorkersAreThreads, SMT DEF Aside, Matches, EntryIsOwners, OwnerHasEntry, Creating
<1>3. \A w \in Worker : CreatesForOwner(w)'
  BY WorkersAreThreads, SMT DEF Aside, Matches, CreatesForOwner
<1>4. \A t \in Thread : ErasesUnderMutex(t)'
  BY SMT DEF Aside, Matches, ErasesUnderMutex
<1>5. AcceptedOnce'
  BY WorkersAreThreads, SMT DEF Aside, Matches, AcceptedOnce
<1>6. Stale'
  BY SMT DEF Aside, Matches, Stale
<1> QED
  BY <1>2, <1>3, <1>4, <1>5, <1>6, Zenon DEF Matches

\* Most steps are of that kind.
LEMMA Asides ==
  ASSUME TypeOK,
         \/ \E c \in Conn : Send(c) \/ End(c)
         \/ Dispatch
         \/ \E w \in Worker : \/ BeginAccept(w) \/ AcceptFails(w) \/ AcceptAgain(w)
                               \/ AddEvent(w) \/ HandleRead(w)
         \/ \E t \in Thread : Clear(t) \/ DeleteEvent(t) \/ CloseNothing(t)
         \/ UNCHANGED vars
  PROVE  Aside
<1>1. pc \in [Thread -> Labels] /\ fd \in [Thread -> Fd \cup {None}]
      /\ ctxt \in [Thread -> Conn \cup {Free}]
  BY SMT DEF TypeOK, Labels
<1>2. ASSUME NEW t \in Thread, pc[t] \notin {"create", "erase"},
             pc'[t] \notin {"create", "erase"},
             \A u \in Thread \ {t} : pc'[u] = pc[u] /\ fd'[u] = fd[u] /\ ctxt'[u] = ctxt[u],
             UNCHANGED <<sock, backlog, arrived, NetContext_, ContextMutex_>>
      PROVE  Aside
  BY <1>2, SMT DEF Aside
<1>3. CASE UNCHANGED <<sock, backlog, arrived, NetContext_, ContextMutex_, threadVars>>
  BY <1>3, SMT DEF Aside, threadVars
<1>4. CASE (\E c \in Conn : Send(c) \/ End(c)) \/ DispatchAccept
           \/ (\E f \in Fd : DispatchRead(f)) \/ UNCHANGED vars
  BY <1>3, <1>4, SMT DEF Send, End, DispatchAccept, DispatchRead, vars, kernelVars, tableVars
<1>5. ASSUME NEW f \in Fd, RemoteClose(f) PROVE Aside
  BY <1>1, <1>2, <1>5, WorkersAreThreads, SMT DEF RemoteClose, Take, tableVars
<1>6. ASSUME NEW w \in Worker, BeginAccept(w) \/ AcceptFails(w) \/ AcceptAgain(w)
      PROVE  Aside
  BY <1>1, <1>2, <1>6, WorkersAreThreads, SMT
     DEF BeginAccept, AcceptFails, AcceptAgain, Leave, Take, Goto, kernelVars, tableVars
<1>7. ASSUME NEW w \in Worker, AddEvent(w) PROVE Aside
  BY <1>1, <1>2, <1>7, WorkersAreThreads, SMT DEF AddEvent, Take, tableVars
<1>8. ASSUME NEW w \in Worker, HandleRead(w) PROVE Aside
  <2>1. CASE ReadBytes(w)
    BY <1>3, <2>1, SMT DEF ReadBytes, tableVars
  <2>2. ASSUME NEW f \in Fd, BeginRead(w, f) PROVE Aside
    BY <1>1, <1>2, <2>2, WorkersAreThreads, SMT DEF BeginRead, Leave, Take, kernelVars, tableVars
  <2>3. CASE ReadAgain(w) \/ ReadFails(w)
    BY <1>1, <1>2, <2>3, WorkersAreThreads, SMT
       DEF ReadAgain, ReadFails, Leave, Take, Goto, kernelVars, tableVars
  <2> QED
    BY <1>8, <2>1, <2>2, <2>3, Zenon DEF HandleRead
<1>9. ASSUME NEW t \in Thread, Clear(t) \/ DeleteEvent(t) \/ CloseNothing(t) PROVE Aside
  BY <1>1, <1>2, <1>9, SMT
     DEF Clear, DeleteEvent, CloseNothing, Leave, Take, Goto, kernelVars, tableVars
<1> QED
  BY <1>4, <1>5, <1>6, <1>7, <1>8, <1>9, Zenon DEF Dispatch

\* A new connection waits; it is nobody's yet.
LEMMA ConnectMatches == ASSUME TypeOK, Matches, Connect PROVE Matches'
<1>1. /\ UNCHANGED <<sock, NetContext_, ContextMutex_, pc, fd, ctxt>>
      /\ backlog' = backlog \cup {arrived + 1} /\ arrived' = arrived + 1 /\ arrived \in Nat
  BY SMT DEF Connect, tableVars, threadVars, TypeOK
<1>2. \A f \in Fd : Creating(f)' = Creating(f) /\ Erasing(f)' = Erasing(f)
  BY <1>1, SMT DEF Creating, Erasing
<1>3. \A f \in Fd : (EntryIsOwners(f) /\ OwnerHasEntry(f))'
  BY <1>1, <1>2, SMT DEF Matches, EntryIsOwners, OwnerHasEntry
<1>4. AcceptedOnce'
  BY <1>1, SMT DEF Matches, AcceptedOnce
<1>5. /\ \A w \in Worker : CreatesForOwner(w)'
      /\ \A t \in Thread : ErasesUnderMutex(t)'
      /\ Stale'
  BY <1>1, SMT DEF Matches, CreatesForOwner, ErasesUnderMutex, Stale
<1> QED
  BY <1>3, <1>4, <1>5, Zenon DEF Matches

\* The number given out has no owner and no acceptor; its entry, if it is still
\* there, is being erased and is another connection's.
LEMMA AcceptMatches ==
  ASSUME TypeOK, Matches, NEW w \in Worker, NEW c \in Conn, NEW f \in Fd, Accept(w, c, f)
  PROVE  Matches'
<1>1. /\ UNCHANGED <<NetContext_, ContextMutex_, arrived>>
      /\ c \in backlog /\ c # Free /\ sock[f] = Free /\ pc[w] = "accept"
      /\ backlog' = backlog \ {c} /\ backlog \subseteq 1 .. arrived /\ arrived \in Nat
  BY SMT DEF Accept, tableVars, TypeOK, Conn, Free
<1>2. /\ w \in Thread
      /\ sock'[f] = c /\ \A g \in Fd \ {f} : sock'[g] = sock[g]
      /\ pc'[w] = "create" /\ fd'[w] = f /\ ctxt'[w] = c
      /\ \A t \in Thread \ {w} : pc'[t] = pc[t] /\ fd'[t] = fd[t] /\ ctxt'[t] = ctxt[t]
  BY WorkersAreThreads, SMT DEF Accept, Take, TypeOK
<1>3. \A v \in Worker : pc[v] = "create" => fd[v] # f
  BY <1>1, WorkersAreThreads, SMT DEF Matches, CreatesForOwner, TypeOK
<1>4. \A g \in Fd : sock[g] # c /\ NetContext_[g] # c
  BY <1>1, SMT DEF Matches, AcceptedOnce
<1>5. \A g \in Fd : Erasing(g)' = Erasing(g)
  BY <1>1, <1>2, SMT DEF Erasing
<1>6. \A g \in Fd : EntryIsOwners(g)'
  BY <1>1, <1>2, <1>5, SMT DEF Matches, EntryIsOwners
<1>7. \A g \in Fd : OwnerHasEntry(g)'
  <2>1. w \in Creating(f)'
    BY <1>2, Zenon DEF Creating
  <2>2. OwnerHasEntry(f)'
    BY <1>2, <2>1, Zenon DEF OwnerHasEntry
  <2>3. ASSUME NEW g \in Fd, g # f PROVE OwnerHasEntry(g)'
    <3>1. ASSUME NEW v \in Creating(g) PROVE v \in Creating(g)' /\ ctxt'[v] = ctxt[v]
      BY <1>1, <1>2, <3>1, WorkersAreThreads, SMT DEF Creating
    <3> QED
      BY <1>1, <1>2, <2>3, <3>1, SMT DEF Matches, OwnerHasEntry
  <2> QED
    BY <2>2, <2>3, Zenon
<1>8. \A v \in Worker : CreatesForOwner(v)'
  BY <1>2, <1>3, WorkersAreThreads, SMT DEF Matches, CreatesForOwner, TypeOK
<1>9. \A t \in Thread : ErasesUnderMutex(t)'
  BY <1>1, <1>2, SMT DEF Matches, ErasesUnderMutex
<1>10. AcceptedOnce'
  <2>1. \A g \in Fd : sock'[g] \in 0 .. arrived' /\ sock'[g] \notin backlog'
    BY <1>1, <1>2, SMT DEF Matches, AcceptedOnce
  <2>2. \A g \in Fd : NetContext_'[g] \in 0 .. arrived' /\ NetContext_'[g] \notin backlog'
    BY <1>1, SMT DEF Matches, AcceptedOnce
  <2>3. \A v \in Worker : pc'[v] = "create" => NetContext_'[fd'[v]] # ctxt'[v]
    BY <1>1, <1>2, <1>4, WorkersAreThreads, SMT DEF Matches, AcceptedOnce
  <2>4. \A u, v \in Worker : pc'[u] = "create" /\ pc'[v] = "create" /\ fd'[u] = fd'[v] => u = v
    BY <1>2, <1>3, WorkersAreThreads, SMT DEF Matches, AcceptedOnce
  <2> QED
    BY <2>1, <2>2, <2>3, <2>4, Zenon DEF AcceptedOnce
<1>11. Stale'
  BY <1>1, <1>2, <1>4, SMT DEF Matches, Stale, TypeOK
<1> QED
  BY <1>6, <1>7, <1>8, <1>9, <1>10, <1>11, Zenon DEF Matches

\* Nobody is erasing: the mutex is free.  So an entry that is there is the
\* owner's, and the owner's acceptor would not be about to make it.
LEMMA CreateMatches ==
  ASSUME TypeOK, Matches, NEW w \in Worker, CreateContext(w)
  PROVE  Matches'
<1>0. PICK f \in Fd, c \in Conn : f = fd[w] /\ c = ctxt[w]
  BY WorkersAreThreads, SMT DEF CreateContext, TypeOK
<1>1. /\ UNCHANGED <<sock, backlog, arrived, ContextMutex_>>
      /\ pc[w] = "create" /\ ContextMutex_ = None /\ w \in Thread
      /\ f \in Fd /\ f = fd[w] /\ c \in Conn /\ c = ctxt[w] /\ c # Free
  BY <1>0, WorkersAreThreads, SMT DEF CreateContext, kernelVars, TypeOK, Conn, Free
<1>2. \A t \in Thread : pc[t] # "erase"
  BY <1>1, ConnectionAssumption, SMT DEF Matches, ErasesUnderMutex, Thread
<1>3. sock[f] = c /\ NetContext_[f] # c
  BY <1>1, SMT DEF Matches, CreatesForOwner, AcceptedOnce
<1>4. NetContext_[f] = Free
  <2>1. Erasing(f) = {}
    BY <1>2, SMT DEF Erasing
  <2>2. EntryIsOwners(f)
    BY <1>1, Zenon DEF Matches
  <2> QED
    BY <1>3, <2>1, <2>2, Zenon DEF EntryIsOwners
<1>5. NetContext_'[f] = c /\ \A g \in Fd \ {f} : NetContext_'[g] = NetContext_[g]
  BY <1>1, <1>4, SMT DEF CreateContext, TypeOK
<1>6. /\ pc'[w] = "add" /\ fd' = fd /\ ctxt' = ctxt
      /\ \A t \in Thread \ {w} : pc'[t] = pc[t]
  BY <1>1, SMT DEF CreateContext, Goto, TypeOK
<1>7. \A g \in Fd : EntryIsOwners(g)'
  <2>1. \A g \in Fd : Erasing(g) = {}
    BY <1>2, SMT DEF Erasing
  <2> QED
    BY <1>1, <1>3, <1>5, <2>1, SMT DEF Matches, EntryIsOwners
<1>8. \A g \in Fd : OwnerHasEntry(g)'
  <2>1. OwnerHasEntry(f)'
    BY <1>1, <1>3, <1>5, SMT DEF OwnerHasEntry
  <2>2. ASSUME NEW g \in Fd, g # f PROVE OwnerHasEntry(g)'
    <3>1. Creating(g)' = Creating(g)
      BY <1>1, <1>6, <2>2, WorkersAreThreads, SMT DEF Creating
    <3> QED
      BY <1>1, <1>5, <1>6, <2>2, <3>1, SMT DEF Matches, OwnerHasEntry
  <2> QED
    BY <2>1, <2>2, Zenon
<1>9. \A v \in Worker : CreatesForOwner(v)'
  BY <1>1, <1>6, WorkersAreThreads, SMT DEF Matches, CreatesForOwner
<1>10. \A t \in Thread : ErasesUnderMutex(t)'
  BY <1>1, <1>2, <1>6, SMT DEF Matches, ErasesUnderMutex
<1>11. AcceptedOnce'
  <2>1. \A g \in Fd : sock'[g] \in 0 .. arrived' /\ sock'[g] \notin backlog'
    BY <1>1, SMT DEF Matches, AcceptedOnce
  <2>2. \A g \in Fd : NetContext_'[g] \in 0 .. arrived' /\ NetContext_'[g] \notin backlog'
    <3>1. NetContext_'[f] = sock[f]
      BY <1>3, <1>5, Zenon
    <3> QED
      BY <1>1, <1>5, <3>1, SMT DEF Matches, AcceptedOnce
  <2>3. ASSUME NEW v \in Worker, pc'[v] = "create" PROVE NetContext_'[fd'[v]] # ctxt'[v]
    <3>1. v # w /\ pc[v] = "create"
      BY <1>6, <2>3, WorkersAreThreads, SMT
    <3>2. fd[v] # f /\ fd[v] \in Fd
      BY <1>1, <3>1, WorkersAreThreads, SMT DEF Matches, AcceptedOnce, TypeOK
    <3> QED
      BY <1>5, <1>6, <3>1, <3>2, SMT DEF Matches, AcceptedOnce
  <2>4. \A u, v \in Worker : pc'[u] = "create" /\ pc'[v] = "create" /\ fd'[u] = fd'[v] => u = v
    BY <1>6, WorkersAreThreads, SMT DEF Matches, AcceptedOnce
  <2> QED
    BY <2>1, <2>2, <2>3, <2>4, Zenon DEF AcceptedOnce
<1>12. Stale'
  BY <1>2, <1>6, SMT DEF Stale
<1> QED
  BY <1>7, <1>8, <1>9, <1>10, <1>11, <1>12, Zenon DEF Matches

\* The entry is the owner's: it has no acceptor, and now no owner.
LEMMA CloseMatches ==
  ASSUME TypeOK, Matches, NEW t \in Thread, Close(t)
  PROVE  Matches'
<1>0. PICK f \in Fd : f = fd[t]
  BY SMT DEF Close, TypeOK
<1>1. /\ UNCHANGED <<NetContext_, backlog, arrived>>
      /\ pc[t] = "close" /\ ContextMutex_ = None /\ ContextMutex_' = t
      /\ f \in Fd /\ f = fd[t] /\ NetContext_[f] # Free
  BY <1>0, SMT DEF Close, CloseBy, TypeOK
<1>2. \A u \in Thread : pc[u] # "erase"
  BY <1>1, ConnectionAssumption, SMT DEF Matches, ErasesUnderMutex, Thread
<1>3. sock'[f] = Free /\ \A g \in Fd \ {f} : sock'[g] = sock[g]
  BY <1>1, SMT DEF Close, CloseBy, TypeOK
<1>4. /\ pc'[t] = "erase" /\ fd' = fd /\ ctxt' = ctxt
      /\ \A u \in Thread \ {t} : pc'[u] = pc[u]
  BY <1>1, SMT DEF Close, Goto, TypeOK
<1>5. sock[f] = NetContext_[f]
  <2>1. Erasing(f) = {}
    BY <1>2, SMT DEF Erasing
  <2>2. EntryIsOwners(f)
    BY <1>1, Zenon DEF Matches
  <2> QED
    BY <1>1, <2>1, <2>2, Zenon DEF EntryIsOwners
<1>6. \A w \in Worker : pc[w] = "create" => fd[w] # f
  BY <1>5, SMT DEF Matches, CreatesForOwner, AcceptedOnce
<1>7. \A g \in Fd : EntryIsOwners(g)'
  <2>1. t \in Erasing(f)'
    BY <1>1, <1>4, SMT DEF Erasing
  <2>2. EntryIsOwners(f)'
    BY <2>1, Zenon DEF EntryIsOwners
  <2>3. ASSUME NEW g \in Fd, g # f PROVE EntryIsOwners(g)'
    <3>1. Erasing(g) = {}
      BY <1>2, SMT DEF Erasing
    <3> QED
      BY <1>1, <1>3, <2>3, <3>1, SMT DEF Matches, EntryIsOwners
  <2> QED
    BY <2>2, <2>3, Zenon
<1>8. \A g \in Fd : OwnerHasEntry(g)'
  <2>1. \A g \in Fd : Creating(g)' = Creating(g)
    BY <1>1, <1>4, WorkersAreThreads, SMT DEF Creating
  <2> QED
    BY <1>1, <1>3, <1>4, <2>1, SMT DEF Matches, OwnerHasEntry
<1>9. \A w \in Worker : CreatesForOwner(w)'
  BY <1>1, <1>3, <1>4, <1>6, WorkersAreThreads, SMT DEF Matches, CreatesForOwner, TypeOK
<1>10. \A u \in Thread : ErasesUnderMutex(u)'
  BY <1>1, <1>2, <1>4, SMT DEF ErasesUnderMutex
<1>11. AcceptedOnce'
  <2>1. \A g \in Fd : sock'[g] \in 0 .. arrived' /\ sock'[g] \notin backlog'
    <3>1. Free \in 0 .. arrived /\ Free \notin backlog
      BY SMT DEF TypeOK, Free
    <3> QED
      BY <1>1, <1>3, <3>1, SMT DEF Matches, AcceptedOnce
  <2>2. \A w \in Worker : pc'[w] = "create" <=> pc[w] = "create"
    BY <1>1, <1>4, WorkersAreThreads, SMT
  <2> QED
    BY <1>1, <1>4, <2>1, <2>2, SMT DEF Matches, AcceptedOnce
<1>12. Stale'
  BY <1>1, <1>2, <1>3, <1>4, SMT DEF Stale
<1> QED
  BY <1>7, <1>8, <1>9, <1>10, <1>11, <1>12, Zenon DEF Matches

\* The entry was not the owner's, so the owner, if there is one, has its
\* acceptor.
LEMMA EraseMatches ==
  ASSUME TypeOK, Matches, NEW t \in Thread, Erase(t)
  PROVE  Matches'
<1>0. PICK f \in Fd : f = fd[t]
  BY SMT DEF Erase, TypeOK
<1>1. /\ UNCHANGED <<sock, backlog, arrived>>
      /\ pc[t] = "erase" /\ ContextMutex_ = t /\ ContextMutex_' = None
      /\ f \in Fd /\ f = fd[t] /\ NetContext_[f] \notin {Free, sock[f]}
  BY <1>0, SMT DEF Erase, kernelVars, TypeOK, Matches, ErasesUnderMutex, Stale
<1>2. \A u \in Thread \ {t} : pc[u] # "erase"
  BY <1>1, SMT DEF Matches, ErasesUnderMutex
<1>3. NetContext_'[f] = Free /\ \A g \in Fd \ {f} : NetContext_'[g] = NetContext_[g]
  BY <1>1, SMT DEF Erase, TypeOK
<1>4. /\ pc'[t] = "idle"
      /\ \A u \in Thread \ {t} : pc'[u] = pc[u] /\ fd'[u] = fd[u] /\ ctxt'[u] = ctxt[u]
  BY SMT DEF Erase, Leave, Take, TypeOK
<1>5. \A g \in Fd : EntryIsOwners(g)'
  <2>1. ASSUME NEW g \in Fd, g # f PROVE EntryIsOwners(g)'
    <3>1. Erasing(g) = {}
      BY <1>1, <1>2, <2>1, SMT DEF Erasing
    <3> QED
      BY <1>1, <1>3, <2>1, <3>1, SMT DEF Matches, EntryIsOwners
  <2> QED
    BY <1>3, <2>1, Zenon DEF EntryIsOwners
<1>6. \A g \in Fd : OwnerHasEntry(g)'
  <2>1. \A g \in Fd : \A w \in Creating(g) : w \in Creating(g)' /\ ctxt'[w] = ctxt[w]
    BY <1>1, <1>4, WorkersAreThreads, SMT DEF Creating
  <2> QED
    BY <1>1, <1>3, <2>1, SMT DEF Matches, OwnerHasEntry
<1>7. \A w \in Worker : CreatesForOwner(w)'
  BY <1>1, <1>4, WorkersAreThreads, SMT DEF Matches, CreatesForOwner
<1>8. \A u \in Thread : ErasesUnderMutex(u)'
  BY <1>1, <1>2, <1>4, ConnectionAssumption, SMT DEF ErasesUnderMutex, Thread
<1>9. AcceptedOnce'
  <2>1. Free \in 0 .. arrived /\ Free \notin backlog
    BY SMT DEF TypeOK, Free
  <2>2. \A w \in Worker : pc'[w] = "create" =>
          w # t /\ pc[w] = "create" /\ fd'[w] = fd[w] /\ ctxt'[w] = ctxt[w]
                /\ fd[w] \in Fd /\ ctxt[w] # Free
    BY <1>4, WorkersAreThreads, SMT DEF TypeOK
  <2>3. \A g \in Fd : NetContext_'[g] \in 0 .. arrived' /\ NetContext_'[g] \notin backlog'
    BY <1>1, <1>3, <2>1, SMT DEF Matches, AcceptedOnce
  <2>4. \A w \in Worker : pc'[w] = "create" => NetContext_'[fd'[w]] # ctxt'[w]
    BY <1>3, <2>2, SMT DEF Matches, AcceptedOnce
  <2> QED
    BY <1>1, <2>2, <2>3, <2>4, SMT DEF Matches, AcceptedOnce
<1>10. Stale'
  BY <1>2, <1>4, SMT DEF Stale
<1> QED
  BY <1>5, <1>6, <1>7, <1>8, <1>9, <1>10, Zenon DEF Matches

LEMMA MatchesStep == ASSUME TypeOK, Matches, [Next]_vars PROVE Matches'
<1>1. CASE Connect
  BY <1>1, ConnectMatches, Zenon
<1>2. ASSUME NEW w \in Worker, HandleAccept(w) PROVE Matches'
  BY <1>2, AcceptMatches, CreateMatches, Asides, AsideStep, Zenon DEF HandleAccept
<1>3. ASSUME NEW t \in Thread, ClearContextEvent(t) PROVE Matches'
  BY <1>3, CloseMatches, EraseMatches, Asides, AsideStep, Zenon DEF ClearContextEvent
<1>4. CASE \/ \E c \in Conn : Send(c) \/ End(c)
           \/ Dispatch
           \/ \E w \in Worker : HandleRead(w)
           \/ UNCHANGED vars
  BY <1>4, Asides, AsideStep, Zenon
<1> QED
  BY <1>1, <1>2, <1>3, <1>4, Zenon DEF Next

-----------------------------------------------------------------------------
(* The theorems *)

LEMMA InvInit == Init => TableInv
<1> SUFFICES ASSUME Init PROVE TableInv
  OBVIOUS
<1>1. Locals /\ Tables
  <2>1. Locals
    BY ConnectionAssumption, SMT DEF Init, Locals, Labels
  <2>2. /\ incoming \in BOOLEAN /\ wronged \in BOOLEAN /\ mixed \in BOOLEAN
        /\ early \in BOOLEAN /\ exhausted \in BOOLEAN
    BY Zenon DEF Init
  <2> QED
    BY <2>1, <2>2, ConnectionAssumption, SMT DEF Init, Tables
<1>2. TableMatchesKernel
  BY ConnectionAssumption, SMT DEF Init, TableMatchesKernel, Creating, Erasing, Thread
<1>3. AcceptedOnce /\ Stale
  BY SMT DEF Init, AcceptedOnce, Stale, Thread, Free
<1> QED
  BY <1>1, <1>2, <1>3, TypeParts, Zenon DEF TableInv

LEMMA InvStep == TableInv /\ [Next]_vars => TableInv'
<1> SUFFICES ASSUME TableInv, [Next]_vars PROVE TableInv'
  OBVIOUS
<1>1. Matches
  BY MatchParts, Zenon DEF TableInv
<1>2. Matches'
  BY <1>1, MatchesStep, Zenon DEF TableInv
<1>3. TypeOK'
  <2>1. CASE UNCHANGED vars
    <3>1. Open' = Open
      BY <2>1, OpenIs, Zenon DEF vars, kernelVars
    <3> QED
      BY <2>1, <3>1, Zenon
         DEF vars, kernelVars, tableVars, taskVars, threadVars, historyVars, TableInv, TypeOK
  <2> QED
    BY <2>1, TypeStep, Zenon DEF TableInv
<1>4. (TableMatchesKernel /\ AcceptedOnce /\ Stale)'
  <2>1. (TableMatchesKernel /\ AcceptedOnce /\ Stale <=> Matches)'
    BY MatchParts, PTL
  <2> QED
    BY <1>2, <2>1, Zenon
<1> QED
  BY <1>3, <1>4, Zenon DEF TableInv

\* The types, for any numbers of descriptors, threads and connections.
THEOREM TableTypes == Spec => []TypeOK
<1>1. TableInv => TypeOK
  BY Zenon DEF TableInv
<1> QED
  BY <1>1, InvInit, InvStep, PTL DEF Spec

\* NetContext_ has the entry of the connection that owns the descriptor, but
\* for what ContextMutex_ spans: create_context never finds an old entry.
THEOREM TableCorrect == Spec => []TableMatchesKernel
<1>1. TableInv => TableMatchesKernel
  BY Zenon DEF TableInv
<1> QED
  BY <1>1, InvInit, InvStep, PTL DEF Spec

-----------------------------------------------------------------------------
(* Nobody is forgotten *)

\* An open descriptor is watched, or a thread is to watch it or to close it.
Watch(f) ==
  /\ f \in watched => sock[f] # Free
  /\ sock[f] # Free => f \in watched \/ At(f, {"create", "add", "close"})

\* What a watched descriptor has to report is not lost.
Hears(f) ==
  f \in watched =>
    /\ sock[f] \in ended => f \in ready \/ At(f, {"clear", "delevent", "close"})
    /\ sock[f] \in unread =>
         f \in ready \/ reads[f] > 0 \/ At(f, {"read", "clear", "delevent", "close"})

\* Each connection has one acceptor, which took it from the backlog.
OneAcceptor ==
  /\ \A w \in Worker : pc[w] \in {"create", "add"} =>
       ctxt[w] \in 1 .. arrived /\ ctxt[w] \notin backlog
  /\ \A v, w \in Worker :
       pc[v] \in {"create", "add"} /\ pc[w] \in {"create", "add"} /\ ctxt[v] = ctxt[w] => v = w

\* No connection is watched before its entry is there.
EntryFirst == \A w \in Worker : pc[w] = "create" => fd[w] \notin watched

Acceptable ==
  backlog # {} => \/ incoming \/ accepts > 0 \/ exhausted
                  \/ \E w \in Worker : pc[w] \in {"accept", "create", "add"}

Noticed ==
  /\ OneAcceptor
  /\ \A f \in Fd : Watch(f)
  /\ ~early => EntryFirst /\ \A f \in Fd : Hears(f)

\* Only thread t moves.
Moves(t) == \A u \in Thread \ {t} : pc'[u] = pc[u] /\ fd'[u] = fd[u] /\ ctxt'[u] = ctxt[u]

LEMMA GotoMoves ==
  ASSUME TypeOK, NEW t \in Thread, NEW label, Goto(t, label)
  PROVE  Moves(t) /\ pc'[t] = label /\ fd'[t] = fd[t] /\ ctxt'[t] = ctxt[t]
BY SMT DEF TypeOK, Goto, Moves

LEMMA TakeMoves ==
  ASSUME TypeOK, NEW t \in Thread, NEW label, NEW f, NEW c, Take(t, label, f, c)
  PROVE  Moves(t) /\ pc'[t] = label /\ fd'[t] = f /\ ctxt'[t] = c
BY SMT DEF TypeOK, Take, Moves

LEMMA LeaveMoves ==
  ASSUME TypeOK, NEW t \in Thread, Leave(t)
  PROVE  Moves(t) /\ pc'[t] = "idle"
BY TakeMoves, Zenon DEF Leave

\* Somebody at a label stays there, if thread t does.
LEMMA AtKept ==
  ASSUME NEW t \in Thread, Moves(t), NEW f, NEW labels, At(f, labels),
         fd[t] = f /\ pc[t] \in labels => fd'[t] = f /\ pc'[t] \in labels
  PROVE  At(f, labels)'
<1>1. PICK u \in Thread : fd[u] = f /\ pc[u] \in labels
  BY Zenon DEF At
<1>2. CASE u = t
  BY <1>1, <1>2, Zenon DEF At
<1>3. CASE u # t
  <2>1. fd'[u] = f /\ pc'[u] \in labels
    BY <1>1, <1>3, Zenon DEF Moves
  <2> QED
    BY <2>1, Zenon DEF At
<1> QED
  BY <1>2, <1>3, Zenon

LEMMA AtHere ==
  ASSUME NEW t \in Thread, NEW f, NEW labels, fd'[t] = f, pc'[t] \in labels
  PROVE  At(f, labels)'
BY Zenon DEF At

\* The kernel's part of a step leaves what Watch and Hears say of g.
Same(g) ==
  /\ g \in watched' <=> g \in watched
  /\ sock'[g] = sock[g]
  /\ g \in ready => g \in ready'
  /\ sock[g] \in ended' => sock[g] \in ended
  /\ sock[g] \in unread' => sock[g] \in unread
  /\ reads[g] > 0 => reads'[g] > 0

\* And thread t does, if it is not to do anything with g, or goes on with it.
GoesOn(t, g) ==
  fd[t] = g =>
    \/ pc[t] \notin {"create", "add", "read", "clear", "delevent", "close"}
    \/ /\ fd'[t] = g
       /\ \/ pc[t] = "create" /\ pc'[t] = "add"
          \/ pc[t] = "read" /\ pc'[t] = "clear"
          \/ pc[t] = "clear" /\ pc'[t] = "delevent"
          \/ pc'[t] = pc[t]

LEMMA Keeps ==
  ASSUME NEW t \in Thread, Moves(t), NEW g \in Fd, Same(g), GoesOn(t, g)
  PROVE  /\ Watch(g) => Watch(g)'
         /\ Hears(g) => Hears(g)'
<1>1. At(g, {"create", "add", "close"}) => At(g, {"create", "add", "close"})'
  <2>1. fd[t] = g /\ pc[t] \in {"create", "add", "close"} =>
          fd'[t] = g /\ pc'[t] \in {"create", "add", "close"}
    BY Zenon DEF GoesOn
  <2> QED
    BY <2>1, AtKept, Zenon
<1>2. At(g, {"clear", "delevent", "close"}) => At(g, {"clear", "delevent", "close"})'
  <2>1. fd[t] = g /\ pc[t] \in {"clear", "delevent", "close"} =>
          fd'[t] = g /\ pc'[t] \in {"clear", "delevent", "close"}
    BY Zenon DEF GoesOn
  <2> QED
    BY <2>1, AtKept, Zenon
<1>3. At(g, {"read", "clear", "delevent", "close"}) =>
        At(g, {"read", "clear", "delevent", "close"})'
  <2>1. fd[t] = g /\ pc[t] \in {"read", "clear", "delevent", "close"} =>
          fd'[t] = g /\ pc'[t] \in {"read", "clear", "delevent", "close"}
    BY Zenon DEF GoesOn
  <2> QED
    BY <2>1, AtKept, Zenon
<1>4. Watch(g) => Watch(g)'
  BY <1>1, Zenon DEF Watch, Same
<1>5. Hears(g) => Hears(g)'
  BY <1>2, <1>3, Zenon DEF Hears, Same
<1> QED
  BY <1>4, <1>5, Zenon

\* No descriptor with a null context is watched, in time.
LEMMA NullContext ==
  ASSUME TypeOK, Matches, Noticed, NEW f \in Fd, NetContext_[f] = Free
  PROVE  /\ ~early => f \notin watched
         /\ sock[f] # Free => \E w \in Worker : pc[w] = "create" /\ fd[w] = f
<1>1. sock[f] # Free => \E w \in Worker : pc[w] = "create" /\ fd[w] = f
  <2>1. OwnerHasEntry(f)
    BY Zenon DEF Matches
  <2> QED
    BY <2>1, Zenon DEF OwnerHasEntry, Creating
<1>2. ~early => f \notin watched
  <2>1. Watch(f)
    BY Zenon DEF Noticed
  <2> QED
    BY <1>1, <2>1, Zenon DEF Noticed, EntryFirst, Watch
<1> QED
  BY <1>1, <1>2, Zenon

\* A step that takes nobody to "create" and watches nothing.
LEMMA AcceptorsKept ==
  ASSUME TypeOK, OneAcceptor, arrived' \in Nat, arrived' >= arrived,
         \A c \in 1 .. arrived : c \in backlog' => c \in backlog,
         \A w \in Worker : pc'[w] \in {"create", "add"} =>
           pc[w] \in {"create", "add"} /\ ctxt'[w] = ctxt[w]
  PROVE  OneAcceptor'
<1>1. ASSUME NEW w \in Worker, pc'[w] \in {"create", "add"}
      PROVE  ctxt'[w] \in 1 .. arrived' /\ ctxt'[w] \notin backlog'
  <2>1. ctxt[w] \in 1 .. arrived /\ ctxt[w] \notin backlog /\ ctxt'[w] = ctxt[w]
    BY <1>1, Zenon DEF OneAcceptor
  <2> QED
    BY <2>1, SMT DEF TypeOK
<1>2. ASSUME NEW v \in Worker, NEW w \in Worker, pc'[v] \in {"create", "add"},
             pc'[w] \in {"create", "add"}, ctxt'[v] = ctxt'[w]
      PROVE  v = w
  BY <1>2, Zenon DEF OneAcceptor
<1> QED
  BY <1>1, <1>2, Zenon DEF OneAcceptor

LEMMA EntryFirstKept ==
  ASSUME EntryFirst, watched' \subseteq watched,
         \A w \in Worker : pc'[w] = "create" => pc[w] = "create" /\ fd'[w] = fd[w]
  PROVE  EntryFirst'
BY Zenon DEF EntryFirst

\* A step that accepts and watches nothing: what is left to show.
LEMMA MovesNoticed ==
  ASSUME TypeOK, Noticed, NEW t \in Thread, Moves(t),
         early' = early, watched' \subseteq watched, arrived' \in Nat, arrived' >= arrived,
         \A c \in 1 .. arrived : c \in backlog' => c \in backlog,
         pc'[t] \in {"create", "add"} =>
           pc[t] = "create" /\ pc'[t] = "add" /\ ctxt'[t] = ctxt[t],
         \A g \in Fd : Watch(g)' /\ (~early => Hears(g)')
  PROVE  Noticed'
<1>1. \A w \in Worker : pc'[w] \in {"create", "add"} =>
        pc[w] \in {"create", "add"} /\ ctxt'[w] = ctxt[w]
  BY WorkersAreThreads, Zenon DEF Moves
<1>2. \A w \in Worker : pc'[w] = "create" => pc[w] = "create" /\ fd'[w] = fd[w]
  <2>1. pc'[t] # "create"
    OBVIOUS
  <2> QED
    BY <2>1, WorkersAreThreads, Zenon DEF Moves
<1>3. OneAcceptor'
  BY <1>1, AcceptorsKept, Zenon DEF Noticed
<1>4. ~early => EntryFirst'
  BY <1>2, EntryFirstKept, Zenon DEF Noticed
<1> QED
  BY <1>3, <1>4, Zenon DEF Noticed

\* And one that does something with descriptor f only.
LEMMA OwnNoticed ==
  ASSUME TypeOK, Noticed, NEW t \in Thread, Moves(t), NEW f \in Fd,
         UNCHANGED <<early, arrived, backlog>>, watched' \subseteq watched,
         pc'[t] \in {"create", "add"} =>
           pc[t] = "create" /\ pc'[t] = "add" /\ ctxt'[t] = ctxt[t],
         \A g \in Fd \ {f} : Same(g) /\ GoesOn(t, g),
         Watch(f)', ~early => Hears(f)'
  PROVE  Noticed'
<1>1. \A g \in Fd \ {f} : Watch(g)' /\ (~early => Hears(g)')
  BY Keeps, Zenon DEF Noticed
<1>2. arrived' \in Nat /\ arrived' >= arrived
  BY SMT DEF TypeOK
<1> QED
  BY <1>1, <1>2, MovesNoticed, Zenon

\* A peer's step, and the listening socket's event.
LEMMA PeersNoticed ==
  ASSUME TypeOK, Noticed,
         Connect \/ (\E c \in Conn : Send(c) \/ End(c)) \/ DispatchAccept \/ UNCHANGED vars
  PROVE  Noticed'
<1>1. UNCHANGED <<threadVars, sock, watched, reads, early>>
  BY Zenon DEF Connect, Send, End, DispatchAccept, vars, kernelVars, tableVars, taskVars,
               historyVars
<1>2. Moves(Loop) /\ pc'[Loop] = pc[Loop] /\ Loop \in Thread /\ fd' = fd /\ ctxt' = ctxt
  BY <1>1, WorkersAreThreads, Zenon DEF Moves, threadVars
<1>3. /\ arrived' \in Nat /\ arrived' >= arrived
      /\ \A c \in 1 .. arrived : c \in backlog' => c \in backlog
  BY ConnectionAssumption, SMT DEF Connect, Send, End, DispatchAccept, vars, kernelVars, TypeOK
<1>4. ASSUME NEW g \in Fd, Same(g) PROVE Watch(g)' /\ (~early => Hears(g)')
  <2>1. GoesOn(Loop, g)
    BY <1>2, Zenon DEF GoesOn
  <2> QED
    BY <1>2, <1>4, <2>1, Keeps, Zenon DEF Noticed
<1>5. ASSUME NEW g \in Fd, ~Same(g) PROVE Watch(g)' /\ (~early => Hears(g)')
  <2>1. PICK c \in Conn : Send(c) \/ End(c)
    <3>1. ~(Connect \/ DispatchAccept \/ UNCHANGED vars)
      BY <1>1, <1>5, Zenon DEF Same, Connect, DispatchAccept, vars, kernelVars
    <3> QED
      BY <3>1, Zenon
  <2>2. /\ ready' = ready \cup Notify(c)
        /\ unread' \in {unread, unread \cup {c}} /\ ended' \in {ended, ended \cup {c}}
    BY <2>1, SMT DEF Send, End
  <2>3. sock[g] = c
    BY <1>1, <1>5, <2>2, SMT DEF Same
  <2>4. Watch(g)'
    <3>1. At(g, {"create", "add", "close"}) => At(g, {"create", "add", "close"})'
      BY <1>1, Zenon DEF At, threadVars
    <3> QED
      BY <1>1, <3>1, Zenon DEF Noticed, Watch
  <2>5. g \in watched => g \in ready'
    BY <2>2, <2>3, SMT DEF Notify
  <2> QED
    BY <1>1, <2>4, <2>5, Zenon DEF Hears
<1>6. pc'[Loop] \notin {"create", "add"} \/ pc[Loop] \in {"create", "add"}
  BY <1>2, Zenon
<1>7. OneAcceptor'
  <2>1. \A w \in Worker : pc'[w] \in {"create", "add"} =>
          pc[w] \in {"create", "add"} /\ ctxt'[w] = ctxt[w]
    BY <1>1, Zenon DEF threadVars
  <2> QED
    BY <1>3, <2>1, AcceptorsKept, Zenon DEF Noticed
<1>8. ~early => EntryFirst'
  BY <1>1, Zenon DEF Noticed, EntryFirst, threadVars
<1> QED
  BY <1>1, <1>4, <1>5, <1>7, <1>8, Zenon DEF Noticed

\* Run's other events: the handler takes over from the ready list.
LEMMA DispatchNoticed ==
  ASSUME TypeOK, Noticed, NEW f \in Fd, RemoteClose(f) \/ DispatchRead(f)
  PROVE  Noticed'
<1>1. CASE RemoteClose(f)
  <2>1. /\ Loop \in Thread /\ Moves(Loop) /\ pc[Loop] = "idle"
        /\ pc'[Loop] = "clear" /\ fd'[Loop] = f
    BY <1>1, WorkersAreThreads, TakeMoves, Zenon DEF RemoteClose
  <2>2. UNCHANGED <<sock, watched, arrived, backlog, unread, ended, reads, early>>
        /\ ready' = ready \ {f}
    BY <1>1, Zenon DEF RemoteClose, taskVars, historyVars
  <2>3. \A g \in Fd \ {f} : Same(g) /\ GoesOn(Loop, g)
    BY <2>1, <2>2, SMT DEF Same, GoesOn
  <2>4. Watch(f)'
    <3>1. At(f, {"create", "add", "close"}) => At(f, {"create", "add", "close"})'
      BY <2>1, AtKept, Zenon
    <3> QED
      BY <2>2, <3>1, Zenon DEF Noticed, Watch
  <2>5. Hears(f)'
    <3>1. At(f, {"clear", "delevent", "close"})'
      BY <2>1, AtHere, Zenon
    <3>2. At(f, {"read", "clear", "delevent", "close"})'
      BY <2>1, AtHere, Zenon
    <3> QED
      BY <3>1, <3>2, Zenon DEF Hears
  <2>6. watched' \subseteq watched /\ pc'[Loop] \notin {"create", "add"}
    BY <2>1, <2>2, Zenon
  <2> QED
    BY <2>1, <2>2, <2>3, <2>4, <2>5, <2>6, OwnNoticed, Zenon
<1>2. CASE DispatchRead(f)
  <2>1. /\ Loop \in Thread /\ Moves(Loop) /\ pc[Loop] = "idle" /\ pc' = pc /\ fd' = fd
    BY <1>2, WorkersAreThreads, Zenon DEF DispatchRead, Moves, threadVars
  <2>2. UNCHANGED <<sock, watched, arrived, backlog, unread, ended, early>>
        /\ ready' = ready \ {f} /\ sock[f] \notin ended
    BY <1>2, Zenon DEF DispatchRead, historyVars
  <2>3. /\ \A g \in Fd \ {f} : reads'[g] = reads[g]
        /\ sock[f] \in unread => reads'[f] > 0
    BY <1>2, SMT DEF DispatchRead, TypeOK
  <2>4. \A g \in Fd \ {f} : Same(g) /\ GoesOn(Loop, g)
    BY <2>1, <2>2, <2>3, SMT DEF Same, GoesOn
  <2>5. Watch(f)'
    <3>1. At(f, {"create", "add", "close"}) => At(f, {"create", "add", "close"})'
      BY <2>1, Zenon DEF At
    <3> QED
      BY <2>2, <3>1, Zenon DEF Noticed, Watch
  <2>6. Hears(f)'
    BY <2>2, <2>3, Zenon DEF Hears
  <2>7. watched' \subseteq watched /\ pc'[Loop] \notin {"create", "add"}
    BY <2>1, <2>2, Zenon
  <2> QED
    BY <2>1, <2>2, <2>4, <2>5, <2>6, <2>7, OwnNoticed, Zenon
<1> QED
  BY <1>1, <1>2

\* An acceptor takes the connection from the backlog, watches it after its entry
\* is there, and is late only if the number has gone to another connection.
LEMMA AcceptNoticed ==
  ASSUME TypeOK, Matches, Noticed, NEW w \in Worker, HandleAccept(w)
  PROVE  Noticed'
<1>0. w \in Thread
  BY WorkersAreThreads, Zenon
<1>1. CASE BeginAccept(w) \/ AcceptFails(w) \/ AcceptAgain(w)
  <2>1. Moves(w) /\ pc[w] \in {"idle", "accept"} /\ pc'[w] \in {"idle", "accept"}
    BY <1>0, <1>1, GotoMoves, LeaveMoves, Zenon DEF BeginAccept, AcceptFails, AcceptAgain
  <2>2. UNCHANGED <<sock, watched, ready, arrived, backlog, unread, ended, reads, early>>
    BY <1>1, Zenon DEF BeginAccept, AcceptFails, AcceptAgain, kernelVars, taskVars, historyVars
  <2>3. \A g \in Fd : Same(g) /\ GoesOn(w, g)
    BY <2>1, <2>2, Zenon DEF Same, GoesOn
  <2>4. \A g \in Fd : Watch(g)' /\ (~early => Hears(g)')
    BY <1>0, <2>1, <2>3, Keeps, Zenon DEF Noticed
  <2>5. arrived' \in Nat /\ arrived' >= arrived
    BY <2>2, SMT DEF TypeOK
  <2>6. watched' \subseteq watched /\ pc'[w] \notin {"create", "add"}
    BY <2>1, <2>2, Zenon
  <2> QED
    BY <1>0, <2>1, <2>2, <2>4, <2>5, <2>6, MovesNoticed, Zenon
<1>2. ASSUME NEW c \in Conn, NEW f \in Fd, Accept(w, c, f) PROVE Noticed'
  <2>1. Moves(w) /\ pc[w] = "accept" /\ pc'[w] = "create" /\ fd'[w] = f /\ ctxt'[w] = c
    BY <1>0, <1>2, TakeMoves, Zenon DEF Accept
  <2>2. UNCHANGED <<watched, ready, arrived, unread, ended, reads, early>>
    BY <1>2, Zenon DEF Accept, taskVars, historyVars
  <2>3. /\ c \in backlog /\ backlog' = backlog \ {c} /\ c \in 1 .. arrived
        /\ sock[f] = Free /\ \A g \in Fd \ {f} : sock'[g] = sock[g]
    BY <1>2, SMT DEF Accept, TypeOK
  <2>4. f \notin watched
    BY <2>3, Zenon DEF Noticed, Watch
  <2>5. \A g \in Fd : Watch(g)' /\ (~early => Hears(g)')
    <3>1. \A g \in Fd \ {f} : Same(g) /\ GoesOn(w, g)
      BY <2>1, <2>2, <2>3, Zenon DEF Same, GoesOn
    <3>2. \A g \in Fd \ {f} : Watch(g)' /\ (~early => Hears(g)')
      BY <1>0, <2>1, <3>1, Keeps, Zenon DEF Noticed
    <3>3. At(f, {"create", "add", "close"})'
      BY <1>0, <2>1, AtHere, Zenon
    <3>4. Watch(f)' /\ Hears(f)'
      BY <2>2, <2>4, <3>3, Zenon DEF Watch, Hears
    <3> QED
      BY <3>2, <3>4, Zenon
  <2>6. OneAcceptor'
    <3>1. \A v \in Worker \ {w} : pc'[v] \in {"create", "add"} =>
            ctxt'[v] \in 1 .. arrived /\ ctxt'[v] \notin backlog
      BY <2>1, WorkersAreThreads, Zenon DEF Moves, Noticed, OneAcceptor
    <3>2. \A u, v \in Worker \ {w} :
            pc'[u] \in {"create", "add"} /\ pc'[v] \in {"create", "add"} /\ ctxt'[u] = ctxt'[v]
              => u = v
      BY <2>1, WorkersAreThreads, Zenon DEF Moves, Noticed, OneAcceptor
    <3>3. \A v \in Worker : pc'[v] \in {"create", "add"} =>
            ctxt'[v] \in 1 .. arrived' /\ ctxt'[v] \notin backlog'
      BY <2>1, <2>2, <2>3, <3>1, SMT
    <3>4. \A u, v \in Worker :
            pc'[u] \in {"create", "add"} /\ pc'[v] \in {"create", "add"} /\ ctxt'[u] = ctxt'[v]
              => u = v
      BY <2>1, <2>3, <3>1, <3>2, Zenon
    <3> QED
      BY <3>3, <3>4, Zenon DEF OneAcceptor
  <2>7. ~early => EntryFirst'
    BY <2>1, <2>2, <2>4, WorkersAreThreads, Zenon DEF Moves, Noticed, EntryFirst
  <2> QED
    BY <2>2, <2>5, <2>6, <2>7, Zenon DEF Noticed
<1>3. CASE CreateContext(w)
  <2>1. Moves(w) /\ pc[w] = "create" /\ pc'[w] = "add" /\ fd'[w] = fd[w] /\ ctxt'[w] = ctxt[w]
    BY <1>0, <1>3, GotoMoves, Zenon DEF CreateContext
  <2>2. UNCHANGED <<sock, watched, ready, arrived, backlog, unread, ended, reads, early>>
    BY <1>3, Zenon DEF CreateContext, kernelVars, taskVars, historyVars
  <2>3. \A g \in Fd : Same(g) /\ GoesOn(w, g)
    BY <2>1, <2>2, Zenon DEF Same, GoesOn
  <2>4. \A g \in Fd : Watch(g)' /\ (~early => Hears(g)')
    BY <1>0, <2>1, <2>3, Keeps, Zenon DEF Noticed
  <2>5. arrived' \in Nat /\ arrived' >= arrived
    BY <2>2, SMT DEF TypeOK
  <2>6. watched' \subseteq watched
    BY <2>2, Zenon
  <2> QED
    BY <1>0, <2>1, <2>2, <2>4, <2>5, <2>6, MovesNoticed, Zenon
<1>4. CASE AddEvent(w)
  <2>0. PICK f \in Fd : f = fd[w]
    BY <1>0, <1>4, SMT DEF AddEvent, TypeOK
  <2>1. Moves(w) /\ pc[w] = "add" /\ pc'[w] = "accept"
    BY <1>0, <1>4, TakeMoves, Zenon DEF AddEvent
  <2>2. UNCHANGED <<sock, arrived, backlog, unread, ended, reads>>
    BY <1>4, Zenon DEF AddEvent, taskVars
  <2>3. /\ ready \subseteq ready' /\ \A g \in Fd \ {f} : g \in watched' <=> g \in watched
        /\ early => early'
    <3>1. CASE UNCHANGED <<watched, ready, early>>
      BY <3>1, Zenon
    <3>2. CASE /\ watched' = watched \cup {f}
               /\ ready' = IF sock[f] \in unread \cup ended THEN ready \cup {f} ELSE ready
               /\ early' = (early \/ sock[f] # ctxt[w])
      <4>1. early => early'
        BY <3>2, Zenon
      <4>2. ready' = ready \/ ready' = ready \cup {f}
        BY <3>2, Zenon
      <4>3. ready \subseteq ready'
        BY <4>2, Zenon
      <4> QED
        BY <3>2, <4>1, <4>3, Zenon
    <3> QED
      BY <1>4, <2>0, <3>1, <3>2, Zenon DEF AddEvent
  <2>4. \A g \in Fd \ {f} : Same(g) /\ GoesOn(w, g)
    BY <2>0, <2>2, <2>3, SMT DEF Same, GoesOn
  <2>5. OneAcceptor'
    <3>1. \A v \in Worker : pc'[v] \in {"create", "add"} =>
            pc[v] \in {"create", "add"} /\ ctxt'[v] = ctxt[v]
      BY <2>1, WorkersAreThreads, Zenon DEF Moves
    <3>2. arrived' \in Nat /\ arrived' >= arrived
      BY <2>2, SMT DEF TypeOK
    <3> QED
      BY <2>2, <3>1, <3>2, AcceptorsKept, Zenon DEF Noticed
  <2>6. CASE sock[f] = Free \/ f \in watched
    <3>1. UNCHANGED <<watched, ready, early>>
      BY <1>4, <2>0, <2>6, Zenon DEF AddEvent
    <3>2. Watch(f)'
      BY <2>2, <2>6, <3>1, Zenon DEF Noticed, Watch
    <3>3. ~early => Hears(f)'
      <4>1. At(f, {"clear", "delevent", "close"}) => At(f, {"clear", "delevent", "close"})'
        BY <1>0, <2>1, AtKept, Zenon
      <4>2. At(f, {"read", "clear", "delevent", "close"}) =>
              At(f, {"read", "clear", "delevent", "close"})'
        BY <1>0, <2>1, AtKept, Zenon
      <4> QED
        BY <2>2, <3>1, <4>1, <4>2, Zenon DEF Noticed, Hears
    <3>4. watched' \subseteq watched /\ pc'[w] \notin {"create", "add"}
      BY <2>1, <3>1, Zenon
    <3> QED
      BY <1>0, <2>0, <2>1, <2>2, <2>4, <3>1, <3>2, <3>3, <3>4, OwnNoticed, Zenon
  <2>7. CASE sock[f] # Free /\ f \notin watched
    <3>1. /\ watched' = watched \cup {f}
          /\ sock[f] \in unread \cup ended => f \in ready'
      <4>1. watched' = watched \cup {f}
        BY <1>4, <2>0, <2>7, Zenon DEF AddEvent
      <4>2. ready' = IF sock[f] \in unread \cup ended THEN ready \cup {f} ELSE ready
        BY <1>4, <2>0, <2>7, Zenon DEF AddEvent
      <4> QED
        BY <4>1, <4>2, SMT
    <3>2. sock[f] # ctxt[w] => early'
      BY <1>4, <2>0, <2>7, Zenon DEF AddEvent
    <3>3. Watch(f)' /\ Hears(f)'
      BY <2>2, <2>7, <3>1, Zenon DEF Watch, Hears
    <3>4. \A g \in Fd : Watch(g)' /\ (~early => Hears(g)')
      BY <1>0, <2>1, <2>4, <3>3, Keeps, Zenon DEF Noticed
    <3>5. ~early' => EntryFirst'
      <4>1. SUFFICES ASSUME ~early', NEW v \in Worker, pc'[v] = "create"
                     PROVE  fd'[v] \notin watched'
        BY Zenon DEF EntryFirst
      <4>2. v # w /\ pc[v] = "create" /\ fd'[v] = fd[v] /\ fd[v] \notin watched
        BY <2>1, <2>3, <4>1, WorkersAreThreads, Zenon DEF Moves, Noticed, EntryFirst
      <4>3. sock[fd[v]] = ctxt[v]
        BY <4>2, Zenon DEF Matches, CreatesForOwner
      <4>4. ctxt[v] # ctxt[w]
        BY <2>1, <4>2, Zenon DEF Noticed, OneAcceptor
      <4>5. fd[v] # f
        BY <3>2, <4>1, <4>3, <4>4, Zenon
      <4> QED
        BY <3>1, <4>2, <4>5, Zenon
    <3> QED
      BY <2>3, <2>5, <3>4, <3>5, Zenon DEF Noticed
  <2> QED
    BY <2>6, <2>7, Zenon
<1> QED
  BY <1>1, <1>2, <1>3, <1>4, Zenon DEF HandleAccept

\* A reader hands over to the one who clears, or has read everything; without an
\* entry it was not its business.
LEMMA ReadNoticed ==
  ASSUME TypeOK, Matches, Noticed, NEW w \in Worker, HandleRead(w)
  PROVE  Noticed'
<1>0. w \in Thread
  BY WorkersAreThreads, Zenon
<1>1. ASSUME NEW f \in Fd, BeginRead(w, f) PROVE Noticed'
  <2>1. UNCHANGED <<sock, watched, ready, arrived, backlog, unread, ended, early>>
    BY <1>1, Zenon DEF BeginRead, kernelVars, historyVars
  <2>2. pc[w] = "idle" /\ \A g \in Fd \ {f} : reads'[g] = reads[g]
    BY <1>1, SMT DEF BeginRead, TypeOK
  <2>3. /\ Moves(w)
        /\ \/ NetContext_[f] = Free /\ pc'[w] = "idle"
           \/ NetContext_[f] # Free /\ pc'[w] = "read" /\ fd'[w] = f
    BY <1>0, <1>1, LeaveMoves, TakeMoves, Zenon DEF BeginRead
  <2>4. \A g \in Fd \ {f} : Same(g) /\ GoesOn(w, g)
    BY <2>1, <2>2, Zenon DEF Same, GoesOn
  <2>5. Watch(f)'
    <3>1. At(f, {"create", "add", "close"}) => At(f, {"create", "add", "close"})'
      BY <1>0, <2>2, <2>3, AtKept, Zenon
    <3> QED
      BY <2>1, <3>1, Zenon DEF Noticed, Watch
  <2>6. ~early => Hears(f)'
    <3>1. CASE NetContext_[f] = Free
      BY <2>1, <3>1, NullContext, Zenon DEF Hears
    <3>2. CASE NetContext_[f] # Free
      <4>1. At(f, {"read", "clear", "delevent", "close"})'
        BY <1>0, <2>3, <3>2, AtHere, Zenon
      <4>2. At(f, {"clear", "delevent", "close"}) => At(f, {"clear", "delevent", "close"})'
        BY <1>0, <2>2, <2>3, AtKept, Zenon
      <4> QED
        BY <2>1, <4>1, <4>2, Zenon DEF Noticed, Hears
    <3> QED
      BY <3>1, <3>2, Zenon
  <2>7. watched' \subseteq watched /\ pc'[w] \notin {"create", "add"}
    BY <2>1, <2>3, Zenon
  <2> QED
    BY <1>0, <2>1, <2>3, <2>4, <2>5, <2>6, <2>7, OwnNoticed, Zenon
<1>2. CASE ReadBytes(w)
  <2>1. /\ UNCHANGED <<sock, watched, ready, arrived, backlog, ended, early, reads>>
        /\ pc' = pc /\ fd' = fd /\ ctxt' = ctxt /\ pc[w] = "read"
    BY <1>2, Zenon DEF ReadBytes, taskVars, threadVars
  <2>2. unread' \subseteq unread
    BY <1>2, SMT DEF ReadBytes
  <2>3. Moves(w)
    BY <2>1, Zenon DEF Moves
  <2>4. \A g \in Fd : Same(g) /\ GoesOn(w, g)
    BY <2>1, <2>2, Zenon DEF Same, GoesOn
  <2>5. \A g \in Fd : Watch(g)' /\ (~early => Hears(g)')
    BY <1>0, <2>3, <2>4, Keeps, Zenon DEF Noticed
  <2>6. arrived' \in Nat /\ arrived' >= arrived
    BY <2>1, SMT DEF TypeOK
  <2>7. watched' \subseteq watched /\ pc'[w] \notin {"create", "add"}
    BY <2>1, Zenon
  <2> QED
    BY <1>0, <2>1, <2>3, <2>5, <2>6, <2>7, MovesNoticed, Zenon
<1>3. CASE ReadAgain(w) \/ ReadFails(w)
  <2>0. PICK f \in Fd : f = fd[w]
    BY <1>0, <1>3, SMT DEF ReadAgain, ReadFails, TypeOK
  <2>1. UNCHANGED <<sock, watched, ready, arrived, backlog, unread, ended, early, reads>>
    BY <1>3, Zenon DEF ReadAgain, ReadFails, kernelVars, taskVars, historyVars
  <2>2. /\ Moves(w) /\ pc[w] = "read"
        /\ \/ pc'[w] = "idle" /\ sock[f] \notin unread \cup ended
           \/ pc'[w] = "clear" /\ fd'[w] = f
    BY <1>0, <1>3, <2>0, LeaveMoves, GotoMoves, Zenon DEF ReadAgain, ReadFails
  <2>3. \A g \in Fd \ {f} : Same(g) /\ GoesOn(w, g)
    BY <2>0, <2>1, <2>2, Zenon DEF Same, GoesOn
  <2>4. Watch(f)'
    <3>1. At(f, {"create", "add", "close"}) => At(f, {"create", "add", "close"})'
      BY <1>0, <2>2, AtKept, Zenon
    <3> QED
      BY <2>1, <3>1, Zenon DEF Noticed, Watch
  <2>5. ~early => Hears(f)'
    <3>1. CASE sock[f] \notin unread \cup ended
      BY <2>1, <3>1, Zenon DEF Hears
    <3>2. CASE pc'[w] = "clear" /\ fd'[w] = f
      <4>1. At(f, {"clear", "delevent", "close"})'
        BY <1>0, <3>2, AtHere, Zenon
      <4>2. At(f, {"read", "clear", "delevent", "close"})'
        BY <1>0, <3>2, AtHere, Zenon
      <4> QED
        BY <4>1, <4>2, Zenon DEF Hears
    <3> QED
      BY <2>2, <3>1, <3>2, Zenon
  <2>6. watched' \subseteq watched /\ pc'[w] \notin {"create", "add"}
    BY <2>1, <2>2, Zenon
  <2> QED
    BY <1>0, <2>0, <2>1, <2>2, <2>3, <2>4, <2>5, <2>6, OwnNoticed, Zenon
<1> QED
  BY <1>1, <1>2, <1>3, Zenon DEF HandleRead

\* Whoever finds nothing to clear leaves nothing behind: the number is closed,
\* or its next owner has its acceptor and is not watched yet.
LEMMA ClearNoticed ==
  ASSUME TypeOK, Matches, Noticed, NEW t \in Thread, ClearContextEvent(t)
  PROVE  Noticed'
<1>0. PICK f \in Fd : f = fd[t]
  BY SMT DEF ClearContextEvent, Clear, DeleteEvent, Close, CloseNothing, Erase, TypeOK
<1>1. CASE Clear(t) \/ CloseNothing(t)
  <2>1. UNCHANGED <<sock, watched, ready, arrived, backlog, unread, ended, early, reads>>
    BY <1>1, Zenon DEF Clear, CloseNothing, kernelVars, taskVars, historyVars
  <2>2. /\ Moves(t) /\ pc[t] \in {"clear", "close"}
        /\ \/ NetContext_[f] = Free /\ pc'[t] = "idle"
           \/ pc[t] = "clear" /\ pc'[t] = "delevent" /\ fd'[t] = f
    BY <1>0, <1>1, LeaveMoves, GotoMoves, Zenon DEF Clear, CloseNothing
  <2>3. \A g \in Fd \ {f} : Same(g) /\ GoesOn(t, g)
    BY <1>0, <2>1, <2>2, Zenon DEF Same, GoesOn
  <2>4. watched' \subseteq watched /\ pc'[t] \notin {"create", "add"}
    BY <2>1, <2>2, Zenon
  <2>5. CASE NetContext_[f] = Free
    <3>1. sock[f] # Free => At(f, {"create", "add", "close"})'
      <4>1. SUFFICES ASSUME sock[f] # Free PROVE At(f, {"create", "add", "close"})'
        OBVIOUS
      <4>2. PICK w \in Worker : pc[w] = "create" /\ fd[w] = f
        BY <2>5, <4>1, NullContext, Zenon
      <4>3. w \in Thread /\ w # t
        BY <2>2, <4>2, WorkersAreThreads, Zenon
      <4>4. pc'[w] \in {"create", "add", "close"} /\ fd'[w] = f
        BY <2>2, <4>2, <4>3, Zenon DEF Moves
      <4> QED
        BY <4>3, <4>4, AtHere, Zenon
    <3>2. Watch(f)'
      BY <2>1, <3>1, Zenon DEF Noticed, Watch
    <3>3. ~early => Hears(f)'
      BY <2>1, <2>5, NullContext, Zenon DEF Hears
    <3> QED
      BY <2>1, <2>2, <2>3, <2>4, <3>2, <3>3, OwnNoticed, Zenon
  <2>6. CASE pc[t] = "clear" /\ pc'[t] = "delevent" /\ fd'[t] = f
    <3>1. Same(f) /\ GoesOn(t, f)
      BY <2>1, <2>6, Zenon DEF Same, GoesOn
    <3>2. Watch(f)' /\ (~early => Hears(f)')
      BY <2>2, <3>1, Keeps, Zenon DEF Noticed
    <3> QED
      BY <2>1, <2>2, <2>3, <2>4, <3>2, OwnNoticed, Zenon
  <2> QED
    BY <2>2, <2>5, <2>6, Zenon
<1>2. CASE DeleteEvent(t)
  <2>1. /\ UNCHANGED <<sock, arrived, backlog, unread, ended, early, reads>>
        /\ watched' = watched \ {f} /\ ready' = ready \ {f}
    BY <1>0, <1>2, Zenon DEF DeleteEvent, taskVars, historyVars
  <2>2. Moves(t) /\ pc[t] = "delevent" /\ pc'[t] = "close" /\ fd'[t] = f
    BY <1>0, <1>2, GotoMoves, Zenon DEF DeleteEvent
  <2>3. \A g \in Fd \ {f} : Same(g) /\ GoesOn(t, g)
    BY <1>0, <2>1, <2>2, Zenon DEF Same, GoesOn
  <2>4. watched' \subseteq watched /\ pc'[t] \notin {"create", "add"} /\ f \notin watched'
    BY <2>1, <2>2, Zenon
  <2>5. At(f, {"create", "add", "close"})'
    BY <2>2, AtHere, Zenon
  <2>6. Watch(f)' /\ Hears(f)'
    BY <2>4, <2>5, Zenon DEF Watch, Hears
  <2> QED
    BY <2>1, <2>2, <2>3, <2>4, <2>6, OwnNoticed, Zenon
<1>3. CASE Close(t)
  <2>1. /\ UNCHANGED <<arrived, backlog, early, reads>>
        /\ watched' = watched \ {f} /\ ready' = ready \ {f}
        /\ unread' = unread \ {sock[f]} /\ ended' = ended \ {sock[f]}
    BY <1>0, <1>3, Zenon DEF Close, CloseBy, taskVars
  <2>2. sock'[f] = Free /\ \A g \in Fd \ {f} : sock'[g] = sock[g]
    BY <1>0, <1>3, SMT DEF Close, CloseBy, TypeOK
  <2>3. Moves(t) /\ pc[t] = "close" /\ pc'[t] = "erase"
    BY <1>3, GotoMoves, Zenon DEF Close
  <2>4. \A g \in Fd \ {f} : Same(g) /\ GoesOn(t, g)
    BY <1>0, <2>1, <2>2, Zenon DEF Same, GoesOn
  <2>5. watched' \subseteq watched /\ pc'[t] \notin {"create", "add"} /\ f \notin watched'
    BY <2>1, <2>3, Zenon
  <2>6. Watch(f)' /\ Hears(f)'
    BY <2>2, <2>5, Zenon DEF Watch, Hears
  <2> QED
    BY <2>1, <2>3, <2>4, <2>5, <2>6, OwnNoticed, Zenon
<1>4. CASE Erase(t)
  <2>1. UNCHANGED <<sock, watched, ready, arrived, backlog, unread, ended, early, reads>>
    BY <1>4, Zenon DEF Erase, kernelVars, taskVars, historyVars
  <2>2. Moves(t) /\ pc[t] = "erase" /\ pc'[t] = "idle"
    BY <1>4, LeaveMoves, Zenon DEF Erase
  <2>3. \A g \in Fd : Same(g) /\ GoesOn(t, g)
    BY <2>1, <2>2, Zenon DEF Same, GoesOn
  <2>4. \A g \in Fd : Watch(g)' /\ (~early => Hears(g)')
    BY <2>2, <2>3, Keeps, Zenon DEF Noticed
  <2>5. watched' \subseteq watched /\ pc'[t] \notin {"create", "add"}
    BY <2>1, <2>2, Zenon
  <2> QED
    BY <2>1, <2>2, <2>3, <2>4, <2>5, OwnNoticed, Zenon
<1> QED
  BY <1>1, <1>2, <1>3, <1>4, Zenon DEF ClearContextEvent

LEMMA NoticedStep == ASSUME TypeOK, Matches, Noticed, [Next]_vars PROVE Noticed'
BY PeersNoticed, DispatchNoticed, AcceptNoticed, ReadNoticed, ClearNoticed, Zenon
   DEF Next, Dispatch

\* A backlog keeps the event, a task or a worker in handle_accept: the loop is
\* left at EAGAIN only, or at EMFILE.
LEMMA AcceptableStep == ASSUME TypeOK, Acceptable, [Next]_vars PROVE Acceptable'
<1> DEFINE Working == \E w \in Worker : pc[w] \in {"accept", "create", "add"}
<1>1. CASE UNCHANGED <<backlog, incoming, accepts, exhausted, pc>>
  BY <1>1, Zenon DEF Acceptable
<1>2. ASSUME NEW t \in Thread, Moves(t), pc[t] \notin {"accept", "create", "add"},
             UNCHANGED <<backlog, incoming, accepts, exhausted>>
      PROVE  Acceptable'
  <2>1. Working => Working'
    BY <1>2, WorkersAreThreads, Zenon DEF Moves
  <2> QED
    BY <1>2, <2>1, Zenon DEF Acceptable
<1>3. ASSUME NEW w \in Worker, pc'[w] \in {"accept", "create", "add"}
      PROVE  Acceptable'
  BY <1>3, Zenon DEF Acceptable
<1>4. CASE Connect
  BY <1>4, Zenon DEF Connect, Acceptable
<1>5. CASE UNCHANGED vars \/ \E c \in Conn : Send(c) \/ End(c)
  BY <1>1, <1>5, Zenon DEF Send, End, vars, kernelVars, taskVars, threadVars, historyVars
<1>6. CASE DispatchAccept
  <2>1. backlog # {} => accepts' > 0
    BY <1>6, SMT DEF DispatchAccept, TypeOK
  <2> QED
    BY <1>6, <2>1, Zenon DEF DispatchAccept, Acceptable
<1>7. ASSUME NEW f \in Fd, RemoteClose(f) PROVE Acceptable'
  BY <1>2, <1>7, TakeMoves, WorkersAreThreads, Zenon DEF RemoteClose, taskVars, historyVars
<1>8. ASSUME NEW f \in Fd, DispatchRead(f) PROVE Acceptable'
  BY <1>1, <1>8, Zenon DEF DispatchRead, threadVars, historyVars
<1>9. ASSUME NEW w \in Worker, HandleAccept(w) PROVE Acceptable'
  <2>0. w \in Thread
    BY WorkersAreThreads, Zenon
  <2>1. CASE BeginAccept(w) \/ CreateContext(w) \/ AddEvent(w)
             \/ \E c \in Conn, f \in Fd : Accept(w, c, f)
    <3>1. pc'[w] \in {"accept", "create", "add"}
      BY <2>0, <2>1, GotoMoves, TakeMoves, Zenon DEF BeginAccept, CreateContext, AddEvent, Accept
    <3> QED
      BY <1>3, <3>1, Zenon
  <2>2. CASE AcceptFails(w)
    BY <2>2, Zenon DEF AcceptFails, Acceptable
  <2>3. CASE AcceptAgain(w)
    BY <2>3, Zenon DEF AcceptAgain, Acceptable, kernelVars
  <2> QED
    BY <1>9, <2>1, <2>2, <2>3, Zenon DEF HandleAccept
<1>10. ASSUME NEW w \in Worker, HandleRead(w) PROVE Acceptable'
  <2>0. w \in Thread
    BY WorkersAreThreads, Zenon
  <2>1. ASSUME NEW f \in Fd, BeginRead(w, f) PROVE Acceptable'
    <3>1. Moves(w) /\ pc[w] = "idle"
      BY <2>0, <2>1, LeaveMoves, TakeMoves, Zenon DEF BeginRead
    <3> QED
      BY <1>2, <2>0, <2>1, <3>1, Zenon DEF BeginRead, kernelVars, historyVars
  <2>2. CASE ReadBytes(w)
    BY <1>1, <2>2, Zenon DEF ReadBytes, taskVars, threadVars
  <2>3. CASE ReadAgain(w) \/ ReadFails(w)
    <3>1. Moves(w) /\ pc[w] = "read"
      BY <2>0, <2>3, LeaveMoves, GotoMoves, Zenon DEF ReadAgain, ReadFails
    <3> QED
      BY <1>2, <2>0, <2>3, <3>1, Zenon DEF ReadAgain, ReadFails, kernelVars, taskVars, historyVars
  <2> QED
    BY <1>10, <2>1, <2>2, <2>3, Zenon DEF HandleRead
<1>11. ASSUME NEW t \in Thread, ClearContextEvent(t) PROVE Acceptable'
  <2>1. Moves(t)
    BY <1>11, LeaveMoves, GotoMoves, Zenon
       DEF ClearContextEvent, Clear, DeleteEvent, Close, CloseNothing, Erase
  <2>2. pc[t] \notin {"accept", "create", "add"}
    BY <1>11, Zenon DEF ClearContextEvent, Clear, DeleteEvent, Close, CloseNothing, Erase
  <2>3. UNCHANGED <<backlog, incoming, accepts, exhausted>>
    BY <1>11, Zenon DEF ClearContextEvent, Clear, DeleteEvent, Close, CloseBy, CloseNothing,
                        Erase, kernelVars, taskVars, historyVars
  <2> QED
    BY <1>2, <2>1, <2>2, <2>3, Zenon
<1> QED
  BY <1>4, <1>5, <1>6, <1>7, <1>8, <1>9, <1>10, <1>11, Zenon DEF Next, Dispatch

NoticeInv == TableInv /\ Noticed /\ Acceptable

LEMMA NoticeInit == Init => NoticeInv
<1> SUFFICES ASSUME Init PROVE NoticeInv
  OBVIOUS
<1>1. OneAcceptor /\ EntryFirst
  BY WorkersAreThreads, SMT DEF Init, OneAcceptor, EntryFirst
<1>2. \A f \in Fd : Watch(f) /\ Hears(f)
  BY SMT DEF Init, Watch, Hears
<1>3. Acceptable
  BY Zenon DEF Init, Acceptable
<1> QED
  BY <1>1, <1>2, <1>3, InvInit, Zenon DEF NoticeInv, Noticed

LEMMA NoticeStep == NoticeInv /\ [Next]_vars => NoticeInv'
<1> SUFFICES ASSUME NoticeInv, [Next]_vars PROVE NoticeInv'
  OBVIOUS
<1>1. TypeOK /\ Matches
  BY MatchParts, Zenon DEF NoticeInv, TableInv
<1>2. TableInv'
  BY InvStep, Zenon DEF NoticeInv
<1>3. Noticed'
  BY <1>1, NoticedStep, Zenon DEF NoticeInv
<1>4. Acceptable'
  BY <1>1, AcceptableStep, Zenon DEF NoticeInv
<1> QED
  BY <1>2, <1>3, <1>4, Zenon DEF NoticeInv

\* An end that is reported belongs to an open descriptor: it is watched, and
\* heard, or its acceptor or its closer is on the way.
LEMMA NoticeInvForgetsNobody == NoticeInv => NobodyForgotten
<1> SUFFICES ASSUME NoticeInv PROVE NobodyForgotten
  OBVIOUS
<1>1. ASSUME ~early, NEW f \in Fd
      PROVE  /\ sock[f] \in ended =>
                  f \in ready \/ At(f, {"create", "add", "clear", "delevent", "close"})
             /\ sock[f] \in unread =>
                  \/ f \in ready \/ reads[f] > 0
                  \/ At(f, {"create", "add", "read", "clear", "delevent", "close"})
  <2>1. sock[f] \in ended \cup unread => sock[f] # Free
    BY OpenIs, Zenon DEF NoticeInv, TableInv, TypeOK
  <2>2. Watch(f) /\ Hears(f)
    BY <1>1, Zenon DEF NoticeInv, Noticed
  <2> QED
    BY <2>1, <2>2, Zenon DEF Watch, Hears, At
<1>2. Acceptable
  BY Zenon DEF NoticeInv
<1> QED
  BY <1>1, <1>2, Zenon DEF NobodyForgotten, Acceptable

\* No connection that waits is forgotten, however the handlers interleave: the
\* safety that AllAccepted and EndedIsClosed rest on.
THEOREM TableForgetsNobody == Spec => []NobodyForgotten
<1> QED
  BY NoticeInit, NoticeStep, NoticeInvForgetsNobody, PTL DEF Spec
===============================================================================
