-------------------------- MODULE BSESessionProofs --------------------------
(***************************************************************************)
(* The two tables of BSESimulator and its file watches agree, whatever the *)
(* accounts, descriptors and threads: each is changed under ContextMutex_, *)
(* and clear_client_context takes the descriptor out of SockLookup_ in the *)
(* same critical section, so a code that was looked up too early costs     *)
(* SockLookup_ an entry and never leaves one too many.                     *)
(***************************************************************************)
EXTENDS BSESession, TLAPS

\* The thread in create_client_context that has begun to watch a file holds
\* ContextMutex_; its account has no context yet, and is the only one that is
\* watched without one.
Registering ==
  /\ \A w \in Worker : ContextMutex_ = w <=> pc[w] \in {"register", "join"}
  /\ \A w \in Worker : pc[w] \in {"login", "register", "join", "send"} => code[w] \in Code
  /\ \A w \in Worker : pc[w] \in {"register", "join"} => code[w] \in inotify \ ClientContext_
  /\ \A w \in Worker : pc[w] = "join" => code[w] \in FdHandlers_
  /\ pc[Loop] \in {"idle", "lookup", "drop", "close"}
  /\ \A a \in inotify \ ClientContext_ :
       \E w \in Worker : ContextMutex_ = w /\ code[w] = a

SessionInv == TypeOK /\ TablesAgree /\ Registering

\* The part of TypeOK that is about the threads' locals.
Locals ==
  /\ pc \in [Thread -> {"idle", "connect", "add", "lock", "read", "login", "register", "join",
                        "lookup", "drop", "close", "send"}]
  /\ fd \in [Thread -> Fd \cup {None}]
  /\ ctxt \in [Thread -> Conn \cup {Free}]
  /\ code \in [Thread -> Code \cup {NoCode}]
  /\ fd_set \in [Thread -> SUBSET Fd]
  /\ \A t \in Thread : pc[t] \notin {"idle", "send"} => fd[t] # None

LEMMA LeaveLocals == ASSUME Locals, NEW t \in Thread, Leave(t) PROVE Locals'
  BY DEF Locals, Leave, Goto, Free

LEMMA EnterLocals ==
  ASSUME Locals, NEW t \in Thread, NEW f \in Fd, NEW c \in Conn, Enter(t, "lock", f, c)
  PROVE  Locals'
  BY SessionAssumption DEF Locals, Enter, Goto

LEMMA GotoLocals ==
  ASSUME Locals, NEW t \in Thread, NEW label, Goto(t, label),
         label \in {"idle", "connect", "add", "lock", "read", "login", "register", "join",
                   "lookup", "drop", "close", "send"},
         fd[t] # None \/ label = "send",
         fd' = fd, ctxt' = ctxt, code' \in [Thread -> Code \cup {NoCode}],
         fd_set' \in [Thread -> SUBSET Fd]
  PROVE  Locals'
  BY DEF Locals, Goto

LEMMA SessionTypeStep == SessionInv /\ Next => TypeOK'
<1> SUFFICES ASSUME SessionInv, Next PROVE TypeOK'
  OBVIOUS
<1>1. TypeOK /\ TablesAgree /\ Registering
  BY DEF SessionInv
<1>0. Locals
  BY <1>1 DEF TypeOK, Locals
<1>2. ASSUME NEW c \in Conn, End(c) PROVE TypeOK'
  BY <1>2, <1>1, SessionAssumption DEF End, TypeOK, Conn, Free, Thread, socketVars, tableVars,
     notifyVars, localVars, historyVars
<1>3. ASSUME NEW a \in Code, WriteFile(a) PROVE TypeOK'
  BY <1>3, <1>1, SessionAssumption DEF WriteFile, TypeOK, Conn, Free, Thread, socketVars,
     tableVars, notifyVars, localVars, historyVars
<1>4. ASSUME NEW f \in Fd, DispatchRead(f) PROVE TypeOK'
  BY <1>4, <1>1, SessionAssumption DEF DispatchRead, TypeOK, Conn, Free, Thread, socketVars,
     tableVars, notifyVars, localVars, historyVars
<1>5. ASSUME NEW f \in Fd, RemoteClose(f) PROVE TypeOK'
  BY <1>5, <1>1, SessionAssumption DEF RemoteClose, Enter, Goto, TypeOK, Conn, Free, Thread,
     socketVars, tableVars, notifyVars, localVars, historyVars
<1>6. ASSUME NEW a \in Code, DispatchNotify(a) PROVE TypeOK'
  BY <1>6, <1>1, SessionAssumption DEF DispatchNotify, TypeOK, Conn, Free, Thread, socketVars,
     tableVars, notifyVars, localVars, historyVars
<1>7. ASSUME NEW w \in Worker, NEW f \in Fd, Accept(w, f) PROVE TypeOK'
  BY <1>7, <1>1, SessionAssumption DEF Accept, Enter, Goto, TypeOK, Conn, Free, Thread,
     socketVars, tableVars, notifyVars, localVars, historyVars
<1>8. ASSUME NEW w \in Worker, OnConnect(w) PROVE TypeOK'
  BY <1>8, <1>1, SessionAssumption DEF OnConnect, Goto, TypeOK, Conn, Free, Thread,
     socketVars, tableVars, notifyVars, localVars, historyVars
<1>9. ASSUME NEW w \in Worker, AddEvent(w) PROVE TypeOK'
  BY <1>9, <1>1, SessionAssumption DEF AddEvent, Leave, Goto, TypeOK, Conn, Free, Thread,
     socketVars, tableVars, notifyVars, localVars, historyVars
<1>10. ASSUME NEW w \in Worker, NEW f \in Fd, BeginRead(w, f) PROVE TypeOK'
  <2>1. CASE sock[f] = Free
    BY <2>1, <1>10, <1>1, <1>0, LeaveLocals
       DEF BeginRead, TypeOK, Locals, Thread, tableVars, notifyVars, historyVars
  <2>2. CASE sock[f] # Free
    <3>1. sock[f] \in Conn
      BY <2>2, <1>1, SessionAssumption DEF TypeOK, Conn, Free
    <3>2. Locals'
      BY <3>1, <2>2, <1>10, <1>0, EnterLocals DEF BeginRead, Thread
    <3> QED
      BY <3>2, <1>10, <1>1
         DEF BeginRead, TypeOK, Locals, tableVars, notifyVars, historyVars
  <2> QED
    BY <2>1, <2>2
<1>11. ASSUME NEW w \in Worker, Lock(w) PROVE TypeOK'
  BY <1>11, <1>1, SessionAssumption DEF Lock, Goto, TypeOK, Conn, Free, Thread, socketVars,
     tableVars, notifyVars, localVars, historyVars
<1>12. ASSUME NEW w \in Worker, NEW a \in Code, ReceiveLogin(w, a) PROVE TypeOK'
  BY <1>12, <1>1, SessionAssumption DEF ReceiveLogin, Goto, TypeOK, Conn, Free, Thread,
     socketVars, tableVars, notifyVars, localVars, historyVars
<1>13. ASSUME NEW w \in Worker, Join(w), code[w] \in Code, fd[w] \in Fd, ctxt' = ctxt,
              fd' = fd, fd_set' = fd_set, UNCHANGED <<socketVars, notifyVars>>,
              UNCHANGED <<historyVars, aborted>>
       PROVE  TypeOK'
  <2>1. Locals'
    BY <1>13, <1>0, GotoLocals, SessionAssumption DEF Join, Locals, Thread
  <2>2. /\ SockLookup_' \in [Fd -> Code \cup {NoCode, None}]
        /\ ClientContext_' \subseteq Code
        /\ clients_fd' \in [Code -> SUBSET Fd]
        /\ ContextMutex_' \in Worker \cup {None}
    BY <1>13, <1>1 DEF Join, TypeOK
  <2> QED
    BY <2>1, <2>2, <1>13, <1>1
       DEF TypeOK, Locals, socketVars, notifyVars, historyVars
<1>25. ASSUME NEW w \in Worker, CreateContext(w) PROVE TypeOK'
  BY <1>25, <1>13, <1>1 DEF CreateContext, TypeOK, Registering, Thread, socketVars, notifyVars,
     historyVars
<1>26. ASSUME NEW w \in Worker, WatchFails(w) PROVE TypeOK'
  BY <1>26, <1>13, <1>1 DEF WatchFails, TypeOK, Registering, Thread, socketVars, notifyVars,
     historyVars
<1>14. ASSUME NEW w \in Worker, WatchFile(w) PROVE TypeOK'
  BY <1>14, <1>1, SessionAssumption DEF WatchFile, Goto, TypeOK, Conn, Free, Thread,
     socketVars, tableVars, notifyVars, localVars, historyVars
<1>15. ASSUME NEW w \in Worker, RegisterHandler(w) PROVE TypeOK'
  <2>1. Locals'
    BY <1>15, <1>0, GotoLocals DEF RegisterHandler, localVars, Locals, Thread
  <2> QED
    BY <2>1, <1>15, <1>1
       DEF RegisterHandler, TypeOK, Locals, Registering, socketVars, tableVars, historyVars
<1>16. ASSUME NEW w \in Worker, CreateWatchedContext(w) PROVE TypeOK'
  BY <1>16, <1>13, <1>1, SessionAssumption
     DEF CreateWatchedContext, TypeOK, Registering, Thread, socketVars, notifyVars, historyVars
<1>17. ASSUME NEW w \in Worker, ReadAgain(w) PROVE TypeOK'
  BY <1>17, <1>1, SessionAssumption DEF ReadAgain, Leave, Goto, TypeOK, Conn, Free, Thread,
     socketVars, tableVars, notifyVars, localVars, historyVars
<1>18. ASSUME NEW w \in Worker, ReadFails(w) PROVE TypeOK'
  BY <1>18, <1>1, SessionAssumption DEF ReadFails, Goto, TypeOK, Conn, Free, Thread,
     socketVars, tableVars, notifyVars, localVars, historyVars
<1>19. ASSUME NEW w \in Worker, NEW a \in Code, HandleFileNotify(w, a) PROVE TypeOK'
  <2>1. Locals' /\ unheard' \subseteq Monitored
    <3>1. CASE a \in modified /\ a \in ClientContext_
      <4>1. /\ code' \in [Thread -> Code \cup {NoCode}]
            /\ fd_set' \in [Thread -> SUBSET Fd]
        BY <3>1, <1>19, <1>1 DEF HandleFileNotify, TypeOK, Thread
      <4> QED
        BY <4>1, <3>1, <1>19, <1>1, <1>0, GotoLocals DEF HandleFileNotify, TypeOK, Thread
    <3>2. CASE ~(a \in modified /\ a \in ClientContext_)
      <4>1. Locals'
        BY <3>2, <1>19, <1>0, LeaveLocals DEF HandleFileNotify, Thread
      <4> QED
        BY <4>1, <3>2, <1>19, <1>1 DEF HandleFileNotify, TypeOK
    <3> QED
      BY <3>1, <3>2
  <2>2. notifies' = notifies \ {a} /\ modified' = modified \ {a}
    BY <1>19 DEF HandleFileNotify
  <2>3. UNCHANGED <<socketVars, tableVars, inotify, FdHandlers_, ready, account, aborted>>
    BY <1>19 DEF HandleFileNotify
  <2> QED
    BY <2>1, <2>2, <2>3, <1>1 DEF TypeOK, Locals, socketVars, tableVars
<1>20. ASSUME NEW w \in Worker, NEW f \in Fd, SendFile(w, f) PROVE TypeOK'
  <2>1. CASE fd_set[w] = {f}
    BY <2>1, <1>20, <1>1, <1>0, LeaveLocals
       DEF SendFile, TypeOK, Locals, Thread, socketVars, tableVars, notifyVars, historyVars
  <2>2. CASE fd_set[w] # {f}
    BY <2>2, <1>20, <1>1
       DEF SendFile, TypeOK, Thread, socketVars, tableVars, notifyVars, historyVars
  <2> QED
    BY <2>1, <2>2
<1>21. ASSUME NEW t \in Thread, LookUp(t) PROVE TypeOK'
  BY <1>21, <1>1, SessionAssumption DEF LookUp, Goto, TypeOK, Conn, Free, Thread, socketVars,
     tableVars, notifyVars, localVars, historyVars
<1>22. ASSUME NEW t \in Thread, Drop(t) PROVE TypeOK'
  BY <1>22, <1>1, SessionAssumption DEF Drop, Goto, TypeOK, Conn, Free, Thread, socketVars,
     tableVars, notifyVars, localVars, historyVars
<1>23. ASSUME NEW t \in Thread, DropAborts(t) PROVE TypeOK'
  BY <1>23, <1>1, SessionAssumption DEF DropAborts, TypeOK, Conn, Free, Thread, socketVars,
     tableVars, notifyVars, localVars, historyVars
<1>24. ASSUME NEW t \in Thread, Close(t) PROVE TypeOK'
  <2>1. Locals'
    BY <1>24, <1>0, LeaveLocals DEF Close
  <2>2. sock' \in [Fd -> 0 .. arrived'] /\ account' \in [Conn -> SUBSET Code]
    BY <1>24, <1>1 DEF Close, TypeOK, Free
  <2>3. UNCHANGED <<arrived, reads, tableVars, notifyVars, unheard, aborted>>
        /\ ended' \subseteq ended /\ watched' \subseteq watched
    BY <1>24 DEF Close
  <2> QED
    BY <2>1, <2>2, <2>3, <1>1 DEF TypeOK, Locals, tableVars, notifyVars
<1> QED
  BY <1>2, <1>3, <1>4, <1>5, <1>6, <1>7, <1>8, <1>9, <1>10, <1>11, <1>12, <1>25, <1>26, <1>14,
     <1>15, <1>16, <1>17, <1>18, <1>19, <1>20, <1>21, <1>22, <1>23, <1>24
     DEF Next, Dispatch, HandleAccept, HandleRead, HandleLogin, Notify, Disconnect, Thread

LEMMA SessionTablesStep == SessionInv /\ Next => TablesAgree'
<1> SUFFICES ASSUME SessionInv, Next PROVE TablesAgree'
  OBVIOUS
<1>1. TypeOK /\ TablesAgree /\ Registering
  BY DEF SessionInv
<1>2. CASE UNCHANGED <<tableVars, inotify, FdHandlers_>>
  BY <1>2, <1>1 DEF TablesAgree, tableVars
<1>3. ASSUME NEW w \in Worker, OnConnect(w) PROVE TablesAgree'
  BY <1>3, <1>1, SessionAssumption DEF OnConnect, Goto, TypeOK, TablesAgree, notifyVars, Thread
<1>4. ASSUME NEW w \in Worker, Join(w), code[w] \in Code, fd[w] \in Fd,
             inotify' = inotify, FdHandlers_' = FdHandlers_,
             code[w] \in inotify => code[w] \in FdHandlers_,
             \A a \in inotify \ ClientContext_ : a = code[w]
      PROVE  TablesAgree'
  <2>1. \A f \in Fd : SockLookup_'[f] \in Code =>
          SockLookup_'[f] \in ClientContext_' /\ f \in clients_fd'[SockLookup_'[f]]
  BY <1>4, <1>1, SessionAssumption DEF Join, TypeOK, TablesAgree
  <2>2. \A a \in Code : a \in ClientContext_' <=> clients_fd'[a] # {}
    BY <1>4, <1>1 DEF Join, TypeOK, TablesAgree
  <2>3. /\ ClientContext_' \cap inotify' \subseteq FdHandlers_'
        /\ FdHandlers_' \subseteq inotify'
        /\ inotify' \subseteq ClientContext_'
    BY <1>4, <1>1 DEF Join, TablesAgree
  <2> QED
    BY <2>1, <2>2, <2>3 DEF TablesAgree
<1>5. ASSUME NEW w \in Worker, CreateContext(w) PROVE TablesAgree'
  BY <1>5, <1>4, <1>1 DEF CreateContext, TypeOK, TablesAgree, Registering, Thread, notifyVars
<1>10. ASSUME NEW w \in Worker, WatchFails(w) PROVE TablesAgree'
  BY <1>10, <1>4, <1>1 DEF WatchFails, TypeOK, TablesAgree, Registering, Thread, notifyVars
<1>6. ASSUME NEW w \in Worker, CreateWatchedContext(w) PROVE TablesAgree'
  BY <1>6, <1>4, <1>1, SessionAssumption
     DEF CreateWatchedContext, TypeOK, TablesAgree, Registering, Thread, notifyVars
<1>7. ASSUME NEW w \in Worker, WatchFile(w) PROVE TablesAgree'
  BY <1>7, <1>1, SessionAssumption DEF WatchFile, Goto, TypeOK, TablesAgree, Thread
<1>8. ASSUME NEW w \in Worker, RegisterHandler(w) PROVE TablesAgree'
  BY <1>8, <1>1, SessionAssumption
     DEF RegisterHandler, Goto, TypeOK, TablesAgree, Registering, tableVars, Thread
<1>9. ASSUME NEW t \in Thread, Drop(t) PROVE TablesAgree'
  BY <1>9, <1>1, SessionAssumption DEF Drop, Goto, TypeOK, TablesAgree, Registering
<1> QED
  BY <1>2, <1>3, <1>5, <1>6, <1>7, <1>8, <1>9, <1>10
     DEF Next, Dispatch, HandleAccept, HandleRead, HandleLogin, Notify, Disconnect, End,
         WriteFile, DispatchRead, RemoteClose, DispatchNotify, Accept, AddEvent, BeginRead,
         Lock, ReceiveLogin, ReadAgain, ReadFails, HandleFileNotify, SendFile, LookUp,
         DropAborts, Close, notifyVars, tableVars

LEMMA SessionRegisteringStep == SessionInv /\ Next => Registering'
<1> SUFFICES ASSUME SessionInv, Next PROVE Registering'
  OBVIOUS
<1>1. TypeOK /\ TablesAgree /\ Registering
  BY DEF SessionInv
<1>2. ASSUME NEW c \in Conn, End(c) PROVE Registering'
  BY <1>2, <1>1, SessionAssumption DEF End, TypeOK, TablesAgree, Registering, Conn, Free,
     Thread, socketVars, tableVars, notifyVars, localVars, historyVars
<1>3. ASSUME NEW a \in Code, WriteFile(a) PROVE Registering'
  BY <1>3, <1>1, SessionAssumption DEF WriteFile, TypeOK, TablesAgree, Registering, Conn,
     Free, Thread, socketVars, tableVars, notifyVars, localVars, historyVars
<1>4. ASSUME NEW f \in Fd, DispatchRead(f) PROVE Registering'
  BY <1>4, <1>1, SessionAssumption DEF DispatchRead, TypeOK, TablesAgree, Registering, Conn,
     Free, Thread, socketVars, tableVars, notifyVars, localVars, historyVars
<1>5. ASSUME NEW f \in Fd, RemoteClose(f) PROVE Registering'
  BY <1>5, <1>1, SessionAssumption DEF RemoteClose, Enter, Goto, TypeOK, TablesAgree,
     Registering, Conn, Free, Thread, socketVars, tableVars, notifyVars, localVars, historyVars
<1>6. ASSUME NEW a \in Code, DispatchNotify(a) PROVE Registering'
  BY <1>6, <1>1, SessionAssumption DEF DispatchNotify, TypeOK, TablesAgree, Registering, Conn,
     Free, Thread, socketVars, tableVars, notifyVars, localVars, historyVars
<1>7. ASSUME NEW w \in Worker, NEW f \in Fd, Accept(w, f) PROVE Registering'
  BY <1>7, <1>1, SessionAssumption DEF Accept, Enter, Goto, TypeOK, TablesAgree, Registering,
     Conn, Free, Thread, socketVars, tableVars, notifyVars, localVars, historyVars
<1>8. ASSUME NEW w \in Worker, OnConnect(w) PROVE Registering'
  BY <1>8, <1>1, SessionAssumption DEF OnConnect, Goto, TypeOK, TablesAgree, Registering,
     Conn, Free, Thread, socketVars, tableVars, notifyVars, localVars, historyVars
<1>9. ASSUME NEW w \in Worker, AddEvent(w) PROVE Registering'
  BY <1>9, <1>1, SessionAssumption DEF AddEvent, Leave, Goto, TypeOK, TablesAgree,
     Registering, Conn, Free, Thread, socketVars, tableVars, notifyVars, localVars, historyVars
<1>10. ASSUME NEW w \in Worker, NEW f \in Fd, BeginRead(w, f) PROVE Registering'
  BY <1>10, <1>1, SessionAssumption DEF BeginRead, Leave, Enter, Goto, TypeOK, TablesAgree,
     Registering, Conn, Free, Thread, socketVars, tableVars, notifyVars, localVars, historyVars
<1>11. ASSUME NEW w \in Worker, Lock(w) PROVE Registering'
  BY <1>11, <1>1, SessionAssumption DEF Lock, Goto, TypeOK, TablesAgree, Registering, Conn,
     Free, Thread, socketVars, tableVars, notifyVars, localVars, historyVars
<1>12. ASSUME NEW w \in Worker, NEW a \in Code, ReceiveLogin(w, a) PROVE Registering'
  BY <1>12, <1>1, SessionAssumption DEF ReceiveLogin, Goto, TypeOK, TablesAgree, Registering,
     Conn, Free, Thread, socketVars, tableVars, notifyVars, localVars, historyVars
<1>13. ASSUME NEW w \in Worker, CreateContext(w) PROVE Registering'
  BY <1>13, <1>1, SessionAssumption DEF CreateContext, Join, Goto, TypeOK, TablesAgree,
     Registering, Conn, Free, Thread, socketVars, tableVars, notifyVars, localVars, historyVars
<1>25. ASSUME NEW w \in Worker, WatchFails(w) PROVE Registering'
  BY <1>25, <1>1, SessionAssumption DEF WatchFails, Join, Goto, TypeOK, TablesAgree,
     Registering, Conn, Free, Thread, socketVars, tableVars, notifyVars, localVars, historyVars
<1>14. ASSUME NEW w \in Worker, WatchFile(w) PROVE Registering'
  BY <1>14, <1>1, SessionAssumption DEF WatchFile, Goto, TypeOK, TablesAgree, Registering,
     Conn, Free, Thread, socketVars, tableVars, notifyVars, localVars, historyVars
<1>15. ASSUME NEW w \in Worker, RegisterHandler(w) PROVE Registering'
  BY <1>15, <1>1, SessionAssumption DEF RegisterHandler, Goto, TypeOK, TablesAgree,
     Registering, Conn, Free, Thread, socketVars, tableVars, notifyVars, localVars, historyVars
<1>16. ASSUME NEW w \in Worker, CreateWatchedContext(w) PROVE Registering'
  BY <1>16, <1>1, SessionAssumption DEF CreateWatchedContext, Join, Goto, TypeOK, TablesAgree,
     Registering, Conn, Free, Thread, socketVars, tableVars, notifyVars, localVars, historyVars
<1>17. ASSUME NEW w \in Worker, ReadAgain(w) PROVE Registering'
  BY <1>17, <1>1, SessionAssumption DEF ReadAgain, Leave, Goto, TypeOK, TablesAgree,
     Registering, Conn, Free, Thread, socketVars, tableVars, notifyVars, localVars, historyVars
<1>18. ASSUME NEW w \in Worker, ReadFails(w) PROVE Registering'
  BY <1>18, <1>1, SessionAssumption DEF ReadFails, Goto, TypeOK, TablesAgree, Registering,
     Conn, Free, Thread, socketVars, tableVars, notifyVars, localVars, historyVars
<1>19. ASSUME NEW w \in Worker, NEW a \in Code, HandleFileNotify(w, a) PROVE Registering'
  <2>1. CASE a \in modified /\ a \in ClientContext_
    BY <2>1, <1>19, <1>1, SessionAssumption
       DEF HandleFileNotify, Goto, TypeOK, Registering, Thread, tableVars
  <2>2. CASE ~(a \in modified /\ a \in ClientContext_)
    BY <2>2, <1>19, <1>1, SessionAssumption
       DEF HandleFileNotify, Leave, Goto, TypeOK, Registering, Thread, tableVars
  <2> QED
    BY <2>1, <2>2
<1>20. ASSUME NEW w \in Worker, NEW f \in Fd, SendFile(w, f) PROVE Registering'
  <2>1. CASE fd_set[w] = {f}
    BY <2>1, <1>20, <1>1, SessionAssumption
       DEF SendFile, Leave, Goto, TypeOK, Registering, Thread, tableVars, notifyVars
  <2>2. CASE fd_set[w] # {f}
    BY <2>2, <1>20, <1>1 DEF SendFile, TypeOK, Registering, Thread, tableVars, notifyVars
  <2> QED
    BY <2>1, <2>2
<1>21. ASSUME NEW t \in Thread, LookUp(t) PROVE Registering'
  <2>1. CASE SockLookup_[fd[t]] = None
    BY <2>1, <1>21, <1>1, SessionAssumption
       DEF LookUp, Goto, TypeOK, Registering, Thread, tableVars, notifyVars
  <2>2. CASE SockLookup_[fd[t]] # None
    BY <2>2, <1>21, <1>1, SessionAssumption
       DEF LookUp, Goto, TypeOK, Registering, Thread, tableVars, notifyVars
  <2> QED
    BY <2>1, <2>2
<1>22. ASSUME NEW t \in Thread, Drop(t) PROVE Registering'
  BY <1>22, <1>1, SessionAssumption DEF Drop, Goto, TypeOK, TablesAgree, Registering, Conn,
     Free, Thread, socketVars, tableVars, notifyVars, localVars, historyVars
<1>23. ASSUME NEW t \in Thread, DropAborts(t) PROVE Registering'
  BY <1>23, <1>1, SessionAssumption DEF DropAborts, TypeOK, TablesAgree, Registering, Conn,
     Free, Thread, socketVars, tableVars, notifyVars, localVars, historyVars
<1>24. ASSUME NEW t \in Thread, Close(t) PROVE Registering'
  BY <1>24, <1>1, SessionAssumption DEF Close, Leave, Goto, TypeOK, TablesAgree, Registering,
     Conn, Free, Thread, socketVars, tableVars, notifyVars, localVars, historyVars
<1> QED
  BY <1>2, <1>3, <1>4, <1>5, <1>6, <1>7, <1>8, <1>9, <1>10, <1>11, <1>12, <1>13, <1>25, <1>14,
     <1>15, <1>16, <1>17, <1>18, <1>19, <1>20, <1>21, <1>22, <1>23, <1>24
     DEF Next, Dispatch, HandleAccept, HandleRead, HandleLogin, Notify, Disconnect, Thread

LEMMA SessionInductive == SessionInv /\ [Next]_vars => SessionInv'
<1>1. SessionInv /\ Next => SessionInv'
  BY SessionTypeStep, SessionTablesStep, SessionRegisteringStep DEF SessionInv
<1>2. SessionInv /\ UNCHANGED vars => SessionInv'
  BY DEF SessionInv, TypeOK, TablesAgree, Registering, vars, socketVars, tableVars, notifyVars,
         localVars, historyVars
<1> QED
  BY <1>1, <1>2

LEMMA SessionInit == Init => SessionInv
<1> SUFFICES ASSUME Init PROVE SessionInv
  OBVIOUS
<1>1. Locals
  BY SessionAssumption DEF Init, Locals, Conn, Free, Thread
<1>2. TypeOK
  <2>1. /\ arrived \in 0 .. MaxConns
        /\ sock \in [Fd -> 0 .. arrived]
    BY SessionAssumption DEF Init, Free
  <2> QED
    BY <1>1, <2>1, SessionAssumption DEF Init, TypeOK, Locals, Conn
<1>3. TablesAgree
  BY SessionAssumption DEF Init, TablesAgree
<1>4. Registering
  BY SessionAssumption DEF Init, Registering, Thread
<1> QED
  BY <1>2, <1>3, <1>4 DEF SessionInv

\* SockLookup_, ClientContext_ and the file watches agree in every reachable
\* state, however logins, disconnects and closings of the same number interleave,
\* and whichever watches inotify refuses (bse_server.cpp:32, 40).
THEOREM SessionTables == Spec => [](TypeOK /\ TablesAgree)
<1>1. SessionInv => TypeOK /\ TablesAgree
  BY DEF SessionInv
<1> QED
  BY SessionInit, SessionInductive, <1>1, PTL DEF Spec

\* A write to a watched file is never forgotten on its way: it is on epoll's
\* list, in a task, or among those that met no account (bse_server.cpp:566).
THEOREM SessionWrites == Spec => []WriteOnItsWay
<1>1. Init => WriteOnItsWay
  BY DEF Init, WriteOnItsWay
<1>2. WriteOnItsWay /\ [Next]_vars => WriteOnItsWay'
  <2> SUFFICES ASSUME WriteOnItsWay, [Next]_vars PROVE WriteOnItsWay'
    OBVIOUS
  <2>1. CASE UNCHANGED <<modified, ready, notifies, unheard>>
    BY <2>1, SMT DEF WriteOnItsWay
  <2>2. ASSUME NEW a \in Code, WriteFile(a) PROVE WriteOnItsWay'
    BY <2>2, SMT DEF WriteFile, WriteOnItsWay, notifyVars, historyVars
  <2>3. ASSUME NEW a \in Code, DispatchNotify(a) PROVE WriteOnItsWay'
    BY <2>3, SMT DEF DispatchNotify, WriteOnItsWay
  <2>4. ASSUME NEW t \in Thread, Drop(t) PROVE WriteOnItsWay'
    BY <2>4, SMT DEF Drop, WriteOnItsWay
  <2>5. ASSUME NEW w \in Worker, NEW a \in Code, HandleFileNotify(w, a) PROVE WriteOnItsWay'
    BY <2>5, SMT DEF HandleFileNotify, WriteOnItsWay
  <2>6. CASE UNCHANGED <<notifyVars, historyVars>>
    BY <2>1, <2>6, SMT DEF notifyVars, historyVars
  <2>7. ASSUME NEW w \in Worker,
               HandleAccept(w) \/ HandleRead(w) \/ (\E f \in Fd : SendFile(w, f))
        PROVE  UNCHANGED <<modified, ready, notifies, unheard>>
    BY <2>7, SMT DEF HandleAccept, Accept, OnConnect, AddEvent, HandleRead, BeginRead, Lock,
           ReceiveLogin, HandleLogin, CreateContext, WatchFails, WatchFile, RegisterHandler,
           CreateWatchedContext, ReadAgain, ReadFails, SendFile, notifyVars, historyVars
  <2>8. ASSUME NEW t \in Thread, LookUp(t) \/ DropAborts(t) \/ Close(t)
        PROVE  UNCHANGED <<modified, ready, notifies, unheard>>
    BY <2>8, SMT DEF LookUp, DropAborts, Close, notifyVars, historyVars
  <2>9. ASSUME NEW f \in Fd, DispatchRead(f) \/ RemoteClose(f)
        PROVE  UNCHANGED <<modified, ready, notifies, unheard>>
    BY <2>9, SMT DEF DispatchRead, RemoteClose, notifyVars, historyVars
  <2>10. ASSUME NEW c \in Conn, End(c)
         PROVE  UNCHANGED <<modified, ready, notifies, unheard>>
    BY <2>10, SMT DEF End, notifyVars, historyVars
  <2>11. CASE UNCHANGED vars
    BY <2>1, <2>11, SMT DEF vars, notifyVars, historyVars
  <2> QED
    BY <2>1, <2>2, <2>3, <2>4, <2>5, <2>7, <2>8, <2>9, <2>10, <2>11, Zenon
       DEF Next, Dispatch, Notify, Disconnect
<1> QED
  BY <1>1, <1>2, PTL DEF Spec
=============================================================================
