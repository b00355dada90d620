----------------------------- MODULE BSESession -----------------------------
(***************************************************************************)
(* The sessions of BSESimulator: which descriptors belong to which account *)
(* (SockLookup_ one way, ClientContext_ the other), login and disconnect,  *)
(* and the watch on an account's playback file that broadcasts the file to *)
(* the account's clients whenever it is written.                           *)
(*                                                                         *)
(* Data.  A connection is its rank of arrival; an account is its code, and *)
(* so is the inotify descriptor that its context watches its file with.    *)
(* Requests that change no state (logoff, query, a login that is refused)  *)
(* are left out.                                                           *)
(*                                                                         *)
(* Grain.  Both tables are looked at without ContextMutex_ by on_connect,  *)
(* on_disconnect, on_error and handle_file_notify: each look is a step, and*)
(* so is each critical section, but for the two calls within the first     *)
(* login that Run can see half of.  NetContext_ is in step with the        *)
(* descriptors here: module Connections has the detail.                    *)
(***************************************************************************)
EXTENDS Integers, FiniteSets

CONSTANTS
  Code,                     \* the configured accounts
  Monitored,                \* those with a playback file
  Fd,                       \* descriptors the kernel can hand out
  Worker,                   \* the pool's threads
  Loop,                     \* the thread in Run
  MaxConns,                 \* bound: connections ever made
  NoCode,                   \* -1: connected, not logged in
  None                      \* no entry; nobody holds ContextMutex_

ASSUME SessionAssumption ==
  /\ Monitored \subseteq Code
  /\ MaxConns \in Nat
  /\ Loop \notin Worker
  /\ NoCode \notin Code /\ None \notin Code /\ NoCode # None
  /\ None \notin Fd /\ None \notin Worker \cup {Loop}

Conn == 1 .. MaxConns
Free == 0                   \* no connection
Thread == Worker \cup {Loop}

VARIABLES
  sock,                     \* the connection behind each descriptor
  arrived,                  \* connections made so far
  ended,                    \* open connections the peer or a kick has ended
  watched,                  \* sockets in the epoll set
  reads,                    \* sockets with a handle_read waiting in the pool
  SockLookup_,              \* the account of each descriptor
  ClientContext_,           \* the accounts with a context
  clients_fd,               \* and the descriptors in it
  ContextMutex_,            \* who holds it between two steps
  inotify,                  \* accounts with a notify_fd, which is in the epoll set
  FdHandlers_,              \* accounts whose notify_fd has its handler
  modified,                 \* accounts with a write to report in notify_fd
  ready,                    \* notify_fds on epoll's ready list
  notifies,                 \* notify_fds with a handle_file_notify waiting
  pc, fd, ctxt, code, fd_set,  \* each thread: where it is, its locals (ctxt: handle_read)
  account,                  \* history: the accounts an open connection logged in to
  unheard,                  \* history: accounts with a write nobody was told of yet
  aborted                   \* the process is gone

socketVars == <<sock, arrived, ended, watched, reads>>
tableVars == <<SockLookup_, ClientContext_, clients_fd, ContextMutex_>>
notifyVars == <<inotify, FdHandlers_, modified, ready, notifies>>
localVars == <<fd, ctxt, code, fd_set>>
historyVars == <<account, unheard>>
vars == <<socketVars, tableVars, notifyVars, pc, localVars, historyVars, aborted>>

Goto(t, label) == pc' = [pc EXCEPT ![t] = label]

\* The locals go out of scope.
Leave(t) ==
  /\ Goto(t, "idle")
  /\ fd' = [fd EXCEPT ![t] = None]
  /\ ctxt' = [ctxt EXCEPT ![t] = Free]
  /\ code' = [code EXCEPT ![t] = NoCode]
  /\ fd_set' = [fd_set EXCEPT ![t] = {}]

\* A task for descriptor f begins.
Enter(t, label, f, c) ==
  /\ Goto(t, label)
  /\ fd' = [fd EXCEPT ![t] = f]
  /\ ctxt' = [ctxt EXCEPT ![t] = c]
  /\ UNCHANGED <<code, fd_set>>

Init ==
  /\ sock = [f \in Fd |-> Free]
  /\ arrived = 0
  /\ ended = {} /\ watched = {} /\ reads = {}
  /\ SockLookup_ = [f \in Fd |-> None]
  /\ ClientContext_ = {}
  /\ clients_fd = [a \in Code |-> {}]
  /\ ContextMutex_ = None
  /\ inotify = {} /\ FdHandlers_ = {} /\ modified = {} /\ ready = {} /\ notifies = {}
  /\ pc = [t \in Thread |-> "idle"]
  /\ fd = [t \in Thread |-> None]
  /\ ctxt = [t \in Thread |-> Free]
  /\ code = [t \in Thread |-> NoCode]
  /\ fd_set = [t \in Thread |-> {}]
  /\ account = [c \in Conn |-> {}]
  /\ unheard = {}
  /\ aborted = FALSE

-----------------------------------------------------------------------------
(* Those outside *)

\* The peer closes, or command_kick shuts the socket down.
End(c) ==
  /\ c \in {sock[f] : f \in Fd} \ ({Free} \cup ended)
  /\ ended' = ended \cup {c}
  /\ UNCHANGED <<sock, arrived, watched, reads, tableVars, notifyVars, pc, localVars,
                 historyVars, aborted>>

\* Somebody closes an account's file after writing to it.
WriteFile(a) ==
  /\ a \in inotify
  /\ modified' = modified \cup {a}
  /\ ready' = ready \cup {a}
  /\ UNCHANGED <<socketVars, tableVars, inotify, FdHandlers_, notifies, pc, localVars,
                 historyVars, aborted>>

-----------------------------------------------------------------------------
(* Run *)

DispatchRead(f) ==
  /\ pc[Loop] = "idle"
  /\ f \in watched
  /\ sock[f] \notin ended
  /\ reads' = reads \cup {f}
  /\ UNCHANGED <<sock, arrived, ended, watched, tableVars, notifyVars, pc, localVars,
                 historyVars, aborted>>

\* EPOLLRDHUP, EPOLLERR or EPOLLHUP.
RemoteClose(f) ==
  /\ pc[Loop] = "idle"
  /\ f \in watched
  /\ sock[f] \in ended
  /\ Enter(Loop, "lookup", f, Free)
  /\ UNCHANGED <<socketVars, tableVars, notifyVars, historyVars, aborted>>

\* A notify_fd that has no handler, yet, is taken for a socket: handle_read
\* finds no context for it, and the edge is spent.
DispatchNotify(a) ==
  /\ pc[Loop] = "idle"
  /\ a \in ready
  /\ ready' = ready \ {a}
  /\ IF a \in FdHandlers_
     THEN notifies' = notifies \cup {a} /\ UNCHANGED unheard
     ELSE unheard' = unheard \cup {a} /\ UNCHANGED notifies
  /\ UNCHANGED <<socketVars, tableVars, inotify, FdHandlers_, modified, pc, localVars, account,
                 aborted>>

-----------------------------------------------------------------------------
(* handle_accept *)

\* accept() and create_context.
Accept(w, f) ==
  /\ pc[w] = "idle"
  /\ arrived < MaxConns
  /\ sock[f] = Free
  /\ arrived' = arrived + 1
  /\ sock' = [sock EXCEPT ![f] = arrived + 1]
  /\ Enter(w, "connect", f, Free)
  /\ UNCHANGED <<ended, watched, reads, tableVars, notifyVars, historyVars, aborted>>

\* emplace leaves an entry that exists as it is.
OnConnect(w) ==
  /\ pc[w] = "connect"
  /\ SockLookup_' = [SockLookup_ EXCEPT ![fd[w]] = IF @ = None THEN NoCode ELSE @]
  /\ Goto(w, "add")
  /\ UNCHANGED <<socketVars, ClientContext_, clients_fd, ContextMutex_, notifyVars, localVars,
                 historyVars, aborted>>

\* add_event fails on a descriptor that is closed.
AddEvent(w) ==
  /\ pc[w] = "add"
  /\ watched' = IF sock[fd[w]] = Free THEN watched ELSE watched \cup {fd[w]}
  /\ Leave(w)
  /\ UNCHANGED <<sock, arrived, ended, reads, tableVars, notifyVars, historyVars, aborted>>

-----------------------------------------------------------------------------
(* handle_read *)

BeginRead(w, f) ==
  /\ pc[w] = "idle"
  /\ f \in reads
  /\ reads' = reads \ {f}
  /\ IF sock[f] = Free THEN Leave(w) ELSE Enter(w, "lock", f, sock[f])
  /\ UNCHANGED <<sock, arrived, ended, watched, tableVars, notifyVars, historyVars, aborted>>

\* The labels of handle_read under the r_mutex of the thread's context.
Reading == {"read", "login", "register", "join", "lookup", "drop", "close"}

Lock(w) ==
  /\ pc[w] = "lock"
  /\ \A v \in Worker \ {w} : ctxt[v] = ctxt[w] => pc[v] \notin Reading
  /\ Goto(w, "read")
  /\ UNCHANGED <<socketVars, tableVars, notifyVars, localVars, historyVars, aborted>>

\* process_data finds a login with the right password.
ReceiveLogin(w, a) ==
  /\ pc[w] = "read"
  /\ sock[fd[w]] # Free
  /\ account' = [account EXCEPT ![sock[fd[w]]] = @ \cup {a}]
  /\ code' = [code EXCEPT ![w] = a]
  /\ Goto(w, "login")
  /\ UNCHANGED <<socketVars, tableVars, notifyVars, fd, ctxt, fd_set, unheard, aborted>>

\* EAGAIN.
ReadAgain(w) ==
  /\ pc[w] = "read"
  /\ sock[fd[w]] \notin ended \cup {Free}
  /\ Leave(w)
  /\ UNCHANGED <<socketVars, tableVars, notifyVars, historyVars, aborted>>

\* 0 or an error.
ReadFails(w) ==
  /\ pc[w] = "read"
  /\ sock[fd[w]] \in ended \cup {Free}
  /\ Goto(w, "lookup")
  /\ UNCHANGED <<socketVars, tableVars, notifyVars, localVars, historyVars, aborted>>

-----------------------------------------------------------------------------
(* create_client_context *)

\* The descriptor joins the account, and SockLookup_ says so if it has an entry.
Join(w) ==
  /\ ClientContext_' = ClientContext_ \cup {code[w]}
  /\ clients_fd' = [clients_fd EXCEPT ![code[w]] = @ \cup {fd[w]}]
  /\ SockLookup_' = [SockLookup_ EXCEPT ![fd[w]] = IF @ = None THEN None ELSE code[w]]
  /\ ContextMutex_' = None
  /\ code' = [code EXCEPT ![w] = NoCode]
  /\ Goto(w, "read")

\* Nothing to watch, or watched already.
CreateContext(w) ==
  /\ pc[w] = "login"
  /\ ContextMutex_ = None
  /\ code[w] \in ClientContext_ \/ code[w] \notin Monitored
  /\ Join(w)
  /\ UNCHANGED <<socketVars, notifyVars, fd, ctxt, fd_set, historyVars, aborted>>

\* The first client of a monitored account, and inotify_init or
\* inotify_add_watch fails: both descriptors are 0, the context goes without a
\* handler, and nobody tries again while it exists.
WatchFails(w) ==
  /\ pc[w] = "login"
  /\ ContextMutex_ = None
  /\ code[w] \in Monitored \ ClientContext_
  /\ Join(w)
  /\ UNCHANGED <<socketVars, notifyVars, fd, ctxt, fd_set, historyVars, aborted>>

\* The first client of a monitored account: inotify_init, inotify_add_watch,
\* and registry_fd_handler's add_event.
WatchFile(w) ==
  /\ pc[w] = "login"
  /\ ContextMutex_ = None
  /\ code[w] \in Monitored \ ClientContext_
  /\ ContextMutex_' = w
  /\ inotify' = inotify \cup {code[w]}
  /\ Goto(w, "register")
  /\ UNCHANGED <<socketVars, SockLookup_, ClientContext_, clients_fd, FdHandlers_, modified,
                 ready, notifies, localVars, historyVars, aborted>>

\* registry_fd_handler's FdHandlers_.emplace.
RegisterHandler(w) ==
  /\ pc[w] = "register"
  /\ FdHandlers_' = FdHandlers_ \cup {code[w]}
  /\ Goto(w, "join")
  /\ UNCHANGED <<socketVars, tableVars, inotify, modified, ready, notifies, localVars,
                 historyVars, aborted>>

\* ClientContext_.emplace, and the rest.
CreateWatchedContext(w) ==
  /\ pc[w] = "join"
  /\ Join(w)
  /\ UNCHANGED <<socketVars, notifyVars, fd, ctxt, fd_set, historyVars, aborted>>

-----------------------------------------------------------------------------
(* on_disconnect and on_error, then clear_context_event *)

\* Mutant: end() is not looked for.
LookUpUnchecked(t) ==
  /\ pc[t] = "lookup"
  /\ Goto(t, "drop")
  /\ code' = [code EXCEPT ![t] = SockLookup_[fd[t]]]
  /\ UNCHANGED <<socketVars, tableVars, notifyVars, fd, ctxt, fd_set, historyVars, aborted>>

\* SockLookup_.find, without ContextMutex_.
LookUp(t) ==
  /\ pc[t] = "lookup"
  /\ IF SockLookup_[fd[t]] = None
     THEN Goto(t, "close") /\ UNCHANGED code
     ELSE Goto(t, "drop") /\ code' = [code EXCEPT ![t] = SockLookup_[fd[t]]]
  /\ UNCHANGED <<socketVars, tableVars, notifyVars, fd, ctxt, fd_set, historyVars, aborted>>

\* Mutant: SockLookup_ keeps its entry.
DropKeepsLookup(t) ==
  LET a == code[t]
      last == a \in ClientContext_ /\ clients_fd[a] = {fd[t]}
      gone == IF last THEN {a} ELSE {}
  IN /\ pc[t] = "drop"
     /\ ContextMutex_ = None
     /\ a \in ClientContext_ => fd[t] \in clients_fd[a]
     /\ clients_fd' = [b \in Code |-> IF b = a THEN clients_fd[b] \ {fd[t]} ELSE clients_fd[b]]
     /\ ClientContext_' = ClientContext_ \ gone
     /\ inotify' = inotify \ gone
     /\ FdHandlers_' = FdHandlers_ \ gone
     /\ modified' = modified \ gone
     /\ ready' = ready \ gone
     /\ notifies' = notifies \ gone
     /\ unheard' = unheard \ gone
     /\ code' = [code EXCEPT ![t] = NoCode]
     /\ Goto(t, "close")
     /\ UNCHANGED <<socketVars, SockLookup_, ContextMutex_, fd, ctxt, fd_set, account, aborted>>

\* clear_client_context, and the account has the descriptor, or no context.
\* With the last client the context goes, its watch, and what it had to report.
Drop(t) ==
  LET a == code[t]
      last == a \in ClientContext_ /\ clients_fd[a] = {fd[t]}
      gone == IF last THEN {a} ELSE {}
  IN /\ pc[t] = "drop"
     /\ ContextMutex_ = None
     /\ a \in ClientContext_ => fd[t] \in clients_fd[a]
     /\ clients_fd' = [b \in Code |-> IF b = a THEN clients_fd[b] \ {fd[t]} ELSE clients_fd[b]]
     /\ ClientContext_' = ClientContext_ \ gone
     /\ inotify' = inotify \ gone
     /\ FdHandlers_' = FdHandlers_ \ gone
     /\ modified' = modified \ gone
     /\ ready' = ready \ gone
     /\ notifies' = notifies \ gone
     /\ unheard' = unheard \ gone
     /\ SockLookup_' = [SockLookup_ EXCEPT ![fd[t]] = None]
     /\ code' = [code EXCEPT ![t] = NoCode]
     /\ Goto(t, "close")
     /\ UNCHANGED <<socketVars, ContextMutex_, fd, ctxt, fd_set, account, aborted>>

\* The account has a context, the descriptor is no longer in it: erase(end())
\* hands the set's own header to free(), which aborts.
DropAborts(t) ==
  /\ pc[t] = "drop"
  /\ ContextMutex_ = None
  /\ code[t] \in ClientContext_
  /\ fd[t] \notin clients_fd[code[t]]
  /\ aborted' = TRUE
  /\ UNCHANGED <<socketVars, tableVars, notifyVars, pc, localVars, historyVars>>

\* clear_context_event closes whatever has the number now.
Close(t) ==
  /\ pc[t] = "close"
  /\ sock' = [sock EXCEPT ![fd[t]] = Free]
  /\ ended' = ended \ {sock[fd[t]]}
  /\ watched' = watched \ {fd[t]}
  /\ account' = [c \in Conn |-> IF c = sock[fd[t]] THEN {} ELSE account[c]]
  /\ Leave(t)
  /\ UNCHANGED <<arrived, reads, tableVars, notifyVars, unheard, aborted>>

-----------------------------------------------------------------------------
(* handle_file_notify *)

\* Mutant: one event is read, and more are there.
HandleFileNotifyReadsOne(w, a) ==
  /\ pc[w] = "idle"
  /\ a \in notifies
  /\ notifies' = notifies \ {a}
  /\ IF a \in modified /\ a \in ClientContext_
     THEN /\ Goto(w, "send")
          /\ code' = [code EXCEPT ![w] = a]
          /\ fd_set' = [fd_set EXCEPT ![w] = clients_fd[a]]
          /\ unheard' = unheard \ {a}
          /\ UNCHANGED <<fd, ctxt>>
     ELSE /\ Leave(w)
          /\ unheard' = unheard \cup ({a} \cap modified)
  /\ UNCHANGED <<socketVars, tableVars, inotify, FdHandlers_, modified, ready, account, aborted>>

\* Read notify_fd until it is empty, and look for the account it belongs to;
\* send_for_account copies the account's descriptors.
HandleFileNotify(w, a) ==
  /\ pc[w] = "idle"
  /\ a \in notifies
  /\ notifies' = notifies \ {a}
  /\ modified' = modified \ {a}
  /\ IF a \in modified /\ a \in ClientContext_
     THEN /\ Goto(w, "send")
          /\ code' = [code EXCEPT ![w] = a]
          /\ fd_set' = [fd_set EXCEPT ![w] = clients_fd[a]]
          /\ unheard' = unheard \ {a}
          /\ UNCHANGED <<fd, ctxt>>
     ELSE /\ Leave(w)
          /\ unheard' = unheard \cup ({a} \cap modified)
  /\ UNCHANGED <<socketVars, tableVars, inotify, FdHandlers_, ready, account, aborted>>

\* send_data_all to one of them.
SendFile(w, f) ==
  /\ pc[w] = "send"
  /\ f \in fd_set[w]
  /\ IF fd_set[w] = {f}
     THEN Leave(w)
     ELSE /\ fd_set' = [fd_set EXCEPT ![w] = @ \ {f}]
          /\ UNCHANGED <<pc, fd, ctxt, code>>
  /\ UNCHANGED <<socketVars, tableVars, notifyVars, historyVars, aborted>>

-----------------------------------------------------------------------------

HandleAccept(w) == (\E f \in Fd : Accept(w, f)) \/ OnConnect(w) \/ AddEvent(w)

HandleLogin(w) ==
  \/ CreateContext(w)
  \/ WatchFails(w)
  \/ WatchFile(w)
  \/ RegisterHandler(w)
  \/ CreateWatchedContext(w)

HandleRead(w) ==
  \/ \E f \in Fd : BeginRead(w, f)
  \/ Lock(w)
  \/ \E a \in Code : ReceiveLogin(w, a)
  \/ HandleLogin(w)
  \/ ReadAgain(w)
  \/ ReadFails(w)

Disconnect(t) == LookUp(t) \/ Drop(t) \/ DropAborts(t) \/ Close(t)

Notify(w) ==
  \/ \E a \in Code : HandleFileNotify(w, a)
  \/ \E f \in Fd : SendFile(w, f)

Dispatch ==
  \/ \E f \in Fd : DispatchRead(f) \/ RemoteClose(f)
  \/ \E a \in Code : DispatchNotify(a)

Next ==
  /\ ~aborted
  /\ \/ \E c \in Conn : End(c)
     \/ \E a \in Code : WriteFile(a)
     \/ Dispatch
     \/ \E w \in Worker : HandleAccept(w) \/ HandleRead(w) \/ Notify(w)
     \/ \E t \in Thread : Disconnect(t)

Spec == Init /\ [][Next]_vars

-----------------------------------------------------------------------------
(* Properties *)

TypeOK ==
  /\ sock \in [Fd -> 0 .. arrived]
  /\ arrived \in 0 .. MaxConns
  /\ ended \subseteq 1 .. arrived /\ watched \subseteq Fd /\ reads \subseteq Fd
  /\ SockLookup_ \in [Fd -> Code \cup {NoCode, None}]
  /\ ClientContext_ \subseteq Code
  /\ clients_fd \in [Code -> SUBSET Fd]
  /\ ContextMutex_ \in Worker \cup {None}
  /\ inotify \subseteq Monitored /\ FdHandlers_ \subseteq Monitored
  /\ modified \subseteq inotify /\ ready \subseteq inotify /\ notifies \subseteq FdHandlers_
  /\ pc \in [Thread -> {"idle", "connect", "add", "lock", "read", "login", "register", "join",
                        "lookup", "drop", "close", "send"}]
  /\ fd \in [Thread -> Fd \cup {None}]
  /\ ctxt \in [Thread -> Conn \cup {Free}]
  /\ code \in [Thread -> Code \cup {NoCode}]
  /\ fd_set \in [Thread -> SUBSET Fd]
  /\ \A t \in Thread : pc[t] \notin {"idle", "send"} => fd[t] # None
  /\ account \in [Conn -> SUBSET Code]
  /\ unheard \subseteq Monitored
  /\ aborted \in BOOLEAN

\* The two tables and the watches agree, in spite of the looks outside the
\* mutex: a descriptor that SockLookup_ has in an account is one of the
\* account's clients, so a broadcast does not pass it over; a context exists
\* exactly while it has clients; and a notify_fd, where inotify gave one, is in
\* the epoll set just as long as its context is there and its handler with it.
TablesAgree ==
  /\ \A f \in Fd : SockLookup_[f] \in Code =>
       SockLookup_[f] \in ClientContext_ /\ f \in clients_fd[SockLookup_[f]]
  /\ \A a \in Code : a \in ClientContext_ <=> clients_fd[a] # {}
  /\ ClientContext_ \cap inotify \subseteq FdHandlers_
  /\ FdHandlers_ \subseteq inotify
  /\ ContextMutex_ = None => inotify \subseteq ClientContext_

\* A write to a watched file is on its way to the account's clients, or came
\* while the account's first client was being registered; then it is read with
\* the next one.
WriteOnItsWay == modified \subseteq ready \cup notifies \cup unheard

\* "need to monitor pb_file" (bse_server.cpp): a write to the file of an account
\* is seen as soon as the file is watched.
EveryWriteHeard == unheard = {}

\* "send to all fd in this account" (bse_server.cpp): a file is sent to nobody
\* who is not in its account.
SentWithinAccount ==
  \A w \in Worker : pc[w] = "send" =>
    \A f \in fd_set[w] : sock[f] # Free => code[w] \in account[sock[f]]

\* "[k fd] to kick a client" (bse_server.cpp): ending one client's connection
\* leaves the server running for the others.
KickSpares == ~aborted
=============================================================================
