---------------------------- MODULE Connections ----------------------------
(***************************************************************************)
(* The table of connections, NetContext_, and everybody who adds to it or  *)
(* takes from it: handle_accept in the pool, Run on EPOLLRDHUP, and        *)
(* handle_read in the pool when read() fails.  A descriptor is only a      *)
(* number: once closed, the kernel gives it to the next connection, while  *)
(* tasks committed for the old one, and threads in the middle of clearing  *)
(* it, still hold the number.                                              *)
(*                                                                         *)
(* Data.  A connection is its rank of arrival; of its input only whether   *)
(* some is unread and whether the peer has ended it.                       *)
(*                                                                         *)
(* Grain.  A step ends at each system call, at each look at NetContext_    *)
(* without ContextMutex_, and between close() and erase(), which           *)
(* delete_context makes under ContextMutex_.                               *)
(***************************************************************************)
EXTENDS Integers, FiniteSets

CONSTANTS
  Fd,                       \* descriptors the kernel can hand out
  Worker,                   \* the pool's threads
  Loop,                     \* the thread in Run
  MaxConns,                 \* bound: connections ever made
  MaxQueued,                \* bound: tasks of one kind waiting in the pool
  Talker,                   \* bound: the connections that send anything
  None                      \* no descriptor; nobody holds ContextMutex_

ASSUME ConnectionAssumption ==
  /\ MaxConns \in Nat
  /\ MaxQueued \in Nat \ {0}
  /\ Loop \notin Worker
  /\ None \notin Fd /\ None \notin Worker \cup {Loop}

Conn == 1 .. MaxConns
Free == 0                   \* no connection
Thread == Worker \cup {Loop}

VARIABLES
  sock,                     \* kernel: the connection behind each descriptor
  watched,                  \* kernel: descriptors in the epoll set
  ready,                    \* kernel: descriptors on the ready list
  arrived,                  \* connections that reached the listening socket
  backlog,                  \* connections waiting for accept()
  incoming,                 \* kernel: the listening socket is on the ready list
  sent,                     \* connections that have sent their input (bound: once each)
  unread,                   \* connections with input waiting
  ended,                    \* connections the peer has closed or reset
  NetContext_,              \* the table: the connection each entry was made for
  ContextMutex_,            \* who holds it between two steps
  accepts,                  \* handle_accept tasks waiting in the pool
  reads,                    \* handle_read tasks waiting, by descriptor
  pc, fd, ctxt,             \* each thread: where it is, its locals
  wronged,                  \* history: a connection was closed in place of another
  mixed,                    \* history: input read into another connection's context
  early,                    \* history: add_event watched the number's next owner
  exhausted                 \* history: accept() found no free descriptor

kernelVars == <<sock, watched, ready, arrived, backlog, incoming, sent, unread, ended>>
tableVars == <<NetContext_, ContextMutex_>>
taskVars == <<accepts, reads>>
threadVars == <<pc, fd, ctxt>>
historyVars == <<wronged, mixed, early, exhausted>>
vars == <<kernelVars, tableVars, taskVars, threadVars, historyVars>>

Goto(t, label) == pc' = [pc EXCEPT ![t] = label] /\ UNCHANGED <<fd, ctxt>>

\* Go to the label with these locals.
Take(t, label, f, c) ==
  /\ pc' = [pc EXCEPT ![t] = label]
  /\ fd' = [fd EXCEPT ![t] = f]
  /\ ctxt' = [ctxt EXCEPT ![t] = c]

\* The locals go out of scope.
Leave(t) == Take(t, "idle", None, Free)

Init ==
  /\ sock = [f \in Fd |-> Free]
  /\ watched = {} /\ ready = {}
  /\ arrived = 0
  /\ backlog = {} /\ incoming = FALSE /\ sent = {} /\ unread = {} /\ ended = {}
  /\ NetContext_ = [f \in Fd |-> Free]
  /\ ContextMutex_ = None
  /\ accepts = 0
  /\ reads = [f \in Fd |-> 0]
  /\ pc = [t \in Thread |-> "idle"]
  /\ fd = [t \in Thread |-> None]
  /\ ctxt = [t \in Thread |-> Free]
  /\ wronged = FALSE
  /\ mixed = FALSE
  /\ early = FALSE
  /\ exhausted = FALSE

\* Descriptors of connection c whose arrival epoll is to report.
Notify(c) == {f \in watched : sock[f] = c}

-----------------------------------------------------------------------------
(* The peers *)

Connect ==
  /\ arrived < MaxConns
  /\ arrived' = arrived + 1
  /\ backlog' = backlog \cup {arrived + 1}
  /\ incoming' = TRUE
  /\ UNCHANGED <<sock, watched, ready, sent, unread, ended, tableVars, taskVars, threadVars,
                 historyVars>>

\* The connections of the kernel, waiting or accepted.
Open == (backlog \cup {sock[f] : f \in Fd}) \ {Free}

Send(c) ==
  /\ c \in Talker /\ c \in Open \ (ended \cup sent)
  /\ sent' = sent \cup {c}
  /\ unread' = unread \cup {c}
  /\ ready' = ready \cup Notify(c)
  /\ UNCHANGED <<sock, watched, arrived, backlog, incoming, ended, tableVars, taskVars,
                 threadVars, historyVars>>

End(c) ==
  /\ c \in Open \ ended
  /\ ended' = ended \cup {c}
  /\ ready' = ready \cup Notify(c)
  /\ UNCHANGED <<sock, watched, arrived, sent, backlog, incoming, unread, tableVars, taskVars,
                 threadVars, historyVars>>

-----------------------------------------------------------------------------
(* Run, the thread Loop *)

\* The listening socket's handler, unless there is nothing to accept any more.
DispatchAccept ==
  /\ pc[Loop] = "idle"
  /\ incoming
  /\ incoming' = FALSE
  /\ IF backlog # {}
     THEN accepts < MaxQueued /\ accepts' = accepts + 1
     ELSE UNCHANGED accepts
  /\ UNCHANGED <<sock, watched, ready, arrived, sent, backlog, unread, ended, tableVars, reads,
                 threadVars, historyVars>>

\* EPOLLRDHUP: on_epoll_rdhup, then clear_context_event in this thread.
RemoteClose(f) ==
  /\ pc[Loop] = "idle"
  /\ f \in ready
  /\ sock[f] \in ended
  /\ ready' = ready \ {f}
  /\ Take(Loop, "clear", f, sock[f])
  /\ UNCHANGED <<sock, watched, arrived, sent, backlog, incoming, unread, ended, tableVars, taskVars,
                 historyVars>>

\* EPOLLIN, or an event that is gone when epoll_wait looks.
DispatchRead(f) ==
  /\ pc[Loop] = "idle"
  /\ f \in ready
  /\ sock[f] \notin ended
  /\ ready' = ready \ {f}
  /\ IF sock[f] \in unread
     THEN reads[f] < MaxQueued /\ reads' = [reads EXCEPT ![f] = @ + 1]
     ELSE UNCHANGED reads
  /\ UNCHANGED <<sock, watched, arrived, sent, backlog, incoming, unread, ended, tableVars, accepts,
                 threadVars, historyVars>>

-----------------------------------------------------------------------------
(* handle_accept *)

BeginAccept(w) ==
  /\ pc[w] = "idle"
  /\ accepts > 0
  /\ accepts' = accepts - 1
  /\ Goto(w, "accept")
  /\ UNCHANGED <<kernelVars, tableVars, reads, historyVars>>

\* Mutant: add_event comes before create_context.
AcceptAndWatch(w, c, f) ==
  /\ pc[w] = "accept"
  /\ c \in backlog
  /\ sock[f] = Free
  /\ backlog' = backlog \ {c}
  /\ sock' = [sock EXCEPT ![f] = c]
  /\ watched' = watched \cup {f}
  /\ ready' = IF c \in unread \cup ended THEN ready \cup {f} ELSE ready
  /\ Take(w, "create", f, c)
  /\ UNCHANGED <<arrived, sent, incoming, unread, ended, tableVars, taskVars, historyVars>>

\* accept() returns a descriptor that is free.
Accept(w, c, f) ==
  /\ pc[w] = "accept"
  /\ c \in backlog
  /\ sock[f] = Free
  /\ backlog' = backlog \ {c}
  /\ sock' = [sock EXCEPT ![f] = c]
  /\ Take(w, "create", f, c)
  /\ UNCHANGED <<watched, ready, arrived, sent, incoming, unread, ended, tableVars, taskVars,
                 historyVars>>

\* EMFILE: the loop is left too, and the connections stay where they are.
AcceptFails(w) ==
  /\ pc[w] = "accept"
  /\ backlog # {}
  /\ \A f \in Fd : sock[f] # Free
  /\ exhausted' = TRUE
  /\ Leave(w)
  /\ UNCHANGED <<kernelVars, tableVars, taskVars, wronged, mixed, early>>

\* EAGAIN: all are accepted.
AcceptAgain(w) ==
  /\ pc[w] = "accept"
  /\ backlog = {}
  /\ Leave(w)
  /\ UNCHANGED <<kernelVars, tableVars, taskVars, historyVars>>

\* create_context: emplace leaves an entry that exists as it is.
CreateContext(w) ==
  /\ pc[w] = "create"
  /\ ContextMutex_ = None
  /\ NetContext_' = IF NetContext_[fd[w]] = Free
                    THEN [NetContext_ EXCEPT ![fd[w]] = ctxt[w]]
                    ELSE NetContext_
  /\ Goto(w, "add")
  /\ UNCHANGED <<kernelVars, ContextMutex_, taskVars, historyVars>>

\* Mutant: handle_accept accepts once for each event.
AddEventOnce(w) ==
  LET f == fd[w]
  IN /\ pc[w] = "add"
     /\ IF sock[f] = Free \/ f \in watched
        THEN UNCHANGED <<watched, ready, early>>
        ELSE /\ watched' = watched \cup {f}
             /\ ready' = IF sock[f] \in unread \cup ended THEN ready \cup {f} ELSE ready
             /\ early' = (early \/ sock[f] # ctxt[w])
     /\ Leave(w)
     /\ UNCHANGED <<sock, arrived, sent, backlog, incoming, unread, ended, tableVars, taskVars,
                    wronged, mixed, exhausted>>

\* add_event, after on_connect: reports what is there already; it fails on a
\* descriptor that is closed, or watched already.
AddEvent(w) ==
  LET f == fd[w]
  IN /\ pc[w] = "add"
     /\ IF sock[f] = Free \/ f \in watched
        THEN UNCHANGED <<watched, ready, early>>
        ELSE /\ watched' = watched \cup {f}
             /\ ready' = IF sock[f] \in unread \cup ended THEN ready \cup {f} ELSE ready
             /\ early' = (early \/ sock[f] # ctxt[w])
     /\ Take(w, "accept", None, Free)
     /\ UNCHANGED <<sock, arrived, sent, backlog, incoming, unread, ended, tableVars, taskVars,
                    wronged, mixed, exhausted>>

-----------------------------------------------------------------------------
(* handle_read *)

\* Mutant: a null context is not looked for.
BeginReadUnchecked(w, f) ==
  /\ pc[w] = "idle"
  /\ reads[f] > 0
  /\ reads' = [reads EXCEPT ![f] = @ - 1]
  /\ Take(w, "read", f, NetContext_[f])
  /\ UNCHANGED <<kernelVars, tableVars, accepts, historyVars>>

\* get_context, without ContextMutex_; the task knows the number only.
BeginRead(w, f) ==
  /\ pc[w] = "idle"
  /\ reads[f] > 0
  /\ reads' = [reads EXCEPT ![f] = @ - 1]
  /\ IF NetContext_[f] = Free THEN Leave(w) ELSE Take(w, "read", f, NetContext_[f])
  /\ UNCHANGED <<kernelVars, tableVars, accepts, historyVars>>

\* read() takes what there is, from whichever connection has the number now.
ReadBytes(w) ==
  LET c == sock[fd[w]]
  IN /\ pc[w] = "read"
     /\ c \in unread
     /\ unread' = unread \ {c}
     /\ mixed' = (mixed \/ c # ctxt[w])
     /\ UNCHANGED <<sock, watched, ready, arrived, sent, backlog, incoming, ended, tableVars,
                    taskVars, threadVars, wronged, early, exhausted>>

\* EAGAIN.
ReadAgain(w) ==
  /\ pc[w] = "read"
  /\ sock[fd[w]] # Free
  /\ sock[fd[w]] \notin unread \cup ended
  /\ Leave(w)
  /\ UNCHANGED <<kernelVars, tableVars, taskVars, historyVars>>

\* 0, or an error: on_disconnect or on_error, then clear_context_event.
ReadFails(w) ==
  /\ pc[w] = "read"
  /\ sock[fd[w]] = Free \/ sock[fd[w]] \in ended \ unread
  /\ Goto(w, "clear")
  /\ UNCHANGED <<kernelVars, tableVars, taskVars, historyVars>>

-----------------------------------------------------------------------------
(* clear_context_event, by a worker or by Run *)

\* get_context: "clear already done in other thread".
Clear(t) ==
  /\ pc[t] = "clear"
  /\ IF NetContext_[fd[t]] = Free THEN Leave(t) ELSE Goto(t, "delevent")
  /\ UNCHANGED <<kernelVars, tableVars, taskVars, historyVars>>

DeleteEvent(t) ==
  /\ pc[t] = "delevent"
  /\ watched' = watched \ {fd[t]}
  /\ ready' = ready \ {fd[t]}
  /\ Goto(t, "close")
  /\ UNCHANGED <<sock, arrived, sent, backlog, incoming, unread, ended, tableVars, taskVars,
                 historyVars>>

\* The effect of shutdown() and close() by thread t.
CloseBy(t) ==
  LET f == fd[t]
  IN /\ sock' = [sock EXCEPT ![f] = Free]
     /\ watched' = watched \ {f}
     /\ ready' = ready \ {f}
     /\ unread' = unread \ {sock[f]}
     /\ ended' = ended \ {sock[f]}
     /\ wronged' = (wronged \/ sock[f] \notin {Free, ctxt[t]})
     /\ UNCHANGED <<arrived, sent, backlog, incoming>>

\* Mutant: delete_context does not look again.
CloseUnchecked(t) ==
  /\ pc[t] = "close"
  /\ ContextMutex_ = None
  /\ ContextMutex_' = t
  /\ CloseBy(t)
  /\ Goto(t, "erase")
  /\ UNCHANGED <<NetContext_, taskVars, mixed, early, exhausted>>

\* delete_context takes ContextMutex_ and finds the entry.
Close(t) ==
  /\ pc[t] = "close"
  /\ ContextMutex_ = None
  /\ NetContext_[fd[t]] # Free
  /\ ContextMutex_' = t
  /\ CloseBy(t)
  /\ Goto(t, "erase")
  /\ UNCHANGED <<NetContext_, taskVars, mixed, early, exhausted>>

\* delete_context finds that another thread was first.
CloseNothing(t) ==
  /\ pc[t] = "close"
  /\ ContextMutex_ = None
  /\ NetContext_[fd[t]] = Free
  /\ Leave(t)
  /\ UNCHANGED <<kernelVars, tableVars, taskVars, historyVars>>

Erase(t) ==
  /\ pc[t] = "erase"
  /\ NetContext_' = [NetContext_ EXCEPT ![fd[t]] = Free]
  /\ ContextMutex_' = None
  /\ Leave(t)
  /\ UNCHANGED <<kernelVars, taskVars, historyVars>>

-----------------------------------------------------------------------------

ClearContextEvent(t) ==
  Clear(t) \/ DeleteEvent(t) \/ Close(t) \/ CloseNothing(t) \/ Erase(t)

HandleAccept(w) ==
  \/ BeginAccept(w)
  \/ \E c \in Conn, f \in Fd : Accept(w, c, f)
  \/ AcceptFails(w)
  \/ AcceptAgain(w)
  \/ CreateContext(w)
  \/ AddEvent(w)

HandleRead(w) ==
  \/ \E f \in Fd : BeginRead(w, f)
  \/ ReadBytes(w)
  \/ ReadAgain(w)
  \/ ReadFails(w)

Dispatch == DispatchAccept \/ \E f \in Fd : RemoteClose(f) \/ DispatchRead(f)

Next ==
  \/ Connect
  \/ \E c \in Conn : Send(c) \/ End(c)
  \/ Dispatch
  \/ \E w \in Worker : HandleAccept(w) \/ HandleRead(w)
  \/ \E t \in Thread : ClearContextEvent(t)

Spec == Init /\ [][Next]_vars

\* Run and the pool's threads run.
FairSpec ==
  /\ Spec
  /\ WF_vars(Dispatch \/ ClearContextEvent(Loop))
  /\ \A w \in Worker : WF_vars(HandleAccept(w) \/ HandleRead(w) \/ ClearContextEvent(w))

-----------------------------------------------------------------------------
(* Properties *)

\* Types, and a thread that works on a descriptor has a connection's context.
TypeOK ==
  /\ sock \in [Fd -> Conn \cup {Free}]
  /\ watched \subseteq Fd /\ ready \subseteq watched
  /\ arrived \in 0 .. MaxConns
  /\ backlog \subseteq 1 .. arrived /\ sent \subseteq 1 .. arrived
  /\ unread \subseteq Open /\ ended \subseteq Open
  /\ NetContext_ \in [Fd -> Conn \cup {Free}]
  /\ ContextMutex_ \in Thread \cup {None}
  /\ accepts \in 0 .. MaxQueued
  /\ reads \in [Fd -> 0 .. MaxQueued]
  /\ pc \in [Thread -> {"idle", "accept", "create", "add", "read", "clear", "delevent",
                        "close", "erase"}]
  /\ fd \in [Thread -> Fd \cup {None}]
  /\ ctxt \in [Thread -> Conn \cup {Free}]
  /\ \A t \in Thread : pc[t] \notin {"idle", "accept"} => fd[t] # None /\ ctxt[t] # Free
  /\ incoming \in BOOLEAN /\ wronged \in BOOLEAN /\ mixed \in BOOLEAN
  /\ early \in BOOLEAN /\ exhausted \in BOOLEAN

\* The acceptor of a descriptor that has no entry yet.
Creating(f) == {w \in Worker : pc[w] = "create" /\ fd[w] = f}
Erasing(f) == {t \in Thread : pc[t] = "erase" /\ fd[t] = f}

\* The table agrees with the kernel.  An entry was made for the connection
\* that has the descriptor now, but for the moment between close() and erase();
\* an open connection has its entry, but for the moment between accept() and
\* create_context, and there is one such acceptor.  So create_context never
\* finds an old entry in its way, though the number may be given out again
\* before the old entry is erased: ContextMutex_ spans both.
TableMatchesKernel ==
  /\ \A f \in Fd : NetContext_[f] # Free /\ Erasing(f) = {} => sock[f] = NetContext_[f]
  /\ \A f \in Fd : sock[f] # Free /\ NetContext_[f] # sock[f] =>
       \E w \in Creating(f) : ctxt[w] = sock[f]
  /\ \A w \in Worker : pc[w] = "create" => sock[fd[w]] = ctxt[w]
  /\ \A t \in Thread : pc[t] = "erase" <=> ContextMutex_ = t

\* Some thread is at one of the labels with descriptor f.
At(f, labels) == \E t \in Thread : fd[t] = f /\ pc[t] \in labels

\* Somebody is to come for every connection that waits.  For one in the backlog
\* the event, a task, or a worker that will look again; for one the peer has
\* ended, or that has sent, the event, a task, or a thread that is to watch the
\* descriptor, to read it, or to clear it: the handlers take an edge-triggered
\* event once, and get_context may tell the one who took it that the entry is
\* not there.
NobodyForgotten ==
  /\ backlog # {} => \/ incoming \/ accepts > 0 \/ exhausted
                     \/ \E w \in Worker : pc[w] \in {"accept", "create", "add"}
  /\ ~early => \A f \in Fd :
       /\ sock[f] \in ended =>
            f \in ready \/ At(f, {"create", "add", "clear", "delevent", "close"})
       /\ sock[f] \in unread =>
            \/ f \in ready \/ reads[f] > 0
            \/ At(f, {"create", "add", "read", "clear", "delevent", "close"})

\* A connection the peer has ended gives its descriptor back: the last event,
\* or a failing read, reaches clear_context_event.  Only once a late acceptor
\* has watched the next owner of its number can one be left open for ever: its
\* one event comes before its entry, and clears nothing.
EndedIsClosed ==
  \A c \in Conn : c \in ended \ backlog ~> early \/ \A f \in Fd : sock[f] # c

\* A connection that reached the listening socket is accepted, unless the
\* descriptors run out: several arrivals may share one event and several
\* handle_accept may run at once, so each accepts until EAGAIN.
AllAccepted == \A c \in Conn : c \in backlog ~> c \notin backlog \/ exhausted

\* "clear already done in other thread" (epoll_net.cpp): a thread that clears a
\* connection another thread has cleared does nothing.
ClearsItsOwn == ~wronged

\* "net context for one network relationship" (epoll_net.h): the input of a
\* connection is read into its own context.
OneRelationship == ~mixed

\* "start to monitor the conn_fd" (handle_accept, epoll_net.cpp): an acceptor
\* watches the connection it has accepted.
WatchesItsOwn == ~early
=============================================================================
