------------------------------ MODULE TcpWrite ------------------------------
(***************************************************************************)
(* The sending half of one TCP connection: EpollNetTcp::send_data, called  *)
(* by any thread, handle_write, run by the pool when epoll reports the     *)
(* descriptor writable, and the epoll interest that connects the two.      *)
(*                                                                         *)
(* Data.  A byte is its position in the order in which send_data queued    *)
(* it, so a request is a position and a size, and the wire is in order     *)
(* when each write() starts at the position the last one ended at.         *)
(*                                                                         *)
(* Grain.  send_data: the lookup, the emplace under w_req_mutex and the    *)
(* epoll_ctl are a step each.  handle_write: the lookup, taking w_mutex,   *)
(* each write() and the update of the request after it.  w_req_mutex is    *)
(* held within one step only.  handle_write reads empty() and front()      *)
(* without w_req_mutex while send_data may emplace: it sees the queue      *)
(* before or after that, and emplacing at the back moves no other element. *)
(*                                                                         *)
(* The kernel is its contract: write() takes what fits and remembers that  *)
(* it ran out of space; EPOLLOUT is reported from LowWater free bytes on,  *)
(* once for each time the space comes back or epoll_ctl(MOD) finds it; and *)
(* writing to a socket that was shut down raises SIGPIPE, for which no     *)
(* file of the program installs a handler.                                 *)
(***************************************************************************)
EXTENDS Integers, Sequences

CONSTANTS
  Sender,                   \* threads that call send_data
  Worker,                   \* threads that run handle_write
  Sizes,                    \* sizes of the requests
  MaxBytes,                 \* bound: bytes ever queued
  SndBuf,                   \* size of the kernel's send buffer
  LowWater,                 \* free bytes from which it counts as writable
  MaxQueued,                \* bound: handle_write tasks waiting in the pool
  Nobody                    \* the holder of a free mutex

ASSUME WriteAssumption ==
  /\ Sizes \subseteq Nat \ {0}
  /\ MaxBytes \in Nat
  /\ SndBuf \in Nat /\ LowWater \in 1 .. SndBuf
  /\ MaxQueued \in Nat \ {0}
  /\ Nobody \notin Worker

VARIABLES
  w_req_q,                  \* the requests, oldest first
  enqueued,                 \* bytes queued so far
  w_mutex,                  \* who holds it
  sender,                   \* where each sender is in send_data
  pc,                       \* where each worker is in handle_write
  w_byte,                   \* each worker's local: what write() returned
  queued,                   \* handle_write tasks committed, not begun
  link,                     \* the socket: up, shut, closed
  reset,                    \* the peer has reset the connection
  out,                      \* EPOLLOUT is in the descriptor's interest set
  ready,                    \* the descriptor is on epoll's ready list
  space,                    \* free bytes of the send buffer
  nospace,                  \* somebody found the buffer full since it last emptied
  wire,                     \* bytes write() has taken
  ordered,                  \* history: every write() began where the last ended
  killed                    \* the process has died of SIGPIPE

sendVars == <<enqueued, sender>>
taskVars == <<w_mutex, pc, w_byte, queued>>
kernelVars == <<link, reset, out, ready, space, nospace>>
wireVars == <<wire, ordered, killed>>
vars == <<w_req_q, sendVars, taskVars, kernelVars, wireVars>>

Request == [data : 0 .. MaxBytes, size : 1 .. MaxBytes]

Writable == space >= LowWater

Goto(w, label) == pc' = [pc EXCEPT ![w] = label]

SenderTo(s, label) == sender' = [sender EXCEPT ![s] = label]

Init ==
  /\ w_req_q = << >>
  /\ enqueued = 0
  /\ w_mutex = Nobody
  /\ sender = [s \in Sender |-> "idle"]
  /\ pc = [w \in Worker |-> "idle"]
  /\ w_byte = [w \in Worker |-> 0]
  /\ queued = 0
  /\ link = "up"
  /\ reset = FALSE
  /\ out = FALSE            \* add_event(conn_fd,EPOLLIN)
  /\ ready = FALSE
  /\ space = SndBuf
  /\ nospace = FALSE
  /\ wire = 0
  /\ ordered = TRUE
  /\ killed = FALSE

-----------------------------------------------------------------------------
(* send_data *)

\* get_context; a null context ends the call.
Lookup(s) ==
  /\ sender[s] = "idle"
  /\ link # "closed"
  /\ SenderTo(s, "emplace")
  /\ UNCHANGED <<w_req_q, enqueued, taskVars, kernelVars, wireVars>>

\* Mutant: the kernel is told before the request is queued.
EmplaceAfterModify(s, n) ==
  /\ sender[s] = "emplace"
  /\ enqueued + n <= MaxBytes
  /\ w_req_q' = Append(w_req_q, [data |-> enqueued, size |-> n])
  /\ enqueued' = enqueued + n
  /\ out' = TRUE
  /\ ready' = ready
  /\ SenderTo(s, "idle")
  /\ UNCHANGED <<taskVars, link, reset, space, nospace, wireVars>>

Emplace(s, n) ==
  /\ sender[s] = "emplace"
  /\ enqueued + n <= MaxBytes
  /\ w_req_q' = Append(w_req_q, [data |-> enqueued, size |-> n])
  /\ enqueued' = enqueued + n
  /\ SenderTo(s, "modify")
  /\ UNCHANGED <<taskVars, kernelVars, wireVars>>

\* modify_event(fd,EPOLLIN|EPOLLOUT): the kernel polls the socket at once.
\* It fails on a descriptor that has been closed meanwhile.
Modify(s) ==
  /\ sender[s] = "modify"
  /\ SenderTo(s, "idle")
  /\ IF link = "closed"
     THEN UNCHANGED <<out, ready, nospace>>
     ELSE /\ out' = TRUE
          /\ ready' = (ready \/ Writable)
          /\ nospace' = (nospace \/ ~Writable)
  /\ UNCHANGED <<w_req_q, enqueued, taskVars, link, reset, space, wireVars>>

-----------------------------------------------------------------------------
(* The peer and the kernel *)

PeerReads(n) ==
  /\ link = "up"
  /\ space + n <= SndBuf
  /\ space' = space + n
  /\ IF nospace /\ space + n >= LowWater
     THEN nospace' = FALSE /\ ready' = (ready \/ out)
     ELSE UNCHANGED <<nospace, ready>>
  /\ UNCHANGED <<w_req_q, sendVars, taskVars, link, reset, out, wireVars>>

\* Input queues the descriptor too, and epoll_wait then reports EPOLLOUT with it.
InputArrives ==
  /\ link = "up"
  /\ ready' = TRUE
  /\ UNCHANGED <<w_req_q, sendVars, taskVars, link, reset, out, space, nospace, wireVars>>

PeerResets ==
  /\ link = "up"
  /\ reset' = TRUE
  /\ UNCHANGED <<w_req_q, sendVars, taskVars, link, out, ready, space, nospace, wireVars>>

-----------------------------------------------------------------------------
(* Run, and those who end the connection *)

DispatchWrite ==
  /\ ready
  /\ link = "up"
  /\ out
  /\ Writable
  /\ queued < MaxQueued
  /\ queued' = queued + 1
  /\ ready' = FALSE
  /\ UNCHANGED <<w_req_q, sendVars, w_mutex, pc, w_byte, link, reset, out, space, nospace,
                 wireVars>>

\* epoll_wait polls the socket and finds no EPOLLOUT to report.
NothingReady ==
  /\ ready
  /\ link = "up"
  /\ ~out \/ ~Writable
  /\ ready' = FALSE
  /\ nospace' = (nospace \/ ~Writable)
  /\ UNCHANGED <<w_req_q, sendVars, taskVars, link, reset, out, space, wireVars>>

\* command_kick's disconnect(), or the shutdown() in delete_context that Run
\* calls on EPOLLRDHUP, EPOLLERR and EPOLLHUP.
ShutDown ==
  /\ link = "up"
  /\ link' = "shut"
  /\ UNCHANGED <<w_req_q, sendVars, taskVars, reset, out, ready, space, nospace, wireVars>>

\* delete_context's close() and erase().
Close ==
  /\ link = "shut"
  /\ link' = "closed"
  /\ ready' = FALSE
  /\ UNCHANGED <<w_req_q, sendVars, taskVars, reset, out, space, nospace, wireVars>>

-----------------------------------------------------------------------------
(* handle_write *)

GetContext(w) ==
  /\ pc[w] = "idle"
  /\ queued > 0
  /\ queued' = queued - 1
  /\ Goto(w, IF link = "closed" THEN "idle" ELSE "lock")
  /\ UNCHANGED <<w_req_q, sendVars, w_mutex, w_byte, kernelVars, wireVars>>

\* Mutant: handle_write trusts w_req_mutex alone.
LockIgnored(w) ==
  /\ pc[w] = "lock"
  /\ w_mutex' = w
  /\ Goto(w, "loop")
  /\ UNCHANGED <<w_req_q, sendVars, w_byte, queued, kernelVars, wireVars>>

Lock(w) ==
  /\ pc[w] = "lock"
  /\ w_mutex = Nobody
  /\ w_mutex' = w
  /\ Goto(w, "loop")
  /\ UNCHANGED <<w_req_q, sendVars, w_byte, queued, kernelVars, wireVars>>

Leave(w) ==
  /\ w_mutex' = Nobody
  /\ Goto(w, "idle")

QueueEmpty(w) ==
  /\ pc[w] = "loop"
  /\ w_req_q = << >>
  /\ Leave(w)
  /\ UNCHANGED <<w_req_q, sendVars, w_byte, queued, kernelVars, wireVars>>

\* The front request meets a socket in the given state.
Writing(w, state) ==
  /\ pc[w] = "loop"
  /\ w_req_q # << >>
  /\ link = state

\* Mutant: one write() for each EPOLLOUT, as a level-triggered handler may do.
WriteOnce(w) ==
  LET n == IF Head(w_req_q).size <= space THEN Head(w_req_q).size ELSE space
  IN /\ Writing(w, "up")
     /\ ~reset
     /\ space > 0
     /\ space' = space - n
     /\ nospace' = (nospace \/ n < Head(w_req_q).size)
     /\ ordered' = (ordered /\ Head(w_req_q).data = wire)
     /\ wire' = wire + n
     /\ w_req_q' = IF n = Head(w_req_q).size
                   THEN Tail(w_req_q)
                   ELSE [w_req_q EXCEPT ![1] = [data |-> Head(w_req_q).data + n,
                                                size |-> Head(w_req_q).size - n]]
     /\ Leave(w)
     /\ UNCHANGED <<sendVars, w_byte, queued, link, reset, out, ready, killed>>

\* write() takes all of the request, or what fits.
WriteSome(w) ==
  LET n == IF Head(w_req_q).size <= space THEN Head(w_req_q).size ELSE space
  IN /\ Writing(w, "up")
     /\ ~reset
     /\ space > 0
     /\ w_byte' = [w_byte EXCEPT ![w] = n]
     /\ space' = space - n
     /\ nospace' = (nospace \/ n < Head(w_req_q).size)
     /\ ordered' = (ordered /\ Head(w_req_q).data = wire)
     /\ wire' = wire + n
     /\ Goto(w, "account")
     /\ UNCHANGED <<w_req_q, sendVars, w_mutex, queued, link, reset, out, ready, killed>>

\* EAGAIN.
WriteAgain(w) ==
  /\ Writing(w, "up")
  /\ ~reset
  /\ space = 0
  /\ nospace' = TRUE
  /\ Leave(w)
  /\ UNCHANGED <<w_req_q, sendVars, w_byte, queued, link, reset, out, ready, space, wireVars>>

\* ECONNRESET: on_error, clear_context_event.
WriteReset(w) ==
  /\ Writing(w, "up")
  /\ reset
  /\ link' = "closed"
  /\ ready' = FALSE
  /\ Leave(w)
  /\ UNCHANGED <<w_req_q, sendVars, w_byte, queued, reset, out, space, nospace, wireVars>>

\* EBADF: on_error; the entry is gone already.
WriteClosed(w) ==
  /\ Writing(w, "closed")
  /\ Leave(w)
  /\ UNCHANGED <<w_req_q, sendVars, w_byte, queued, kernelVars, wireVars>>

\* EPIPE would be the result; the signal comes first.
WriteBrokenPipe(w) ==
  /\ Writing(w, "shut")
  /\ killed' = TRUE
  /\ UNCHANGED <<w_req_q, sendVars, taskVars, kernelVars, wire, ordered>>

\* Mutant: a finished request stays queued.
AccountKeepsZero(w) ==
  LET req == Head(w_req_q)
  IN /\ pc[w] = "account"
     /\ w_req_q' = [w_req_q EXCEPT ![1] = [data |-> req.data + w_byte[w],
                                           size |-> req.size - w_byte[w]]]
     /\ Goto(w, "loop")
     /\ UNCHANGED <<sendVars, w_mutex, w_byte, queued, kernelVars, wireVars>>

\* w_req->size -= w_byte, then pop() under w_req_mutex or data += w_byte.
Account(w) ==
  LET req == Head(w_req_q)
  IN /\ pc[w] = "account"
     /\ w_req_q' = IF req.size = w_byte[w]
                   THEN Tail(w_req_q)
                   ELSE [w_req_q EXCEPT ![1] = [data |-> req.data + w_byte[w],
                                                size |-> req.size - w_byte[w]]]
     /\ Goto(w, "loop")
     /\ UNCHANGED <<sendVars, w_mutex, w_byte, queued, kernelVars, wireVars>>

-----------------------------------------------------------------------------

SendData(s) == Lookup(s) \/ (\E n \in Sizes : Emplace(s, n)) \/ Modify(s)

HandleWrite(w) ==
  \/ GetContext(w)
  \/ Lock(w)
  \/ QueueEmpty(w)
  \/ WriteSome(w)
  \/ WriteAgain(w)
  \/ WriteReset(w)
  \/ WriteClosed(w)
  \/ WriteBrokenPipe(w)
  \/ Account(w)

Run == DispatchWrite \/ NothingReady

Next ==
  /\ ~killed
  /\ \/ \E s \in Sender : SendData(s)
     \/ \E w \in Worker : HandleWrite(w)
     \/ Run
     \/ ShutDown
     \/ Close
     \/ \E n \in 1 .. SndBuf : PeerReads(n)
     \/ InputArrives
     \/ PeerResets

Spec == Init /\ [][Next]_vars

\* The event loop and the threads run, a send_data that has emplaced goes on,
\* and the peer keeps reading: without that a full buffer stays full.
Fairness ==
  /\ WF_vars(~killed /\ Run)
  /\ \A s \in Sender : WF_vars(~killed /\ Modify(s))
  /\ \A w \in Worker : WF_vars(~killed /\ HandleWrite(w))
  /\ WF_vars(~killed /\ PeerReads(SndBuf - space))

FairSpec == Spec /\ Fairness

-----------------------------------------------------------------------------
(* Properties *)

TypeOK ==
  /\ w_req_q \in Seq(Request)
  /\ enqueued \in 0 .. MaxBytes
  /\ w_mutex \in Worker \cup {Nobody}
  /\ sender \in [Sender -> {"idle", "emplace", "modify"}]
  /\ pc \in [Worker -> {"idle", "lock", "loop", "account"}]
  /\ w_byte \in [Worker -> 0 .. MaxBytes]
  /\ queued \in 0 .. MaxQueued
  /\ link \in {"up", "shut", "closed"}
  /\ reset \in BOOLEAN /\ out \in BOOLEAN /\ ready \in BOOLEAN
  /\ nospace \in BOOLEAN /\ ordered \in BOOLEAN /\ killed \in BOOLEAN
  /\ space \in 0 .. SndBuf
  /\ wire \in 0 .. MaxBytes

\* w_mutex is held from the look at the queue to the update of the request.
OneWriter ==
  /\ \A w \in Worker : w_mutex = w <=> pc[w] \in {"loop", "account"}
  /\ \A w \in Worker : pc[w] = "account" =>
       w_req_q # << >> /\ w_byte[w] \in 1 .. Head(w_req_q).size

\* The queued requests are the consecutive pieces of what was queued last.
Chained ==
  \A i \in 1 .. Len(w_req_q) :
    w_req_q[i].data + w_req_q[i].size =
      IF i = Len(w_req_q) THEN enqueued ELSE w_req_q[i + 1].data

\* Bytes of the front request that write() took and Account has not subtracted.
Unaccounted == IF \E w \in Worker : pc[w] = "account" THEN w_byte[w_mutex] ELSE 0

\* The wire carries the requests whole, in the order in which send_data queued
\* them: each write() starts at the byte after the last one written, and what
\* is still queued is exactly the rest (w_mutex across front, write and pop).
WireInOrder ==
  /\ ordered
  /\ OneWriter
  /\ Chained
  /\ wire = IF w_req_q = << >> THEN enqueued ELSE Head(w_req_q).data + Unaccounted

\* A queued request is never forgotten: while the connection is up, somebody is
\* about to call epoll_ctl for it, or an event or a handle_write is on its way,
\* or the kernel owes an event for the space it ran out of.  This is why
\* send_data calls epoll_ctl after the emplace and handle_write writes until
\* the queue is empty or EAGAIN.
NoStrandedRequest ==
  w_req_q # << >> /\ link = "up" =>
    \/ \E s \in Sender : sender[s] = "modify"
    \/ out /\ ready
    \/ queued > 0
    \/ \E w \in Worker : pc[w] # "idle"
    \/ out /\ nospace /\ ~Writable

\* Bytes handed to send_data reach the wire as long as the connection lives.
EveryRequestWritten ==
  \A k \in 1 .. MaxBytes :
    enqueued >= k ~> wire >= k \/ link # "up" \/ reset

\* Ending a connection ends that connection only: the server survives the kick
\* of a client it is sending to ("[k fd] to kick a client", bse_server.cpp).
SurvivesDisconnect == ~killed
=============================================================================
