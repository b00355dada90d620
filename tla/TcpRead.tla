------------------------------ MODULE TcpRead ------------------------------
(***************************************************************************)
(* The receiving half of one TCP connection: EpollNetTcp::handle_read with *)
(* net_context's read buffer, Run's treatment of the EPOLLIN and EPOLLRDHUP*)
(* events of the descriptor, and process_data's cutting of the buffered    *)
(* bytes into messages (BSESimulator and BSEClient cut the same way).      *)
(*                                                                         *)
(* Data.  A byte is its position in the peer's stream: Boundary holds the  *)
(* positions at which a message ends.  What r_buf holds is kept byte by    *)
(* byte, so that a byte lost, repeated or moved to the wrong place shows.  *)
(*                                                                         *)
(* Grain.  A step ends where another thread or the kernel can interfere:   *)
(* at the mutex, and at each read().  The kernel is modelled by its        *)
(* contract: edge-triggered epoll queues the descriptor when bytes or a    *)
(* FIN arrive and when epoll_ctl(MOD) finds it readable, and epoll_wait    *)
(* reports it once, if it is still readable then.                          *)
(***************************************************************************)
EXTENDS Integers, FiniteSets

CONSTANTS
  BufSize,                  \* BufSize_
  Total,                    \* how many bytes the peer ever sends
  Boundary,                 \* where its messages end
  Worker,                   \* the pool's threads
  MaxQueued,                \* bound: handle_read tasks waiting in the pool
  Nobody                    \* the holder of a free mutex

ASSUME ReadAssumption ==
  /\ BufSize \in Nat \ {0}
  /\ Total \in Nat
  /\ Boundary \subseteq 1 .. Total
  /\ MaxQueued \in Nat \ {0}
  /\ Nobody \notin Worker

VARIABLES
  r_buf,                    \* the bytes in the buffer
  r_data,                   \* offset of the first unprocessed byte
  r_size,                   \* how many unprocessed bytes follow it
  r_mutex,                  \* who holds it
  pc,                       \* where each worker is in handle_read
  size_remain,              \* each worker's local
  queued,                   \* handle_read tasks committed, not begun
  open,                     \* the descriptor is open and in NetContext_
  ready,                    \* the descriptor is on epoll's ready list
  arrived,                  \* bytes that reached the socket
  received,                 \* bytes read() has returned
  fin,                      \* the peer has shut down, or reset, the connection
  processed                 \* history: bytes process_data has accepted

bufVars == <<r_buf, r_data, r_size>>
kernelVars == <<ready, arrived, fin>>
vars == <<r_buf, r_data, r_size, r_mutex, pc, size_remain, queued, open, ready,
          arrived, received, fin, processed>>

Index == 0 .. BufSize - 1

Readable == open /\ (arrived > received \/ fin)

Goto(w, label) == pc' = [pc EXCEPT ![w] = label]

Init ==
  /\ r_buf = [i \in Index |-> Total]    \* malloc: no byte of the stream
  /\ r_data = 0
  /\ r_size = 0
  /\ r_mutex = Nobody
  /\ pc = [w \in Worker |-> "idle"]
  /\ size_remain = [w \in Worker |-> 0]
  /\ queued = 0
  /\ open = TRUE
  /\ ready = FALSE
  /\ arrived = 0
  /\ received = 0
  /\ fin = FALSE
  /\ processed = 0

-----------------------------------------------------------------------------
(* The peer and the kernel *)

Arrive(n) ==
  /\ ~fin
  /\ arrived + n <= Total
  /\ arrived' = arrived + n
  /\ ready' = open
  /\ UNCHANGED <<bufVars, r_mutex, pc, size_remain, queued, open, received, fin, processed>>

\* A FIN or a RST.  Bytes that arrived before it can still be read.
PeerCloses ==
  /\ ~fin
  /\ fin' = TRUE
  /\ ready' = open
  /\ UNCHANGED <<bufVars, r_mutex, pc, size_remain, queued, open, arrived, received, processed>>

\* send_data's EPOLL_CTL_MOD on this descriptor, by whichever thread.
Rearm ==
  /\ Readable
  /\ ready' = TRUE
  /\ UNCHANGED <<bufVars, r_mutex, pc, size_remain, queued, open, arrived, received, fin,
                 processed>>

-----------------------------------------------------------------------------
(* Run *)

\* EPOLLIN: commit handle_read.
DispatchRead ==
  /\ ready
  /\ arrived > received
  /\ ~fin
  /\ queued < MaxQueued
  /\ queued' = queued + 1
  /\ ready' = FALSE
  /\ UNCHANGED <<bufVars, r_mutex, pc, size_remain, open, arrived, received, fin, processed>>

\* epoll_wait finds nothing to report any more.
NothingReady ==
  /\ ready
  /\ arrived = received
  /\ ~fin
  /\ ready' = FALSE
  /\ UNCHANGED <<bufVars, r_mutex, pc, size_remain, queued, open, arrived, received, fin,
                 processed>>

\* EPOLLRDHUP or EPOLLERR comes first, whatever is left to read: the context
\* is deleted and the descriptor closed, which also takes it out of epoll.
RemoteClose ==
  /\ ready
  /\ fin
  /\ open' = FALSE
  /\ ready' = FALSE
  /\ UNCHANGED <<bufVars, r_mutex, pc, size_remain, queued, arrived, received, fin, processed>>

-----------------------------------------------------------------------------
(* handle_read *)

\* get_context: a shared_ptr that outlives the entry, or return.
GetContext(w) ==
  /\ pc[w] = "idle"
  /\ queued > 0
  /\ queued' = queued - 1
  /\ Goto(w, IF open THEN "lock" ELSE "idle")
  /\ UNCHANGED <<bufVars, r_mutex, size_remain, open, kernelVars, received, processed>>

\* Mutant: the buffer is read into before r_mutex is taken.
LockIgnored(w) ==
  /\ pc[w] = "lock"
  /\ r_mutex' = w
  /\ size_remain' = [size_remain EXCEPT ![w] = BufSize - (r_data + r_size)]
  /\ Goto(w, "loop")
  /\ UNCHANGED <<bufVars, queued, open, kernelVars, received, processed>>

Lock(w) ==
  /\ pc[w] = "lock"
  /\ r_mutex = Nobody
  /\ r_mutex' = w
  /\ size_remain' = [size_remain EXCEPT ![w] = BufSize - (r_data + r_size)]
  /\ Goto(w, "loop")
  /\ UNCHANGED <<bufVars, queued, open, kernelVars, received, processed>>

\* Mutants: the pointer is reset and nothing moved; the room is miscounted.
CompactMovesNothing(w) ==
  /\ pc[w] = "loop"
  /\ size_remain[w] = 0
  /\ r_data > 0
  /\ r_data' = 0
  /\ size_remain' = [size_remain EXCEPT ![w] = BufSize - r_size]
  /\ UNCHANGED <<r_buf, r_size, r_mutex, pc, queued, open, kernelVars, received, processed>>

CompactFreesAll(w) ==
  /\ pc[w] = "loop"
  /\ size_remain[w] = 0
  /\ r_data > 0
  /\ r_buf' = [i \in Index |-> IF i < r_size THEN r_buf[r_data + i] ELSE r_buf[i]]
  /\ r_data' = 0
  /\ size_remain' = [size_remain EXCEPT ![w] = BufSize]
  /\ UNCHANGED <<r_size, r_mutex, pc, queued, open, kernelVars, received, processed>>

\* No room behind the data: move it to the front of the buffer.
Compact(w) ==
  /\ pc[w] = "loop"
  /\ size_remain[w] = 0
  /\ r_data > 0
  /\ r_buf' = [i \in Index |-> IF i < r_size THEN r_buf[r_data + i] ELSE r_buf[i]]
  /\ r_data' = 0
  /\ size_remain' = [size_remain EXCEPT ![w] = BufSize - r_size]
  /\ UNCHANGED <<r_size, r_mutex, pc, queued, open, kernelVars, received, processed>>

Leave(w) ==
  /\ r_mutex' = Nobody
  /\ Goto(w, "idle")

\* "can't read, no read buffer remaining!": the loop is left, bytes unread.
BufferFull(w) ==
  /\ pc[w] = "loop"
  /\ size_remain[w] = 0
  /\ r_data = 0
  /\ Leave(w)
  /\ UNCHANGED <<bufVars, size_remain, queued, open, kernelVars, received, processed>>

\* read() returns what there is, up to size_remain.
ReadBytes(w) ==
  LET here == r_data + r_size
      n == IF arrived - received < size_remain[w]
           THEN arrived - received ELSE size_remain[w]
  IN /\ pc[w] = "loop"
     /\ size_remain[w] > 0
     /\ open
     /\ arrived > received
     /\ r_buf' = [i \in Index |->
                    IF here <= i /\ i < here + n THEN received + (i - here) ELSE r_buf[i]]
     /\ r_size' = r_size + n
     /\ size_remain' = [size_remain EXCEPT ![w] = size_remain[w] - n]
     /\ received' = received + n
     /\ Goto(w, "process")
     /\ UNCHANGED <<r_data, r_mutex, queued, open, kernelVars, processed>>

\* EAGAIN: all data read.
ReadAgain(w) ==
  /\ pc[w] = "loop"
  /\ size_remain[w] > 0
  /\ open
  /\ arrived = received
  /\ ~fin
  /\ Leave(w)
  /\ UNCHANGED <<bufVars, size_remain, queued, open, kernelVars, received, processed>>

\* read() returns 0, or -1 with the error of a reset or of a descriptor that
\* another thread has closed; clear_context_event then finds the entry, or not.
ReadFails(w) ==
  /\ pc[w] = "loop"
  /\ size_remain[w] > 0
  /\ ~open \/ (arrived = received /\ fin)
  /\ open' = FALSE
  /\ ready' = FALSE
  /\ Leave(w)
  /\ UNCHANGED <<bufVars, size_remain, queued, arrived, fin, received, processed>>

\* Mutants: one message at a time; a message only if more bytes follow it.
AcceptsOne(n) ==
  /\ n = 0 \/ r_buf[r_data] + n \in Boundary
  /\ n = 0 => \A m \in 1 .. r_size : r_buf[r_data] + m \notin Boundary
  /\ \A m \in 1 .. n - 1 : r_buf[r_data] + m \notin Boundary

AcceptsIfMoreFollow(n) ==
  /\ n = 0 \/ (r_buf[r_data] + n \in Boundary /\ n < r_size)
  /\ \A m \in n + 1 .. r_size - 1 : r_buf[r_data] + m \notin Boundary

\* process_data accepts the whole messages at the front of what it is given.
Accepts(n) ==
  /\ n = 0 \/ r_buf[r_data] + n \in Boundary
  /\ \A m \in n + 1 .. r_size : r_buf[r_data] + m \notin Boundary

\* Mutant: one read() per event, as a level-triggered handler may do.
ProcessAndLeave(w) ==
  /\ pc[w] = "process"
  /\ \E n \in 0 .. r_size :
       /\ Accepts(n)
       /\ processed' = processed + n
       /\ r_size' = r_size - n
       /\ r_data' = IF n > 0 /\ r_size = n THEN 0 ELSE r_data + n
  /\ Leave(w)
  /\ UNCHANGED <<r_buf, size_remain, queued, open, kernelVars, received>>

\* process_data, and what handle_read does with the bytes it left.
Process(w) ==
  /\ pc[w] = "process"
  /\ \E n \in 0 .. r_size :
       /\ Accepts(n)
       /\ processed' = processed + n
       /\ r_size' = r_size - n
       /\ IF n > 0 /\ r_size = n
          THEN /\ r_data' = 0
               /\ size_remain' = [size_remain EXCEPT ![w] = BufSize]
          ELSE /\ r_data' = r_data + n
               /\ UNCHANGED size_remain
  /\ Goto(w, "loop")
  /\ UNCHANGED <<r_buf, r_mutex, queued, open, kernelVars, received>>

-----------------------------------------------------------------------------

HandleRead(w) ==
  \/ GetContext(w)
  \/ Lock(w)
  \/ Compact(w)
  \/ BufferFull(w)
  \/ ReadBytes(w)
  \/ ReadAgain(w)
  \/ ReadFails(w)
  \/ Process(w)

Run == DispatchRead \/ NothingReady \/ RemoteClose

Next ==
  \/ \E n \in 1 .. Total : Arrive(n)
  \/ PeerCloses
  \/ Rearm
  \/ Run
  \/ \E w \in Worker : HandleRead(w)

Spec == Init /\ [][Next]_vars

\* The event loop and the pool's threads run; the peer need not do anything.
Fairness == WF_vars(Run) /\ \A w \in Worker : WF_vars(HandleRead(w))

FairSpec == Spec /\ Fairness

-----------------------------------------------------------------------------
(* Properties *)

TypeOK ==
  /\ r_buf \in [Index -> 0 .. Total]
  /\ r_data \in 0 .. BufSize
  /\ r_size \in 0 .. BufSize
  /\ r_mutex \in Worker \cup {Nobody}
  /\ pc \in [Worker -> {"idle", "lock", "loop", "process"}]
  /\ size_remain \in [Worker -> 0 .. BufSize]
  /\ queued \in 0 .. MaxQueued
  /\ open \in BOOLEAN /\ ready \in BOOLEAN /\ fin \in BOOLEAN
  /\ arrived \in 0 .. Total
  /\ received \in 0 .. arrived
  /\ processed \in 0 .. received

\* One thread at a time works on the buffer, its count of the free bytes is
\* exact at every read(), so that read() cannot write past r_buf + BufSize_,
\* and the count survives a compaction and a partly processed buffer.
BufferGeometry ==
  /\ \A w \in Worker : r_mutex = w <=> pc[w] \in {"loop", "process"}
  /\ r_data + r_size <= BufSize
  /\ \A w \in Worker : r_mutex = w => size_remain[w] = BufSize - (r_data + r_size)
  /\ (\E w \in Worker : pc[w] = "process") => r_size > 0

\* The buffer holds exactly the bytes read and not yet accepted, in stream
\* order: nothing is lost, repeated or reordered across tasks, threads and
\* compactions.
BufferContent ==
  /\ processed + r_size = received
  /\ \A i \in 0 .. r_size - 1 : r_buf[r_data + i] = processed + i

\* Nothing that could be handled waits for more bytes: outside process_data
\* the buffer holds no whole message, and it starts at a message's first byte
\* (epoll_net.h: remaining bytes are passed on only after another read).
NoWholeMessageLeft ==
  /\ processed \in {0} \cup Boundary
  /\ (\A w \in Worker : pc[w] # "process") =>
       \A b \in Boundary : b <= processed \/ b > received

\* handle_read gives up for want of buffer space only at a message that is
\* longer than the whole buffer.
OnlyOversizeStalls ==
  (\E w \in Worker : pc[w] = "loop" /\ size_remain[w] = 0 /\ r_data = 0) =>
    \A b \in Boundary : ~ (processed < b /\ b <= processed + BufSize)

\* The inductive invariant of the proofs.
ReadInv == TypeOK /\ BufferGeometry /\ BufferContent /\ NoWholeMessageLeft

\* Messages are handled whole, in order and never twice: each step accepts a
\* run of whole messages that have been read, or nothing.
HandledInOrder ==
  [][processed' # processed =>
       processed' > processed /\ processed' \in Boundary /\ processed' <= received]_vars

\* Input is never left unseen: while the connection is open, an end that came
\* is on the ready list, and for bytes that arrived there is an event, a task or
\* a thread in handle_read, unless the buffer is full of one message.  So the
\* loop may be left at EAGAIN only, and a task that finds no room may be the last.
InputSeen ==
  open =>
    /\ fin => ready
    /\ arrived > received =>
         ready \/ queued > 0 \/ (\E w \in Worker : pc[w] # "idle") \/ r_size = BufSize

\* No message up to b is longer than the read buffer.
FitsUpTo(b) ==
  \A a \in {0} \cup Boundary :
    a < b => \E c \in Boundary : a < c /\ c <= a + BufSize

\* A message all of whose bytes arrived is handled, unless the connection ends
\* first or an oversize message comes before it: no edge is lost between
\* read()'s EAGAIN and the next event, whichever threads serve them.
EveryMessageHandled ==
  \A b \in {c \in Boundary : FitsUpTo(c)} : arrived >= b ~> processed >= b \/ ~open
=============================================================================
