--------------------------- MODULE TcpReadProofs ---------------------------
(***************************************************************************)
(* Theorems about TcpRead for any buffer size, any cutting of the stream   *)
(* into messages and any number of threads.                                *)
(*                                                                         *)
(* ReadInv is inductive as a whole: the geometry needs the lock, the       *)
(* content needs the geometry, and TypeOK needs both (that size_remain and *)
(* r_size stay within the buffer is what the geometry says).               *)
(***************************************************************************)
EXTENDS TcpRead, TLAPS

LEMMA InitRead == Init => ReadInv
<1> SUFFICES ASSUME Init PROVE ReadInv
  OBVIOUS
<1> USE ReadAssumption DEF Init
<1>1. TypeOK
  <2>1. r_buf \in [Index -> 0 .. Total] BY DEF Index
  <2>2. queued \in 0 .. MaxQueued /\ r_data \in 0 .. BufSize /\ r_size \in 0 .. BufSize
    OBVIOUS
  <2>3. size_remain \in [Worker -> 0 .. BufSize]
    OBVIOUS
  <2>5. open \in BOOLEAN /\ ready \in BOOLEAN /\ fin \in BOOLEAN
    OBVIOUS
  <2>6. arrived \in 0 .. Total /\ received \in 0 .. arrived /\ processed \in 0 .. received
    OBVIOUS
  <2>4. QED BY <2>1, <2>2, <2>3, <2>5, <2>6 DEF TypeOK
<1>2. BufferGeometry BY DEF BufferGeometry
<1>3. BufferContent BY DEF BufferContent
<1>4. NoWholeMessageLeft BY DEF NoWholeMessageLeft
<1>5. QED
  BY <1>1, <1>2, <1>3, <1>4 DEF ReadInv

\* The steps that do not touch the buffer, by whoever takes them.
LEMMA OutsideStep ==
  ASSUME ReadInv,
         \/ \E n \in 1 .. Total : Arrive(n)
         \/ PeerCloses \/ Rearm \/ Run
         \/ \E w \in Worker : GetContext(w)
         \/ UNCHANGED vars
  PROVE  ReadInv'
<1> USE ReadAssumption DEF ReadInv, TypeOK, BufferGeometry, BufferContent,
    NoWholeMessageLeft, Index, bufVars, kernelVars, Goto
<1>1. ASSUME NEW n \in 1 .. Total, Arrive(n) PROVE ReadInv'
  BY <1>1 DEF Arrive
<1>2. CASE PeerCloses BY <1>2 DEF PeerCloses
<1>3. CASE Rearm BY <1>3 DEF Rearm
<1>4. CASE DispatchRead
  <2>4. queued' \in 0 .. MaxQueued BY <1>4 DEF DispatchRead
  <2>1. TypeOK' BY <1>4, <2>4 DEF DispatchRead
  <2>2. BufferGeometry' /\ BufferContent' /\ NoWholeMessageLeft'
    BY <1>4 DEF DispatchRead
  <2>3. QED BY <2>1, <2>2
<1>5. CASE NothingReady BY <1>5 DEF NothingReady
<1>6. CASE RemoteClose BY <1>6 DEF RemoteClose
<1>7. ASSUME NEW w \in Worker, GetContext(w) PROVE ReadInv'
  BY <1>7 DEF GetContext
<1>8. CASE UNCHANGED vars BY <1>8 DEF vars
<1>9. QED
  BY <1>1, <1>2, <1>3, <1>4, <1>5, <1>6, <1>7, <1>8 DEF Run

LEMMA LockStep == ASSUME ReadInv, NEW w \in Worker, Lock(w) PROVE ReadInv'
BY ReadAssumption DEF ReadInv, TypeOK, BufferGeometry, BufferContent,
   NoWholeMessageLeft, Index, bufVars, kernelVars, Goto, Lock

LEMMA LeaveStep ==
  ASSUME ReadInv, NEW w \in Worker, BufferFull(w) \/ ReadAgain(w) \/ ReadFails(w)
  PROVE  ReadInv'
BY ReadAssumption DEF ReadInv, TypeOK, BufferGeometry, BufferContent,
   NoWholeMessageLeft, Index, bufVars, kernelVars, Goto, Leave, BufferFull,
   ReadAgain, ReadFails

LEMMA CompactStep == ASSUME ReadInv, NEW w \in Worker, Compact(w) PROVE ReadInv'
<1> USE ReadAssumption DEF ReadInv, Index
<1>1. /\ r_data' = 0 /\ r_size' = r_size /\ processed' = processed
      /\ received' = received /\ arrived' = arrived /\ pc' = pc /\ r_mutex' = r_mutex
      /\ size_remain' = [size_remain EXCEPT ![w] = BufSize - r_size]
      /\ queued' = queued /\ open' = open /\ ready' = ready /\ fin' = fin
      /\ r_buf' = [i \in Index |-> IF i < r_size THEN r_buf[r_data + i] ELSE r_buf[i]]
  BY DEF Compact, kernelVars
<1>2. r_mutex = w /\ \A v \in Worker : r_mutex = v => v = w
  BY DEF Compact, BufferGeometry
<1>3. BufferGeometry'
  BY <1>1, <1>2 DEF BufferGeometry, TypeOK
<1>4. \A i \in 0 .. r_size - 1 : i \in Index /\ r_data + i \in Index /\ r_buf'[i] = r_buf[r_data + i]
  BY <1>1 DEF BufferGeometry, TypeOK
<1>5. BufferContent'
  <2>1. ASSUME NEW i \in 0 .. r_size' - 1
        PROVE  r_buf'[r_data' + i] = processed' + i
    <3>1. i \in 0 .. r_size - 1 /\ r_data' + i = i
      BY <1>1, <2>1 DEF TypeOK
    <3>2. QED
      BY <1>1, <1>4, <3>1 DEF BufferContent
  <2>2. QED
    BY <1>1, <2>1 DEF BufferContent
<1>6. r_buf' \in [Index -> 0 .. Total]
  <2>1. \A i \in Index : i < r_size => r_data + i \in Index
    BY DEF BufferGeometry, TypeOK
  <2>2. QED
    BY <1>1, <2>1 DEF TypeOK
<1>7. TypeOK'
  <2>1. r_data' \in 0 .. BufSize /\ size_remain' \in [Worker -> 0 .. BufSize]
    BY <1>1 DEF TypeOK
  <2>2. QED
    BY <1>1, <1>6, <2>1 DEF TypeOK
<1>8. NoWholeMessageLeft'
  BY <1>1 DEF NoWholeMessageLeft
<1>9. QED
  BY <1>3, <1>5, <1>7, <1>8

LEMMA ReadStep == ASSUME ReadInv, NEW w \in Worker, ReadBytes(w) PROVE ReadInv'
<1> USE ReadAssumption DEF ReadInv
<1> DEFINE here == r_data + r_size
           n == IF arrived - received < size_remain[w]
                THEN arrived - received ELSE size_remain[w]
<1>1. /\ r_data' = r_data /\ r_size' = r_size + n /\ processed' = processed
      /\ received' = received + n /\ arrived' = arrived /\ r_mutex' = r_mutex
      /\ size_remain' = [size_remain EXCEPT ![w] = size_remain[w] - n]
      /\ pc' = [pc EXCEPT ![w] = "process"] /\ pc[w] = "loop"
      /\ queued' = queued /\ open' = open /\ ready' = ready /\ fin' = fin
      /\ r_buf' = [i \in Index |->
           IF here <= i /\ i < here + n THEN received + (i - here) ELSE r_buf[i]]
  BY DEF ReadBytes, kernelVars, Goto
<1>2. r_mutex = w /\ \A v \in Worker : r_mutex = v => v = w
  BY <1>1 DEF BufferGeometry
<1>3. /\ size_remain[w] = BufSize - here /\ r_data \in Nat /\ r_size \in Nat
      /\ received \in Nat /\ arrived \in Nat /\ here \in Nat /\ BufSize \in Nat
  BY <1>2 DEF BufferGeometry, TypeOK
<1>4. n \in Nat /\ n > 0 /\ n <= size_remain[w] /\ received + n <= arrived
  <2>1. size_remain[w] > 0 /\ arrived > received
    BY DEF ReadBytes
  <2>2. QED
    BY <1>3, <2>1
<1> HIDE DEF n
<1>5. BufferGeometry'
  BY <1>1, <1>2, <1>3, <1>4 DEF BufferGeometry, TypeOK
<1>6. BufferContent'
  <2>1. processed' + r_size' = received'
    BY <1>1, <1>3, <1>4 DEF BufferContent, TypeOK
  <2>2. ASSUME NEW i \in 0 .. r_size + n - 1
        PROVE  r_buf'[r_data + i] = processed + i
    <3>1. r_data + i \in Index
      BY <1>3, <1>4 DEF Index
    <3>2. CASE i < r_size
      BY <1>1, <1>3, <3>1, <3>2 DEF BufferContent
    <3>3. CASE i >= r_size
      <4>1. r_buf'[r_data + i] = received + (r_data + i - here)
        BY <1>1, <1>3, <1>4, <3>1, <3>3
      <4>2. processed \in Nat /\ received = processed + r_size
        BY DEF BufferContent, TypeOK
      <4>3. QED
        BY <1>3, <4>1, <4>2
    <3>4. QED
      BY <1>3, <3>2, <3>3
  <2>3. ASSUME NEW i \in 0 .. r_size' - 1
        PROVE  r_buf'[r_data' + i] = processed' + i
    <3>1. i \in 0 .. r_size + n - 1
      BY <1>1, <1>3, <1>4, <2>3
    <3>2. QED
      BY <1>1, <2>2, <3>1
  <2>4. QED
    BY <2>1, <2>3 DEF BufferContent
<1>7. r_buf' \in [Index -> 0 .. Total]
  <2>1. ASSUME NEW i \in Index, here <= i, i < here + n
        PROVE  received + (i - here) \in 0 .. Total
    BY <1>3, <1>4, <2>1 DEF Index, TypeOK
  <2>2. QED
    BY <1>1, <2>1 DEF TypeOK
<1>8. TypeOK'
  <2>1. r_size' \in 0 .. BufSize /\ received' \in 0 .. arrived'
        /\ size_remain' \in [Worker -> 0 .. BufSize] /\ processed' \in 0 .. received'
    BY <1>1, <1>3, <1>4 DEF TypeOK
  <2>2. QED
    BY <1>1, <1>7, <2>1 DEF TypeOK
<1>9. NoWholeMessageLeft'
  BY <1>1 DEF NoWholeMessageLeft, TypeOK
<1>10. QED
  BY <1>5, <1>6, <1>8, <1>9

LEMMA ProcessStep == ASSUME ReadInv, NEW w \in Worker, Process(w) PROVE ReadInv'
<1> USE ReadAssumption DEF ReadInv
<1>1. PICK n \in 0 .. r_size :
        /\ Accepts(n)
        /\ processed' = processed + n
        /\ r_size' = r_size - n
        /\ IF n > 0 /\ r_size = n
           THEN /\ r_data' = 0
                /\ size_remain' = [size_remain EXCEPT ![w] = BufSize]
           ELSE /\ r_data' = r_data + n
                /\ UNCHANGED size_remain
  BY DEF Process
<1>2. /\ received' = received /\ arrived' = arrived /\ r_mutex' = r_mutex
      /\ r_buf' = r_buf /\ pc[w] = "process" /\ pc' = [pc EXCEPT ![w] = "loop"]
      /\ queued' = queued /\ open' = open /\ ready' = ready /\ fin' = fin
  BY DEF Process, kernelVars, Goto
<1>3. /\ r_mutex = w /\ (\A v \in Worker : r_mutex = v => v = w)
      /\ r_size > 0 /\ size_remain[w] = BufSize - (r_data + r_size)
      /\ r_data \in Nat /\ r_size \in Nat /\ n \in Nat /\ n <= r_size
      /\ r_data + r_size <= BufSize /\ BufSize \in Nat /\ processed \in Nat
      /\ received = processed + r_size
  BY <1>2 DEF BufferGeometry, BufferContent, TypeOK
<1>4. BufferGeometry'
  <2>1. \A v \in Worker : pc'[v] # "process"
    BY <1>2, <1>3 DEF BufferGeometry, TypeOK
  <2>2. r_data' + r_size' <= BufSize /\ r_mutex' = w
        /\ size_remain'[w] = BufSize - (r_data' + r_size')
    BY <1>1, <1>2, <1>3 DEF TypeOK
  <2>3. \A v \in Worker : r_mutex' = v <=> pc'[v] \in {"loop", "process"}
    BY <1>2, <1>3 DEF BufferGeometry, TypeOK
  <2>4. QED
    BY <1>2, <1>3, <2>1, <2>2, <2>3 DEF BufferGeometry
<1>5. BufferContent'
  <2>1. \A i \in 0 .. r_size - n - 1 : n + i \in 0 .. r_size - 1
    BY <1>3
  <2>2. \A i \in 0 .. r_size - n - 1 : r_buf[r_data + (n + i)] = processed + (n + i)
    BY <2>1 DEF BufferContent
  <2>3. CASE r_size = n /\ n > 0
    BY <1>1, <1>2, <1>3, <2>3 DEF BufferContent
  <2>4. CASE ~(r_size = n /\ n > 0)
    <3>1. \A i \in 0 .. r_size - n - 1 : r_data' + i = r_data + (n + i)
      BY <1>1, <1>3, <2>4
    <3>2. QED
      BY <1>1, <1>2, <1>3, <2>2, <3>1 DEF BufferContent
  <2>5. QED
    BY <2>3, <2>4
<1>6. TypeOK'
  <2>1. /\ r_size' \in 0 .. BufSize /\ r_data' \in 0 .. BufSize
        /\ size_remain' \in [Worker -> 0 .. BufSize] /\ processed' \in 0 .. received'
    BY <1>1, <1>2, <1>3 DEF TypeOK
  <2>2. QED
    BY <1>2, <2>1 DEF TypeOK
<1>7. NoWholeMessageLeft'
  <2>1. r_buf[r_data] = processed
    <3>1. 0 \in 0 .. r_size - 1 /\ r_data + 0 = r_data /\ processed + 0 = processed
      BY <1>3
    <3>2. QED
      BY <3>1 DEF BufferContent
  <2>2. processed' \in {0} \cup Boundary
    BY <1>1, <1>3, <2>1 DEF Accepts, NoWholeMessageLeft
  <2>3. ASSUME NEW b \in Boundary, b > processed', b <= received'
        PROVE  FALSE
    <3>1. b \in Nat /\ b - processed \in n + 1 .. r_size /\ processed + (b - processed) = b
      BY <1>1, <1>2, <1>3, <2>3
    <3>2. QED
      BY <1>1, <2>1, <3>1 DEF Accepts
  <2>4. \A b \in Boundary : b <= processed' \/ b > received'
    BY <1>1, <1>2, <1>3, <2>3 DEF TypeOK
  <2>5. QED
    BY <2>2, <2>4 DEF NoWholeMessageLeft
<1>8. QED
  BY <1>4, <1>5, <1>6, <1>7

LEMMA InvStep == ReadInv /\ [Next]_vars => ReadInv'
<1> SUFFICES ASSUME ReadInv, [Next]_vars PROVE ReadInv'
  OBVIOUS
<1>1. ASSUME NEW w \in Worker, HandleRead(w) PROVE ReadInv'
  BY <1>1, OutsideStep, LockStep, CompactStep, LeaveStep, ReadStep, ProcessStep
     DEF HandleRead
<1>2. QED
  BY <1>1, OutsideStep DEF Next

\* The read buffer, for any size of it and any number of threads: never
\* overrun, and always exactly the bytes read and not yet accepted; whatever
\* is a whole message has been handled when the lock is free (handle_read).
THEOREM ReadCorrect == Spec => [](TypeOK /\ BufferGeometry /\ BufferContent /\ NoWholeMessageLeft)
<1>1. ReadInv => TypeOK /\ BufferGeometry /\ BufferContent /\ NoWholeMessageLeft
  BY DEF ReadInv
<1>2. QED
  BY <1>1, InitRead, InvStep, PTL DEF Spec

\* handle_read leaves bytes unread for want of space only at a message longer
\* than the buffer: the precise meaning of "maximum BUF_SIZE" in epoll_net.h.
THEOREM ReadStalls == Spec => []OnlyOversizeStalls
<1>1. ReadInv => OnlyOversizeStalls
  <2> SUFFICES ASSUME ReadInv, NEW w \in Worker, pc[w] = "loop", size_remain[w] = 0,
                      r_data = 0, NEW b \in Boundary, processed < b, b <= processed + BufSize
               PROVE  FALSE
    BY DEF OnlyOversizeStalls
  <2>1. r_size = BufSize
    BY ReadAssumption DEF ReadInv, BufferGeometry, TypeOK
  <2>2. received = processed + BufSize
    BY <2>1 DEF ReadInv, BufferContent
  <2>3. \A v \in Worker : pc[v] # "process"
    BY DEF ReadInv, BufferGeometry
  <2>4. QED
    BY <2>2, <2>3, ReadAssumption DEF ReadInv, NoWholeMessageLeft, TypeOK
<1>2. QED
  BY <1>1, InitRead, InvStep, PTL DEF Spec

\* Messages are handled whole, in stream order and never twice, whichever
\* threads run handle_read (process_data's return value and r_data).
THEOREM ReadInOrder == Spec => HandledInOrder
<1>1. ReadInv /\ [Next]_vars =>
        [processed' # processed =>
           processed' > processed /\ processed' \in Boundary /\ processed' <= received]_vars
  <2> SUFFICES ASSUME ReadInv, ReadInv', [Next]_vars, processed' # processed
               PROVE  processed' > processed /\ processed' \in Boundary
                      /\ processed' <= received
    BY InvStep
  <2>1. PICK w \in Worker : Process(w)
    BY DEF Next, Run, HandleRead, Arrive, PeerCloses, Rearm, DispatchRead,
       NothingReady, RemoteClose, GetContext, Lock, Compact, BufferFull, ReadBytes,
       ReadAgain, ReadFails, vars
  <2>2. received' = received /\ \E n \in 0 .. r_size : processed' = processed + n
    BY <2>1 DEF Process
  <2>3. processed \in Nat /\ r_size \in Nat /\ processed' \in {0} \cup Boundary
        /\ processed' <= received'
    BY ReadAssumption DEF ReadInv, TypeOK, NoWholeMessageLeft
  <2>4. QED
    BY <2>2, <2>3
<1>2. QED
  BY <1>1, InitRead, InvStep, PTL DEF Spec, HandledInOrder

\* A thread leaves handle_read with the connection ended, all read, or no room.
LEMMA SeenLeaving ==
  ASSUME ReadInv, InputSeen, NEW w \in Worker, BufferFull(w) \/ ReadAgain(w) \/ ReadFails(w)
  PROVE  InputSeen'
<1>1. CASE BufferFull(w)
  <2>1. r_size = BufSize
    BY <1>1, ReadAssumption, SMT DEF BufferFull, ReadInv, BufferGeometry, TypeOK
  <2> QED
    BY <1>1, <2>1, Zenon DEF BufferFull, InputSeen, bufVars, kernelVars
<1>2. CASE ReadAgain(w)
  <2>1. arrived' = received' /\ ~fin' /\ arrived' \in Nat
    BY <1>2, ReadAssumption, SMT DEF ReadAgain, kernelVars, ReadInv, TypeOK
  <2>2. ~(arrived' > received')
    BY <2>1, SMT
  <2> QED
    BY <2>1, <2>2, Zenon DEF InputSeen
<1>3. CASE ReadFails(w)
  BY <1>3, Zenon DEF ReadFails, InputSeen
<1> QED
  BY <1>1, <1>2, <1>3, Zenon

LEMMA SeenStep == ASSUME ReadInv, InputSeen, [Next]_vars PROVE InputSeen'
<1> DEFINE Busy == \E w \in Worker : pc[w] # "idle"
<1>1. ASSUME NEW w \in Worker, HandleRead(w) PROVE InputSeen'
  <2>1. ASSUME pc'[w] # "idle", UNCHANGED <<fin, ready, open>> PROVE InputSeen'
    BY <2>1, Zenon DEF InputSeen
  <2>2. CASE GetContext(w)
    <3>1. pc' = [pc EXCEPT ![w] = IF open THEN "lock" ELSE "idle"]
      BY <2>2, Zenon DEF GetContext, Goto
    <3>2. open => pc'[w] # "idle"
      BY <3>1, SMT DEF ReadInv, TypeOK
    <3>3. UNCHANGED <<fin, ready, open>>
      BY <2>2, Zenon DEF GetContext, kernelVars
    <3> QED
      BY <2>1, <3>2, <3>3, Zenon DEF InputSeen
  <2>3. CASE Lock(w) \/ Compact(w) \/ ReadBytes(w) \/ Process(w)
    <3>1. pc'[w] # "idle"
      BY <2>3, SMT DEF Lock, Compact, ReadBytes, Process, Goto, ReadInv, TypeOK
    <3>2. UNCHANGED <<fin, ready, open>>
      BY <2>3, Zenon DEF Lock, Compact, ReadBytes, Process, kernelVars
    <3> QED
      BY <2>1, <3>1, <3>2, Zenon
  <2> QED
    BY <1>1, <2>2, <2>3, SeenLeaving, Zenon DEF HandleRead
<1>2. CASE (\E n \in 1 .. Total : Arrive(n)) \/ PeerCloses
  <2>1. /\ ready' = open /\ open' = open
    BY <1>2, Zenon DEF Arrive, PeerCloses
  <2> QED
    BY <2>1, Zenon DEF InputSeen
<1>3. CASE Rearm
  BY <1>3, Zenon DEF Rearm, InputSeen
<1>4. CASE DispatchRead
  <2>1. queued' > 0
    BY <1>4, SMT DEF DispatchRead, ReadInv, TypeOK
  <2> QED
    BY <1>4, <2>1, Zenon DEF DispatchRead, InputSeen
<1>5. CASE NothingReady
  <2>1. arrived' = received' /\ ~fin' /\ arrived' \in Nat
    BY <1>5, ReadAssumption, SMT DEF NothingReady, ReadInv, TypeOK
  <2>2. ~(arrived' > received')
    BY <2>1, SMT
  <2> QED
    BY <2>1, <2>2, Zenon DEF InputSeen
<1>6. CASE RemoteClose
  BY <1>6, Zenon DEF RemoteClose, InputSeen
<1>7. CASE UNCHANGED vars
  BY <1>7, Zenon DEF vars, InputSeen
<1> QED
  BY <1>1, <1>2, <1>3, <1>4, <1>5, <1>6, <1>7, Zenon DEF Next, Run

\* No edge is lost between a reader that leaves and the next event, whatever the
\* number of threads: the safety that EveryMessageHandled rests on.
THEOREM ReadSees == Spec => []InputSeen
<1>1. Init => InputSeen
  BY SMT DEF Init, InputSeen
<1>2. ReadInv /\ InputSeen /\ [Next]_vars => ReadInv' /\ InputSeen'
  BY InvStep, SeenStep, Zenon
<1> QED
  BY <1>1, <1>2, InitRead, PTL DEF Spec
=============================================================================
