--------------------------- MODULE TcpWriteProofs ---------------------------
(***************************************************************************)
(* Theorems about TcpWrite for any number of senders and workers, any      *)
(* request sizes, any send buffer and any low-water mark.                  *)
(***************************************************************************)
EXTENDS TcpWrite, SequenceTheorems, TLAPS

LEMMA TypeInit == Init => TypeOK
<1> SUFFICES ASSUME Init PROVE TypeOK
  OBVIOUS
<1> USE WriteAssumption DEF Init
<1>1. w_req_q \in Seq(Request)
  BY EmptySeq
<1>2. space \in 0 .. SndBuf
  OBVIOUS
<1>3. /\ reset \in BOOLEAN /\ out \in BOOLEAN /\ ready \in BOOLEAN
      /\ nospace \in BOOLEAN /\ ordered \in BOOLEAN /\ killed \in BOOLEAN
  OBVIOUS
<1>4. /\ enqueued \in 0 .. MaxBytes /\ queued \in 0 .. MaxQueued /\ wire \in 0 .. MaxBytes
      /\ w_byte \in [Worker -> 0 .. MaxBytes]
  OBVIOUS
<1>5. QED
  BY <1>1, <1>2, <1>3, <1>4 DEF TypeOK

-----------------------------------------------------------------------------
(***************************************************************************)
(* The order of the wire.  TypeOK and WireInOrder are inductive together:  *)
(* that wire and the sizes stay within MaxBytes follows from the order.    *)
(***************************************************************************)
OrderInv == TypeOK /\ WireInOrder

LEMMA OrderInit == Init => OrderInv
<1> SUFFICES ASSUME Init PROVE WireInOrder
  BY TypeInit DEF OrderInv
<1>1. OneWriter /\ Chained /\ Unaccounted = 0
  BY WriteAssumption DEF Init, OneWriter, Chained, Unaccounted
<1>2. QED
  BY <1>1 DEF Init, WireInOrder

\* The steps that leave the queue and the wire alone.
LEMMA IdleStep ==
  ASSUME OrderInv, [Next]_vars,
         UNCHANGED <<w_req_q, enqueued, wire, ordered, w_byte>>,
         \A w \in Worker : pc[w] = "account" <=> pc'[w] = "account",
         OneWriter' /\ TypeOK'
  PROVE  OrderInv'
<1>1. Unaccounted' = Unaccounted
  BY DEF OrderInv, WireInOrder, OneWriter, Unaccounted
<1>2. Chained'
  BY DEF OrderInv, WireInOrder, Chained
<1>3. QED
  BY <1>1, <1>2 DEF OrderInv, WireInOrder

LEMMA EmplaceStep ==
  ASSUME OrderInv, NEW s \in Sender, NEW n \in Sizes, Emplace(s, n)
  PROVE  OrderInv'
<1> USE WriteAssumption DEF OrderInv, WireInOrder
<1> DEFINE r == [data |-> enqueued, size |-> n]
<1>1. /\ enqueued \in Nat /\ n \in Nat /\ n > 0 /\ enqueued + n <= MaxBytes
      /\ MaxBytes \in Nat /\ w_req_q \in Seq(Request)
  BY DEF Emplace, TypeOK
<1>2. r \in Request /\ r.data = enqueued /\ r.size = n
  BY <1>1 DEF Request
<1>3. /\ w_req_q' = Append(w_req_q, r) /\ enqueued' = enqueued + n
      /\ sender' = [sender EXCEPT ![s] = "modify"]
      /\ UNCHANGED <<w_mutex, pc, w_byte, queued, link, reset, out, ready, space,
                     nospace, wire, ordered, killed>>
  BY DEF Emplace, SenderTo, taskVars, kernelVars, wireVars
<1> HIDE DEF r
<1>4. /\ Len(w_req_q) \in Nat /\ Len(w_req_q') = Len(w_req_q) + 1
      /\ \A i \in 1 .. Len(w_req_q) : w_req_q'[i] = w_req_q[i]
      /\ w_req_q'[Len(w_req_q) + 1] = r /\ w_req_q' \in Seq(Request)
      /\ w_req_q' # << >>
      /\ Head(w_req_q') = w_req_q'[1]
      /\ w_req_q # << >> => Head(w_req_q) = w_req_q[1] /\ Len(w_req_q) > 0
      /\ w_req_q = << >> => Len(w_req_q) = 0
  BY <1>1, <1>2, <1>3, AppendProperties, LenProperties, EmptySeq, HeadTailProperties
<1>5. TypeOK'
  <2>1. sender' \in [Sender -> {"idle", "emplace", "modify"}] /\ enqueued' \in 0 .. MaxBytes
    BY <1>1, <1>3 DEF TypeOK
  <2>2. QED
    BY <1>3, <1>4, <2>1 DEF TypeOK
<1>6. w_req_q # << >> => Head(w_req_q') = Head(w_req_q)
  BY <1>4
<1>7. OneWriter'
  BY <1>3, <1>4, <1>6 DEF OneWriter
<1>8. Chained'
  <2>1. SUFFICES ASSUME NEW i \in 1 .. Len(w_req_q')
                 PROVE  w_req_q'[i].data + w_req_q'[i].size =
                          IF i = Len(w_req_q') THEN enqueued' ELSE w_req_q'[i + 1].data
    BY DEF Chained
  <2>2. CASE i = Len(w_req_q) + 1
    BY <1>2, <1>3, <1>4, <2>2
  <2>3. CASE i = Len(w_req_q)
    BY <1>2, <1>3, <1>4, <2>1, <2>3 DEF Chained
  <2>4. CASE i < Len(w_req_q)
    BY <1>3, <1>4, <2>1, <2>4 DEF Chained
  <2>5. QED
    BY <1>4, <2>1, <2>2, <2>3, <2>4
<1>9. Unaccounted' = Unaccounted /\ (w_req_q = << >> => Unaccounted = 0)
  BY <1>3 DEF Unaccounted, OneWriter
<1>10. wire' = Head(w_req_q').data + Unaccounted'
  BY <1>1, <1>2, <1>3, <1>4, <1>6, <1>9
<1>11. QED
  BY <1>3, <1>4, <1>5, <1>7, <1>8, <1>10

LEMMA FrontFacts ==
  ASSUME OrderInv, w_req_q # << >>
  PROVE  /\ Head(w_req_q) = w_req_q[1] /\ Len(w_req_q) \in Nat /\ Len(w_req_q) > 0
         /\ w_req_q \in Seq(Request)
         /\ Head(w_req_q).data \in Nat /\ Head(w_req_q).size \in Nat
         /\ Head(w_req_q).size > 0
         /\ Head(w_req_q).data + Head(w_req_q).size <= MaxBytes
<1>1. /\ Head(w_req_q) = w_req_q[1] /\ Len(w_req_q) \in Nat /\ Len(w_req_q) > 0
      /\ w_req_q \in Seq(Request)
  BY HeadTailProperties, LenProperties, EmptySeq DEF OrderInv, TypeOK
<1>2. \A i \in 1 .. Len(w_req_q) : w_req_q[i] \in Request
  BY <1>1, ElementOfSeq
<1>3. w_req_q[1] \in Request
  BY <1>1, <1>2
<1>4. w_req_q[1].data + w_req_q[1].size =
        IF 1 = Len(w_req_q) THEN enqueued ELSE w_req_q[2].data
  <2>1. 1 \in 1 .. Len(w_req_q) /\ 1 + 1 = 2
    BY <1>1
  <2>2. QED
    BY <2>1 DEF OrderInv, WireInOrder, Chained
<1>5. enqueued <= MaxBytes
  BY WriteAssumption DEF OrderInv, TypeOK
<1>l. Len(w_req_q) \in Nat /\ Len(w_req_q) > 0
  BY <1>1
<1>6. Len(w_req_q) # 1 => w_req_q[2].data <= MaxBytes
  <2>n. \A k \in Nat : k > 0 /\ k # 1 => 2 \in 1 .. k
    OBVIOUS
  <2>1. Len(w_req_q) # 1 => 2 \in 1 .. Len(w_req_q)
    BY <1>l, <2>n
  <2>2. QED
    BY <1>2, <2>1, WriteAssumption DEF Request
<1>7. w_req_q[1].data + w_req_q[1].size <= MaxBytes
  BY <1>4, <1>5, <1>6
<1>8. w_req_q[1].data \in Nat /\ w_req_q[1].size \in Nat /\ w_req_q[1].size > 0
  BY <1>3, WriteAssumption DEF Request
<1>9. QED
  BY <1>1, <1>7, <1>8

LEMMA WriteStep ==
  ASSUME OrderInv, NEW w \in Worker, WriteSome(w)
  PROVE  OrderInv'
<1> USE WriteAssumption DEF OrderInv
<1> DEFINE n == IF Head(w_req_q).size <= space THEN Head(w_req_q).size ELSE space
<1>1. /\ pc[w] = "loop" /\ w_req_q # << >> /\ space > 0
      /\ w_byte' = [w_byte EXCEPT ![w] = n] /\ space' = space - n
      /\ nospace' = (nospace \/ n < Head(w_req_q).size)
      /\ ordered' = (ordered /\ Head(w_req_q).data = wire)
      /\ wire' = wire + n /\ pc' = [pc EXCEPT ![w] = "account"]
      /\ UNCHANGED <<w_req_q, enqueued, sender, w_mutex, queued, link, reset, out, ready,
                     killed>>
  BY DEF WriteSome, Writing, Goto, sendVars
<1>2. /\ Head(w_req_q).data \in Nat /\ Head(w_req_q).size \in Nat
      /\ Head(w_req_q).size > 0
      /\ Head(w_req_q).data + Head(w_req_q).size <= MaxBytes
  BY <1>1, FrontFacts
<1>3. space \in Nat /\ space <= SndBuf /\ SndBuf \in Nat /\ MaxBytes \in Nat
  BY DEF TypeOK
<1>4. n \in 1 .. Head(w_req_q).size /\ n <= space
  BY <1>1, <1>2, <1>3
<1> HIDE DEF n
<1>5. w_mutex = w /\ \A v \in Worker : pc[v] # "account"
  BY <1>1 DEF WireInOrder, OneWriter
<1>6. wire = Head(w_req_q).data
  BY <1>1, <1>2, <1>5 DEF WireInOrder, Unaccounted
<1>7. TypeOK'
  <2>1. wire' \in 0 .. MaxBytes /\ space' \in 0 .. SndBuf
    BY <1>1, <1>2, <1>3, <1>4, <1>6
  <2>2. w_byte' \in [Worker -> 0 .. MaxBytes]
    BY <1>1, <1>2, <1>3, <1>4 DEF TypeOK
  <2>3. nospace' \in BOOLEAN /\ ordered' \in BOOLEAN
    BY <1>1 DEF TypeOK
  <2>4. QED
    BY <1>1, <2>1, <2>2, <2>3 DEF TypeOK
<1>8. OneWriter'
  BY <1>1, <1>4, <1>5 DEF WireInOrder, OneWriter, TypeOK
<1>9. Unaccounted' = n
  <2>1. pc'[w] = "account" /\ w_byte'[w] = n /\ w_mutex' = w
    BY <1>1, <1>5 DEF TypeOK
  <2>2. QED
    BY <2>1 DEF Unaccounted
<1>10. QED
  BY <1>1, <1>6, <1>7, <1>8, <1>9 DEF WireInOrder, Chained

LEMMA AccountStep ==
  ASSUME OrderInv, NEW w \in Worker, Account(w)
  PROVE  OrderInv'
<1> USE WriteAssumption DEF OrderInv
<1> DEFINE req == Head(w_req_q)
           b == w_byte[w]
           rest == [data |-> req.data + b, size |-> req.size - b]
<1>1. /\ pc[w] = "account" /\ pc' = [pc EXCEPT ![w] = "loop"]
      /\ w_req_q' = IF req.size = b THEN Tail(w_req_q) ELSE [w_req_q EXCEPT ![1] = rest]
      /\ UNCHANGED <<enqueued, sender, w_mutex, w_byte, queued, link, reset, out, ready,
                     space, nospace, wire, ordered, killed>>
  BY DEF Account, Goto, sendVars, kernelVars, wireVars
<1>2. /\ w_req_q # << >> /\ b \in 1 .. req.size /\ w_mutex = w
      /\ \A v \in Worker : pc[v] \in {"loop", "account"} => v = w
  BY <1>1 DEF WireInOrder, OneWriter
<1>3. /\ req = w_req_q[1] /\ Len(w_req_q) \in Nat /\ Len(w_req_q) > 0
      /\ w_req_q \in Seq(Request)
      /\ req.data \in Nat /\ req.size \in Nat /\ req.data + req.size <= MaxBytes
  BY <1>2, FrontFacts
<1>4. wire = req.data + b
  BY <1>1, <1>2 DEF WireInOrder, Unaccounted
<1>5. (\A v \in Worker : pc'[v] # "account") /\ Unaccounted' = 0
  BY <1>1, <1>2 DEF Unaccounted, TypeOK
<1>6. OneWriter'
  BY <1>1, <1>2, <1>5 DEF WireInOrder, OneWriter, TypeOK
<1>7. \A i \in 1 .. Len(w_req_q) :
        w_req_q[i].data + w_req_q[i].size =
          IF i = Len(w_req_q) THEN enqueued ELSE w_req_q[i + 1].data
  BY DEF WireInOrder, Chained
<1>t. pc' \in [Worker -> {"idle", "lock", "loop", "account"}]
  BY <1>1 DEF TypeOK
<1>u. w_req_q' \in Seq(Request) /\ pc' \in [Worker -> {"idle", "lock", "loop", "account"}]
      => TypeOK'
  BY <1>1 DEF TypeOK
<1>v. wire' = wire /\ ordered' = ordered /\ enqueued' = enqueued /\ ordered
  BY <1>1 DEF WireInOrder
<1> HIDE DEF req, b
<1>8. CASE req.size = b
  <2>a. w_req_q' = Tail(w_req_q)
    BY <1>1, <1>8
  <2>b. /\ w_req_q' \in Seq(Request)
        /\ Len(w_req_q') = Len(w_req_q) - 1
        /\ \A i \in 1 .. Len(w_req_q) - 1 : w_req_q'[i] = w_req_q[i + 1]
    BY <1>2, <1>3, <2>a, HeadTailProperties
  <2>c. /\ w_req_q' # << >> => Head(w_req_q') = w_req_q'[1] /\ Len(w_req_q') > 0
        /\ w_req_q' = << >> => Len(w_req_q') = 0
    BY <2>b, HeadTailProperties, LenProperties, EmptySeq
  <2>1. /\ w_req_q' = Tail(w_req_q) /\ w_req_q' \in Seq(Request)
        /\ Len(w_req_q') = Len(w_req_q) - 1
        /\ \A i \in 1 .. Len(w_req_q) - 1 : w_req_q'[i] = w_req_q[i + 1]
        /\ w_req_q' # << >> => Head(w_req_q') = w_req_q'[1] /\ Len(w_req_q') > 0
        /\ w_req_q' = << >> => Len(w_req_q') = 0
    BY <2>a, <2>b, <2>c
  <2>n. Len(w_req_q) \in Nat /\ Len(w_req_q) > 0 /\ Len(w_req_q') = Len(w_req_q) - 1
    BY <1>3, <2>b
  <2>2. TypeOK'
    BY <1>t, <1>u, <2>1
  <2>3. Chained'
    <3>1. ASSUME NEW i \in 1 .. Len(w_req_q')
          PROVE  w_req_q'[i].data + w_req_q'[i].size =
                   IF i = Len(w_req_q') THEN enqueued ELSE w_req_q'[i + 1].data
      <4>1. i + 1 \in 1 .. Len(w_req_q) /\ i \in 1 .. Len(w_req_q) - 1
            /\ (i = Len(w_req_q') <=> i + 1 = Len(w_req_q))
            /\ (i # Len(w_req_q') => i + 1 \in 1 .. Len(w_req_q) - 1)
        BY <2>n
      <4>2. QED
        BY <1>7, <2>1, <4>1
    <3>2. QED
      BY <1>1, <3>1 DEF Chained
  <2>4. wire = IF w_req_q' = << >> THEN enqueued ELSE Head(w_req_q').data
    <3>1. wire = IF 1 = Len(w_req_q) THEN enqueued ELSE w_req_q[2].data
      <4>1. 1 \in 1 .. Len(w_req_q) /\ 1 + 1 = 2
        BY <2>n
      <4>2. QED
        BY <1>3, <1>4, <1>7, <1>8, <4>1
    <3>2. Len(w_req_q) # 1 => 1 \in 1 .. Len(w_req_q) - 1 /\ 1 + 1 = 2
      BY <2>n
    <3>3. QED
      BY <1>3, <2>1, <3>1, <3>2
  <2>5. w_req_q' # << >> => Head(w_req_q').data \in Nat
    <3>1. ASSUME w_req_q' # << >> PROVE Head(w_req_q') \in Request
      BY <2>b, <3>1, HeadTailProperties
    <3>2. QED
      BY <3>1 DEF Request
  <2>6. QED
    BY <1>1, <1>5, <1>6, <2>2, <2>3, <2>4, <2>5 DEF WireInOrder
<1>9. CASE req.size # b
  <2>1. rest \in Request /\ rest.data = req.data + b
        /\ rest.data + rest.size = req.data + req.size
    <3>1. /\ req.data \in Nat /\ req.size \in Nat /\ b \in Nat /\ b < req.size
          /\ req.data + req.size <= MaxBytes /\ MaxBytes \in Nat
      BY <1>2, <1>3, <1>9
    <3>2. req.data + b \in 0 .. MaxBytes /\ req.size - b \in 1 .. MaxBytes
          /\ (req.data + b) + (req.size - b) = req.data + req.size
      BY <3>1
    <3>3. QED
      BY <3>2 DEF Request
  <2> HIDE DEF rest
  <2>2. w_req_q' = [w_req_q EXCEPT ![1] = rest]
    BY <1>1, <1>9
  <2>3. /\ w_req_q' \in Seq(Request) /\ Len(w_req_q') = Len(w_req_q)
        /\ w_req_q'[1] = rest
        /\ \A i \in 1 .. Len(w_req_q) : i # 1 => w_req_q'[i] = w_req_q[i]
        /\ w_req_q' # << >>
    BY <1>3, <2>1, <2>2, ExceptSeq, LenProperties, EmptySeq
  <2>4. Head(w_req_q') = rest
    BY <2>3, HeadTailProperties
  <2>5. TypeOK'
    BY <1>t, <1>u, <2>3
  <2>6. Chained'
    <3>1. ASSUME NEW i \in 1 .. Len(w_req_q)
          PROVE  w_req_q'[i].data + w_req_q'[i].size =
                   IF i = Len(w_req_q) THEN enqueued ELSE w_req_q'[i + 1].data
      <4>1. w_req_q'[i].data + w_req_q'[i].size = w_req_q[i].data + w_req_q[i].size
        BY <1>3, <2>1, <2>3, <3>1
      <4>2. i # Len(w_req_q) => i + 1 \in 1 .. Len(w_req_q) /\ i + 1 # 1
        BY <1>3, <3>1
      <4>3. QED
        BY <1>7, <2>3, <4>1, <4>2
    <3>2. QED
      BY <1>1, <2>3, <3>1 DEF Chained
  <2>7. rest.data \in Nat
    BY <1>2, <1>3, <2>1
  <2>8. QED
    BY <1>1, <1>4, <1>5, <1>6, <2>1, <2>3, <2>4, <2>5, <2>6, <2>7 DEF WireInOrder
<1>10. QED
  BY <1>8, <1>9

LEMMA OrderStep == OrderInv /\ [Next]_vars => OrderInv'
<1> SUFFICES ASSUME OrderInv, [Next]_vars PROVE OrderInv'
  OBVIOUS
<1> USE DEF sendVars, taskVars, kernelVars, wireVars, Goto, SenderTo
<1>1. ASSUME NEW s \in Sender, NEW n \in Sizes, Emplace(s, n) PROVE OrderInv'
  BY <1>1, EmplaceStep
<1>2. ASSUME NEW w \in Worker, WriteSome(w) PROVE OrderInv'
  BY <1>2, WriteStep
<1>3. ASSUME NEW w \in Worker, Account(w) PROVE OrderInv'
  BY <1>3, AccountStep
<1>4. ASSUME NEW w \in Worker,
             GetContext(w) \/ Lock(w) \/ QueueEmpty(w) \/ WriteAgain(w) \/ WriteReset(w)
             \/ WriteClosed(w) \/ WriteBrokenPipe(w)
      PROVE  OrderInv'
  <2>3. UNCHANGED <<w_req_q, enqueued, wire, ordered, w_byte, sender, space, out, reset>>
    BY <1>4 DEF GetContext, Lock, QueueEmpty, WriteAgain, WriteReset, WriteClosed,
       WriteBrokenPipe
  <2>a. /\ pc' \in [Worker -> {"idle", "lock", "loop", "account"}]
        /\ w_mutex' \in Worker \cup {Nobody}
        /\ link' \in {"up", "shut", "closed"}
    BY <1>4 DEF OrderInv, TypeOK, GetContext, Lock, QueueEmpty, WriteAgain,
       WriteReset, WriteClosed, WriteBrokenPipe, Leave, Writing
  <2>b. ready' \in BOOLEAN /\ nospace' \in BOOLEAN /\ killed' \in BOOLEAN
    BY <1>4 DEF OrderInv, TypeOK, GetContext, Lock, QueueEmpty, WriteAgain,
       WriteReset, WriteClosed, WriteBrokenPipe
  <2>c. queued' = queued \/ (queued > 0 /\ queued' = queued - 1)
    BY <1>4 DEF GetContext, Lock, QueueEmpty, WriteAgain, WriteReset, WriteClosed,
       WriteBrokenPipe
  <2>d. queued' \in 0 .. MaxQueued
    BY <2>c, WriteAssumption DEF OrderInv, TypeOK
  <2>1. TypeOK'
    BY <2>3, <2>a, <2>b, <2>d DEF OrderInv, TypeOK
  <2>2. OneWriter' /\ \A v \in Worker : pc[v] = "account" <=> pc'[v] = "account"
    BY <1>4, WriteAssumption DEF OrderInv, TypeOK, WireInOrder, OneWriter, GetContext, Lock,
       QueueEmpty, WriteAgain, WriteReset, WriteClosed, WriteBrokenPipe, Leave, Writing
  <2>4. QED
    BY <2>1, <2>2, <2>3, IdleStep
<1>5. ASSUME \/ \E s \in Sender : Lookup(s) \/ Modify(s)
             \/ Run \/ ShutDown \/ Close \/ InputArrives \/ PeerResets
             \/ \E n \in 1 .. SndBuf : PeerReads(n)
             \/ UNCHANGED vars
      PROVE  OrderInv'
  <2>1. UNCHANGED <<w_req_q, enqueued, wire, ordered, killed, w_mutex, pc, w_byte>>
    BY <1>5 DEF Lookup, Modify, Run, DispatchWrite, NothingReady, ShutDown, Close,
       InputArrives, PeerResets, PeerReads, vars
  <2>2. OneWriter'
    BY <2>1 DEF OrderInv, WireInOrder, OneWriter
  <2>3. /\ reset' \in BOOLEAN /\ out' \in BOOLEAN /\ ready' \in BOOLEAN
        /\ nospace' \in BOOLEAN /\ link' \in {"up", "shut", "closed"}
    BY <1>5 DEF OrderInv, TypeOK, Lookup, Modify, Run, DispatchWrite, NothingReady,
       ShutDown, Close, InputArrives, PeerResets, PeerReads, vars
  <2>4. /\ sender' \in [Sender -> {"idle", "emplace", "modify"}]
        /\ queued' \in 0 .. MaxQueued /\ space' \in 0 .. SndBuf
    BY <1>5, WriteAssumption DEF OrderInv, TypeOK, Lookup, Modify, Run, DispatchWrite,
       NothingReady, ShutDown, Close, InputArrives, PeerResets, PeerReads, vars
  <2>5. TypeOK'
    BY <2>1, <2>3, <2>4 DEF OrderInv, TypeOK
  <2>6. QED
    BY <2>1, <2>2, <2>5, IdleStep
<1>6. QED
  BY <1>1, <1>2, <1>3, <1>4, <1>5 DEF Next, SendData, HandleWrite

\* The wire carries the requests whole and in queue order, for any number of
\* threads sending and writing at once (send_data, handle_write).
THEOREM WriteOrdered == Spec => [](TypeOK /\ WireInOrder)
<1>1. OrderInv => TypeOK /\ WireInOrder
  BY DEF OrderInv
<1>2. QED
  BY <1>1, OrderInit, OrderStep, PTL DEF Spec

-----------------------------------------------------------------------------
(***************************************************************************)
(* No request is stranded.  The strengthening: a queued request of a live  *)
(* connection has EPOLLOUT in the interest set, or its send_data is about  *)
(* to put it there.                                                        *)
(***************************************************************************)
Rearmed ==
  w_req_q # << >> /\ link = "up" => out \/ \E s \in Sender : sender[s] = "modify"

LEMMA StrandedStep ==
  TypeOK /\ WireInOrder /\ Rearmed /\ NoStrandedRequest /\ [Next]_vars
  => Rearmed' /\ NoStrandedRequest'
<1> SUFFICES ASSUME TypeOK, WireInOrder, Rearmed, NoStrandedRequest, [Next]_vars
             PROVE  Rearmed' /\ NoStrandedRequest'
  OBVIOUS
<1> USE WriteAssumption DEF Rearmed, NoStrandedRequest, Goto, SenderTo, sendVars, taskVars,
    kernelVars, wireVars
<1>t. /\ sender \in [Sender -> {"idle", "emplace", "modify"}]
      /\ pc \in [Worker -> {"idle", "lock", "loop", "account"}]
      /\ queued \in Nat
  BY DEF TypeOK
<1>1. ASSUME NEW s \in Sender, Lookup(s) PROVE Rearmed' /\ NoStrandedRequest'
  BY <1>1, <1>t DEF Lookup, Writable
<1>2. ASSUME NEW s \in Sender, NEW n \in Sizes, Emplace(s, n)
      PROVE  Rearmed' /\ NoStrandedRequest'
  BY <1>2, <1>t DEF Emplace
<1>3. ASSUME NEW s \in Sender, Modify(s) PROVE Rearmed' /\ NoStrandedRequest'
  BY <1>3, <1>t DEF Modify, Writable
<1>4. ASSUME NEW w \in Worker, GetContext(w) \/ Lock(w) PROVE Rearmed' /\ NoStrandedRequest'
  <2>1. link = "up" => pc'[w] # "idle"
    BY <1>4, <1>t DEF GetContext, Lock
  <2>2. UNCHANGED <<w_req_q, link, out, sender>>
    BY <1>4 DEF GetContext, Lock
  <2>3. QED
    BY <2>1, <2>2
<1>5. ASSUME NEW w \in Worker, QueueEmpty(w) PROVE Rearmed' /\ NoStrandedRequest'
  BY <1>5 DEF QueueEmpty
<1>6. ASSUME NEW w \in Worker, WriteSome(w) \/ Account(w)
      PROVE  Rearmed' /\ NoStrandedRequest'
  <2>1. pc'[w] # "idle" /\ UNCHANGED <<link, out, sender>> /\ w_req_q # << >>
    <3>1. CASE WriteSome(w)
      BY <3>1, <1>t DEF WriteSome, Writing
    <3>2. CASE Account(w)
      BY <3>2, <1>t DEF Account, WireInOrder, OneWriter
    <3>3. QED
      BY <1>6, <3>1, <3>2
  <2>2. QED
    BY <2>1
<1>7. ASSUME NEW w \in Worker, WriteAgain(w) PROVE Rearmed' /\ NoStrandedRequest'
  <2>1. /\ UNCHANGED <<w_req_q, link, out, sender, queued>> /\ nospace' /\ ~Writable'
        /\ w_req_q # << >>
    BY <1>7 DEF WriteAgain, Writing, Writable
  <2>2. QED
    BY <2>1
<1>8. ASSUME NEW w \in Worker, WriteReset(w) \/ WriteClosed(w) \/ WriteBrokenPipe(w)
      PROVE  Rearmed' /\ NoStrandedRequest'
  BY <1>8 DEF WriteReset, WriteClosed, WriteBrokenPipe, Writing
<1>9. CASE Run
  <2>1. CASE DispatchWrite
    BY <2>1, <1>t DEF DispatchWrite
  <2>2. CASE NothingReady
    <3>1. /\ UNCHANGED <<w_req_q, link, out, sender>>
          /\ ~out \/ ~Writable
          /\ ~Writable => nospace'
          /\ Writable' <=> Writable
      BY <2>2 DEF NothingReady, Writable
    <3>2. QED
      BY <3>1
  <2>3. QED
    BY <1>9, <2>1, <2>2 DEF Run
<1>10. CASE ShutDown \/ Close
  BY <1>10 DEF ShutDown, Close
<1>11. CASE InputArrives \/ PeerResets \/ UNCHANGED vars
  BY <1>11 DEF InputArrives, PeerResets, vars, Writable
<1>12. ASSUME NEW n \in 1 .. SndBuf, PeerReads(n) PROVE Rearmed' /\ NoStrandedRequest'
  BY <1>12 DEF PeerReads, Writable
<1>13. QED
  BY <1>1, <1>2, <1>3, <1>4, <1>5, <1>6, <1>7, <1>8, <1>9, <1>10, <1>11, <1>12
     DEF Next, SendData, HandleWrite

\* A request queued on a live connection always has an epoll_ctl, an event, a
\* task or the kernel's next EPOLLOUT ahead of it (send_data's order of emplace
\* and modify_event against handle_write's loop).
THEOREM WriteNotStranded == Spec => []NoStrandedRequest
<1>1. Init => Rearmed /\ NoStrandedRequest
  BY DEF Init, Rearmed, NoStrandedRequest
<1>2. QED
  BY <1>1, StrandedStep, WriteOrdered, PTL DEF Spec
=============================================================================
