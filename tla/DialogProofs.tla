----------------------------- MODULE DialogProofs -----------------------------
(***************************************************************************)
(* Dialog, for every set of accounts, clients, files and rates: the        *)
(* conversions on the wire give back what was put in, the types hold,      *)
(* only a query for a login's type puts the server out of step, the client *)
(* can read what comes as long as no piece of a playback ends inside a     *)
(* message, and every reply and every file a query asks for is the one     *)
(* that is due.                                                            *)
(***************************************************************************)
EXTENDS Dialog, TLAPS

-----------------------------------------------------------------------------
(* The wire: byte order, and the password *)

Byte == 0 .. 255
Word16 == {d \in Nat : d < 65536}

\* The number that two or four bytes make.
Number16(y, z) == y * 256 + z
Number32(w, x, y, z) == w * 16777216 + x * 65536 + y * 256 + z

\* Every number is made of bytes.
LEMMA Digits16 ==
  ASSUME NEW d \in Word16
  PROVE  \E y, z \in Byte : d = Number16(y, z)
<1> DEFINE y == d \div 256
           z == d % 256
<1>1. y \in Byte /\ z \in Byte /\ d = y * 256 + z
  BY SMT DEF Byte, Word16
<1>2. d = Number16(y, z)
  BY <1>1, SMT DEF Number16
<1> QED
  BY <1>1, <1>2, Zenon

LEMMA LastByte ==
  ASSUME NEW d \in Nat
  PROVE  \E q \in Nat, z \in Byte : d = q * 256 + z
<1>1. d \div 256 \in Nat /\ d % 256 \in Byte
  BY SMT DEF Byte
<1>2. d = (d \div 256) * 256 + (d % 256)
  BY SMT
<1> QED
  BY <1>1, <1>2, Zenon

LEMMA Digits32 ==
  ASSUME NEW d \in Word32
  PROVE  \E w, x, y, z \in Byte : d = Number32(w, x, y, z)
<1>1. d \in Nat
  BY SMT DEF Word32
<1>2. PICK q1 \in Nat, z \in Byte : d = q1 * 256 + z
  BY <1>1, LastByte, Zenon
<1>3. PICK q2 \in Nat, y \in Byte : q1 = q2 * 256 + y
  BY LastByte, Zenon
<1>4. PICK w \in Nat, x \in Byte : q2 = w * 256 + x
  BY LastByte, Zenon
<1>5. d = Number32(w, x, y, z)
  BY <1>2, <1>3, <1>4, SMT DEF Number32, Byte
<1>6. w \in Byte
  BY <1>1, <1>5, SMT DEF Number32, Byte, Word32
<1> QED
  BY <1>5, <1>6, Zenon

\* ReverseEndian of a number given by its bytes.
LEMMA Reversed16 ==
  ASSUME NEW y \in Byte, NEW z \in Byte
  PROVE  ReverseEndian16(Number16(y, z)) = Number16(z, y)
<1> DEFINE d == y * 256 + z
<1>1. (d \div 256) % 256 = y /\ d % 256 = z
  BY SMT DEF Byte
<1> HIDE DEF d
<1>2. ReverseEndian16(d) = Number16(z, y)
  BY <1>1, SMT DEF ReverseEndian16, Number16, Byte
<1> QED
  BY <1>2, Zenon DEF d, Number16

LEMMA Reversed32 ==
  ASSUME NEW w \in Byte, NEW x \in Byte, NEW y \in Byte, NEW z \in Byte
  PROVE  ReverseEndian32(Number32(w, x, y, z)) = Number32(z, y, x, w)
<1> DEFINE d == Number32(w, x, y, z)
           p == w * 256 + x
           q == p * 256 + y
<1>1. d = q * 256 + z /\ p \in Nat /\ q \in Nat
  BY SMT DEF Byte, Number32
<1>2. q % 256 = y /\ q \div 256 = p /\ p % 256 = x /\ p \div 256 = w /\ w % 256 = w
  BY SMT DEF Byte
<1>3. d % 256 = z /\ d \div 256 = q
  BY <1>1, SMT DEF Byte
<1>4. d \div 65536 = p
  BY SMT DEF Byte, Number32
<1>5. d \div 16777216 = w
  BY SMT DEF Byte, Number32
<1> HIDE DEF d, p, q
<1>6. ReverseEndian32(d) = w + x * 256 + y * 65536 + z * 16777216
  BY <1>2, <1>3, <1>4, <1>5, SMT DEF ReverseEndian32
<1>7. ReverseEndian32(d) = Number32(z, y, x, w)
  BY <1>6, SMT DEF Number32, Byte
<1> QED
  BY <1>7, Zenon DEF d

\* FormatData at both ends gives every 16-bit value back (common.cpp:18).
THEOREM ReverseTwice16 ==
  ASSUME NEW d \in Word16
  PROVE  ReverseEndian16(ReverseEndian16(d)) = d
<1>1. PICK y, z \in Byte : d = Number16(y, z)
  BY Digits16, Zenon
<1> QED
  BY <1>1, Reversed16, Zenon

\* And every 32-bit value (common.cpp:28).
THEOREM ReverseTwice32 ==
  ASSUME NEW d \in Word32
  PROVE  ReverseEndian32(ReverseEndian32(d)) = d
<1>1. PICK w, x, y, z \in Byte : d = Number32(w, x, y, z)
  BY Digits32, Zenon
<1>2. ReverseEndian32(d) = Number32(z, y, x, w)
  BY <1>1, Reversed32, Zenon
<1>3. ReverseEndian32(Number32(z, y, x, w)) = Number32(w, x, y, z)
  BY Reversed32, Zenon
<1> QED
  BY <1>1, <1>2, <1>3, Zenon

\* A signed flag arrives as it was sent (bse_server.cpp:485, bse_client.cpp:132).
THEOREM FlagArrives ==
  ASSUME NEW flag \in Int, -32768 <= flag, flag < 32768
  PROVE  Int16(ReverseEndian16(ReverseEndian16(UInt16(flag)))) = flag
<1>1. UInt16(flag) \in Word16 /\ Int16(UInt16(flag)) = flag
  BY SMT DEF UInt16, Int16, Word16
<1>2. ReverseEndian16(ReverseEndian16(UInt16(flag))) = UInt16(flag)
  BY <1>1, ReverseTwice16, SMT
<1> QED
  BY <1>1, <1>2, SMT

-----------------------------------------------------------------------------
(* The password *)

LEMMA SmallestLargest ==
  ASSUME NEW m \in Nat, NEW n \in Nat, NEW S, S \subseteq m .. n, m \in S, n \in S
  PROVE  Min(S) = m /\ Max(S) = n
<1>1. \A x \in S : (\A y \in S : x <= y) <=> x = m
  BY SMT
<1>2. \A x \in S : (\A y \in S : x >= y) <=> x = n
  BY SMT
<1>3. Min(S) = m
  BY <1>1, Zenon DEF Min
<1>4. Max(S) = n
  BY <1>2, Zenon DEF Max
<1> QED
  BY <1>3, <1>4, Zenon

\* A password that begins and ends with no space, and fits in the field,
\* arrives as it was sent: the server trims what the client padded
\* (bse_client.cpp:51, bse_server.cpp:455).
THEOREM PasswordArrives ==
  ASSUME NEW C, NEW pwd \in Seq(C), NEW pwlen \in Nat, Len(pwd) <= pwlen,
         pwd # << >> => pwd[1] # Space /\ pwd[Len(pwd)] # Space
  PROVE  trim(Password(pwd, pwlen)) = pwd
<1> DEFINE field == Password(pwd, pwlen)
           n == Len(pwd)
<1>1. /\ DOMAIN field = 1 .. pwlen /\ Len(field) = pwlen /\ field \in Seq(C \cup {Space})
      /\ \A i \in 1 .. n : field[i] = pwd[i]
      /\ \A i \in 1 .. pwlen : i > n => field[i] = Space
      /\ n \in Nat /\ DOMAIN pwd = 1 .. n
  BY SMT DEF Password
<1> HIDE DEF field
<1>2. CASE pwd = << >>
  <2>1. n = 0
    BY <1>2, SMT
  <2>2. Black(field) = {}
    BY <1>1, <2>1, SMT DEF Black
  <2>3. ltrim(field) = << >>
    BY <2>2, Zenon DEF ltrim
  <2>4. Black(<< >>) = {}
    BY SMT DEF Black
  <2> QED
    BY <1>2, <2>3, <2>4, Zenon DEF trim, rtrim, field
<1>3. CASE pwd # << >>
  <2>1. n >= 1 /\ n <= pwlen
    BY <1>1, <1>3, SMT
  <2>2. Black(field) \subseteq 1 .. n /\ 1 \in Black(field) /\ n \in Black(field)
    BY <1>1, <1>3, <2>1, SMT DEF Black
  <2>3. Min(Black(field)) = 1 /\ Max(Black(field)) = n
    BY <1>1, <2>2, SmallestLargest, SMT
  <2>4. SubSeq(field, 1, Len(field)) = field
    BY <1>1, SMT
  <2>5. ltrim(field) = field
    BY <2>2, <2>3, <2>4, Zenon DEF ltrim
  <2>6. SubSeq(field, 1, n) = pwd
    BY <1>1, <2>1, SMT
  <2>7. rtrim(field) = pwd
    BY <2>2, <2>3, <2>6, Zenon DEF rtrim
  <2> QED
    BY <2>5, <2>7, Zenon DEF trim, field
<1> QED
  BY <1>2, <1>3, Zenon

-----------------------------------------------------------------------------
(* Messages and units *)

LEMMA MessageTypes ==
  /\ FeedLogin \in Word32 /\ FeedLogoff \in Word32
  /\ 8 \in Word32
BY SMT DEF FeedLogin, FeedLogoff, Word32

LEMMA FileBounds ==
  /\ FileSize \in Nat \ {0} /\ Boundary \subseteq 1 .. FileSize /\ FileSize \in Boundary
  /\ SlicePerSec \in Nat \ {0} /\ DftBufSize \in Nat \ {0}
  /\ \A a \in Account : a.jnl_rate \in Nat
  /\ Reply \notin Files
  /\ MaxBroadcasts \in Nat /\ MaxPlaybacks \in Nat
BY DialogAssumption, Zenon DEF Reply

LEMMA UnitCases ==
  ASSUME NEW unit \in Unit
  PROVE  \/ \E type \in {FeedLogin, FeedLogoff}, flag \in {0, -2} :
              unit = ReplyUnit(LoginReply, type, FormatData16(UInt16(flag)))
         \/ unit = ReplyUnit(QueryReply, QueryReplyErr, FormatData32(1))
         \/ unit = ReplyUnit(QueryReply, QueryReplyOk, FormatData32(10))
         \/ unit \in [file : Files, pos : 1 .. FileSize]
BY SMT DEF Unit

\* Replies are of one size, which the client finds in their header.
LEMMA ReplySize ==
  ASSUME NEW unit \in Unit, unit.file = Reply
  PROVE  SizeExpect(unit) = QueryReply
<1>1. unit \notin [file : Files, pos : 1 .. FileSize]
  BY FileBounds, SMT
<1>2. LoginReply - PHSizeType = 8 /\ QueryReply - PHSizeType = 8
  BY SMT DEF LoginReply, QueryReply, PacketHeader, PHSizeType
<1>3. \A type, value : /\ ReplyUnit(LoginReply, type, value).Size = FormatData32(8)
                       /\ ReplyUnit(QueryReply, type, value).Size = FormatData32(8)
  BY <1>2, SMT DEF ReplyUnit
<1>4. unit.Size = FormatData32(8)
  BY <1>1, <1>3, UnitCases, Zenon
<1>5. FormatData32(FormatData32(8)) = 8
  BY ReverseTwice32, MessageTypes, Zenon DEF FormatData32
<1> QED
  BY <1>4, <1>5, SMT DEF SizeExpect, QueryReply, PacketHeader, PHSizeType

\* A stretch of a file.
LEMMA ChunkType ==
  ASSUME NEW file \in Files, NEW from \in Nat, NEW n \in Nat, from + n <= FileSize
  PROVE  Chunk(file, from, n) \in Seq(Unit)
<1>1. ASSUME NEW i \in 1 .. n
      PROVE  [file |-> file, pos |-> from + i] \in Unit
  <2>1. from + i \in 1 .. FileSize
    BY FileBounds, SMT
  <2>2. [file |-> file, pos |-> from + i] \in [file : Files, pos : 1 .. FileSize]
    BY <2>1, SMT
  <2> QED
    BY <2>2, SMT DEF Unit
<1> QED
  BY <1>1, SMT DEF Chunk

LEMMA AccountOf ==
  ASSUME NEW code \in Code
  PROVE  Accounts_(code) \in Account
BY Zenon DEF Code, Accounts_

LEMMA FileTypes ==
  /\ NoFile \in Files
  /\ \A a \in Account : a.pb_file \in Files /\ a.jnl_file \in Files
  /\ \A code \in Code \cup {None} : \A type : QueryFile(code, type) \in Files
<1>1. NoFile \in Files /\ \A a \in Account : a.pb_file \in Files /\ a.jnl_file \in Files
  BY Zenon DEF Files, Pushed
<1>2. ASSUME NEW code \in Code \cup {None}, NEW type
      PROVE  QueryFile(code, type) \in Files
  <2>1. CASE code = None
    BY <1>1, <2>1, Zenon DEF QueryFile
  <2>2. CASE code # None
    <3>1. Accounts_(code) \in Account
      BY <2>2, AccountOf, Zenon
    <3>2. ASSUME type \in DOMAIN Accounts_(code).q_files
          PROVE  Accounts_(code).q_files[type] \in Files
      <4>1. Accounts_(code).q_files[type]
              \in {Accounts_(code).q_files[t] : t \in DOMAIN Accounts_(code).q_files}
        BY <3>2, SMT
      <4>2. Accounts_(code).q_files[type] \in QueryFiles
        BY <3>1, <4>1, SMT DEF QueryFiles
      <4> QED
        BY <4>2, Zenon DEF Files
    <3> QED
      BY <1>1, <3>2, Zenon DEF QueryFile
  <2> QED
    BY <2>1, <2>2, Zenon
<1> QED
  BY <1>1, <1>2, Zenon

LEMMA ReplyTypes ==
  /\ \A type \in {FeedLogin, FeedLogoff}, flag \in {0, -2} :
       ReplyUnit(LoginReply, type, FormatData16(UInt16(flag))) \in Unit
  /\ ReplyUnit(QueryReply, QueryReplyErr, FormatData32(1)) \in Unit
  /\ ReplyUnit(QueryReply, QueryReplyOk, FormatData32(10)) \in Unit
BY SMT DEF Unit

\* The sizes of a playback's pieces.
LEMMA Sizes ==
  ASSUME NEW a \in Account
  PROVE  BufSize(a) \in Nat \ {0} /\ RateSize(a) \in Nat
<1>1. a.jnl_rate \in Nat
  BY FileBounds, Zenon
<1> QED
  BY <1>1, FileBounds, SMT DEF BufSize, RateSize

-----------------------------------------------------------------------------
(* Types *)

LEMMA QueuedTypes ==
  ASSUME TypeOK
  PROVE  /\ LoginMessage(FeedLogin) \in Message /\ LoginMessage(FeedLogoff) \in Message
         /\ client.query_msgs \in Seq(Word32)
         /\ [i \in DOMAIN client.query_msgs |-> QueryMessage(client.query_msgs[i])] \in Seq(Message)
<1>1. LoginMessage(FeedLogin) \in Message /\ LoginMessage(FeedLogoff) \in Message
  BY SMT DEF Message
<1>2. client.query_msgs \in Seq(Word32)
  BY DialogAssumption, Zenon DEF TypeOK
<1>3. \A i \in DOMAIN client.query_msgs : QueryMessage(client.query_msgs[i]) \in Message
  BY SMT DEF Message
<1>4. \E n \in Nat : DOMAIN client.query_msgs = 1 .. n
  BY <1>2, SMT
<1>5. [i \in DOMAIN client.query_msgs |-> QueryMessage(client.query_msgs[i])] \in Seq(Message)
  BY <1>3, <1>4, SMT
<1> QED
  BY <1>1, <1>2, <1>5, Zenon

\* A message's type and size, as the server reads them.
LEMMA MessageSize ==
  ASSUME TypeOK, NEW m \in Message,
         calc_msg_size(FormatData32(m.Type)) # m.size
  PROVE  \E i \in DOMAIN client.query_msgs : client.query_msgs[i] \in {FeedLogin, FeedLogoff}
<1>1. ASSUME NEW type \in {FeedLogin, FeedLogoff}, m = LoginMessage(type)
      PROVE  FALSE
  <2>1. m.Type = FormatData32(type) /\ m.size = LoginRequest(PwdLen)
    BY <1>1, SMT DEF LoginMessage
  <2>2. FormatData32(m.Type) = type
    BY <2>1, MessageTypes, ReverseTwice32, Zenon DEF FormatData32
  <2>3. calc_msg_size(type) = LoginRequest(PwdLen)
    BY SMT DEF calc_msg_size, LogoffRequest, FeedLogin, FeedLogoff
  <2> QED
    BY <2>1, <2>2, <2>3, Zenon
<1>2. ASSUME NEW i \in DOMAIN client.query_msgs, m = QueryMessage(client.query_msgs[i]),
             client.query_msgs[i] \notin {FeedLogin, FeedLogoff}
      PROVE  FALSE
  <2> DEFINE type == client.query_msgs[i]
  <2>1. m.Type = FormatData32(type) /\ m.size = QueryRequest
    BY <1>2, SMT DEF QueryMessage
  <2>2. type \in Word32
    BY QueuedTypes, SMT
  <2>3. FormatData32(m.Type) = type
    BY <2>1, <2>2, ReverseTwice32, Zenon DEF FormatData32
  <2>4. calc_msg_size(type) = QueryRequest
    BY <1>2, SMT DEF calc_msg_size
  <2> QED
    BY <2>1, <2>3, <2>4, Zenon
<1>3. \/ \E type \in {FeedLogin, FeedLogoff} : m = LoginMessage(type)
     \/ \E i \in DOMAIN client.query_msgs : m = QueryMessage(client.query_msgs[i])
  BY SMT DEF Message
<1> QED
  BY <1>1, <1>2, <1>3, Zenon

\* The slice a playback is about to send lies within the file.
LEMMA SliceType ==
  ASSUME TypeOK, NEW p \in Player, ppc[p] = "send"
  PROVE  /\ Accounts_(playing[p]) \in Account
         /\ Offset(p) \in Nat
         /\ LET n == Least(RateSize(Accounts_(playing[p])), r_size[p] - sent_size[p])
            IN n \in Nat /\ Offset(p) + n <= process_size[p] /\ sent_size[p] + n <= r_size[p]
<1>1. playing[p] \in Code
  BY SMT DEF TypeOK
<1>2. Accounts_(playing[p]) \in Account
  BY <1>1, AccountOf, Zenon
<1>3. /\ process_size[p] \in Nat /\ r_size[p] \in Nat /\ sent_size[p] \in Nat
      /\ r_size[p] <= process_size[p] /\ sent_size[p] < r_size[p]
  BY FileBounds, SMT DEF TypeOK
<1>4. RateSize(Accounts_(playing[p])) \in Nat
  BY <1>2, Sizes, Zenon
<1> QED
  BY <1>2, <1>3, <1>4, SMT DEF Offset, Least

LEMMA TypeInit ==
  ASSUME Init
  PROVE  TypeOK
<1>1. last \in Unit
  BY ReplyTypes, Zenon DEF Init
<1>2. 0 \in 0 .. FileSize /\ 0 \in 0 .. MaxBroadcasts /\ 0 \in 0 .. MaxPlaybacks
  BY FileBounds, SMT
<1>3. up \in Seq(Message) /\ down \in Seq(Unit)
  BY SMT DEF Init
<1>4. astray \in BOOLEAN /\ broken \in BOOLEAN /\ cut \in BOOLEAN
  BY Zenon DEF Init
<1> QED
  BY <1>1, <1>2, <1>3, <1>4, SMT DEF Init, TypeOK

LEMMA SameMessages ==
  ASSUME [Next]_vars
  PROVE  client' = client /\ Message' = Message
<1>1. client' = client
  BY SMT DEF Next, ClientReads, ServerReads, Play, vars, clientVars, Connect, HandleQuit,
         ProcessReply, ProcessFile, Misread, GoAstray, HandleLogin, ReplyLogin, HandleLogoff,
         HandleRequest, SendQueryFile, SendForAccount, StartPlayback, ReadBuffer, SendSlice,
         EndPlayback
<1> QED
  BY <1>1, SMT DEF Message, LoginMessage, QueryMessage

LEMMA AppendMessage ==
  ASSUME NEW M, NEW s \in Seq(M), NEW m \in M
  PROVE  Append(s, m) \in Seq(M) /\ Append(s, m) # << >>
<1> DEFINE t == Append(s, m)
<1>1. t \in Seq(M) /\ Len(t) = Len(s) + 1 /\ Len(s) \in Nat
  BY SMT
<1> HIDE DEF t
<1>2. t # << >>
  BY <1>1, SMT
<1> QED
  BY <1>1, <1>2, Zenon DEF t

\* The client's actions.
LEMMA ClientTypeNext ==
  ASSUME TypeOK, Message' = Message, Connect \/ HandleQuit \/ ClientReads
  PROVE  TypeOK'
<1>1. CASE Connect
  <2>1. up' = Append(up, LoginMessage(FeedLogin)) /\ LoginMessage(FeedLogin) \in Message
    BY <1>1, QueuedTypes, Zenon DEF Connect
  <2>2. up' \in Seq(Message) /\ up' # << >>
    BY <2>1, AppendMessage, Zenon DEF TypeOK
  <2> QED
    BY <1>1, <2>2, SMT DEF TypeOK, Connect, serverVars, receiveVars, playVars, bufferVars
<1>2. CASE HandleQuit
  <2>1. up' = Append(up, LoginMessage(FeedLogoff)) /\ LoginMessage(FeedLogoff) \in Message
    BY <1>2, QueuedTypes, Zenon DEF HandleQuit
  <2>2. up' \in Seq(Message) /\ up' # << >>
    BY <2>1, AppendMessage, Zenon DEF TypeOK
  <2> QED
    BY <1>2, <2>2, SMT DEF TypeOK, HandleQuit, serverVars, receiveVars, playVars, bufferVars
<1>3. CASE ProcessReply
  <2>1. up' \in Seq(Message) /\ (up # << >> => up' # << >>)
    <3>1. CASE UNCHANGED up
      BY <3>1, SMT DEF TypeOK
    <3>2. CASE up' = up \o [i \in DOMAIN client.query_msgs |-> QueryMessage(client.query_msgs[i])]
      <4> DEFINE qs == [i \in DOMAIN client.query_msgs |-> QueryMessage(client.query_msgs[i])]
      <4>1. qs \in Seq(Message) /\ up \in Seq(Message) /\ up' = up \o qs
        BY <3>2, QueuedTypes, SMT DEF TypeOK
      <4> HIDE DEF qs
      <4>2. up' \in Seq(Message) /\ Len(up') = Len(up) + Len(qs) /\ Len(qs) \in Nat
        BY <4>1, SMT
      <4> QED
        BY <4>1, <4>2, SMT
    <3>3. UNCHANGED <<asked, up>>
            \/ up' = up \o [i \in DOMAIN client.query_msgs |-> QueryMessage(client.query_msgs[i])]
      BY <1>3, Zenon DEF ProcessReply
    <3>4. UNCHANGED <<asked, up>> => UNCHANGED up
      BY SMT
    <3> QED
      BY <3>1, <3>2, <3>3, <3>4, Zenon
  <2>2. down' \in Seq(Unit) /\ last' \in Unit
    BY <1>3, SMT DEF ProcessReply, TypeOK
  <2> QED
    BY <1>3, <2>1, <2>2, SMT DEF ProcessReply, TypeOK, serverVars, playVars, bufferVars
<1>4. CASE ProcessFile
  <2>1. down' \in Seq(Unit) /\ last' \in Unit
    BY <1>4, SMT DEF ProcessFile, TypeOK
  <2> QED
    BY <1>4, <2>1, SMT DEF ProcessFile, TypeOK, clientVars, serverVars, playVars, bufferVars
<1>5. CASE Misread
  BY <1>5, SMT DEF Misread, TypeOK, clientVars, serverVars, playVars, bufferVars
<1> QED
  BY <1>1, <1>2, <1>3, <1>4, <1>5, Zenon DEF ClientReads

\* The server's process_data.
LEMMA ServerTypeNext ==
  ASSUME TypeOK, Message' = Message, ServerReads
  PROVE  TypeOK'
<1> DEFINE Sent(units) == /\ Answer(units) /\ units \in Seq(Unit) /\ up # << >>
                          /\ UNCHANGED <<clientVars, others, astray, lookup, receiveVars,
                                         broadcasts, playVars>>
<1>1. CASE GoAstray
  BY <1>1, SMT DEF GoAstray, TypeOK, clientVars, receiveVars, playVars, bufferVars
<1>2. CASE HandleLogin
  BY <1>2, SMT DEF HandleLogin, Arrived, LoginAccepted, Known, TypeOK, clientVars, receiveVars,
                   playVars, bufferVars
<1>3. ASSUME NEW units, Sent(units)
      PROVE  TypeOK'
  <2>1. up' \in Seq(Message) /\ down' \in Seq(Unit)
    BY <1>3, SMT DEF Answer, TypeOK
  <2> QED
    BY <1>3, <2>1, SMT DEF Answer, TypeOK, clientVars, receiveVars, playVars, bufferVars
<1>4. CASE ReplyLogin
  <2>1. \E flag \in {0, -2} :
          Sent(<<ReplyUnit(LoginReply, FeedLogin, FormatData16(UInt16(flag)))>>)
    <3>1. up # << >>
      BY <1>4, SMT DEF ReplyLogin, TypeOK
    <3>2. PICK flag \in {0, -2} : flag = IF LoginAccepted THEN 0 ELSE -2
      BY SMT
    <3>3. ReplyUnit(LoginReply, FeedLogin, FormatData16(UInt16(flag))) \in Unit
      BY ReplyTypes, SMT DEF FeedLogin
    <3>4. <<ReplyUnit(LoginReply, FeedLogin, FormatData16(UInt16(flag)))>> \in Seq(Unit)
      BY <3>3, SMT
    <3>5. Sent(<<ReplyUnit(LoginReply, FeedLogin, FormatData16(UInt16(flag)))>>)
      BY <1>4, <3>1, <3>2, <3>4, SMT DEF ReplyLogin
    <3> QED
      BY <3>5, Zenon
  <2> QED
    BY <1>3, <2>1, Zenon
<1>5. CASE HandleLogoff
  <2>1. Sent(<<ReplyUnit(LoginReply, FeedLogoff, FormatData16(UInt16(0)))>>)
    BY <1>5, ReplyTypes, SMT DEF HandleLogoff, Arrived
  <2> QED
    BY <1>3, <2>1, Zenon
<1>6. CASE HandleRequest
  <2>1. CASE Answer(<<ReplyUnit(QueryReply, QueryReplyErr, FormatData32(1))>>)
    <3>1. Sent(<<ReplyUnit(QueryReply, QueryReplyErr, FormatData32(1))>>)
      BY <1>6, <2>1, ReplyTypes, SMT DEF HandleRequest, Arrived
    <3> QED
      BY <1>3, <3>1, Zenon
  <2>2. CASE /\ down' = Append(down, ReplyUnit(QueryReply, QueryReplyOk, FormatData32(10)))
             /\ pc' = "file" /\ UNCHANGED up
    <3>1. down' \in Seq(Unit) /\ up # << >>
      BY <1>6, <2>2, ReplyTypes, SMT DEF HandleRequest, Arrived, TypeOK
    <3> QED
      BY <1>6, <2>2, <3>1, SMT DEF HandleRequest, TypeOK, clientVars, receiveVars, playVars,
                                   bufferVars
  <2> QED
    BY <1>6, <2>1, <2>2, Zenon DEF HandleRequest
<1>7. CASE SendQueryFile
  <2>1. Chunk(QueryFile(lookup, MsgType), 0, FileSize) \in Seq(Unit)
    <3>1. QueryFile(lookup, MsgType) \in Files
      BY FileTypes, Zenon DEF TypeOK
    <3> QED
      BY <3>1, ChunkType, FileBounds, SMT
  <2>2. Sent(Chunk(QueryFile(lookup, MsgType), 0, FileSize)) \/ Sent(<< >>)
    BY <1>7, <2>1, SMT DEF SendQueryFile, TypeOK
  <2> QED
    BY <1>3, <2>2, Zenon
<1> QED
  BY <1>1, <1>2, <1>4, <1>5, <1>6, <1>7, Zenon DEF ServerReads

\* The threads that send files.
LEMMA SenderTypeNext ==
  ASSUME TypeOK, Message' = Message, SendForAccount \/ \E p \in Player : Play(p)
  PROVE  TypeOK'
<1>1. CASE SendForAccount
  <2>1. Chunk(Accounts_(lookup).pb_file, 0, FileSize) \in Seq(Unit)
    <3>1. Accounts_(lookup) \in Account
      BY <1>1, AccountOf, SMT DEF SendForAccount, TypeOK
    <3> QED
      BY <3>1, FileTypes, ChunkType, FileBounds, SMT
  <2>2. down' \in Seq(Unit)
    BY <1>1, <2>1, SMT DEF SendForAccount, TypeOK
  <2> QED
    BY <1>1, <2>2, FileBounds, SMT DEF SendForAccount, TypeOK, clientVars, serverVars,
                                       receiveVars, playVars, bufferVars
<1>2. ASSUME NEW p \in Player, NEW a \in Account, StartPlayback(p, a)
      PROVE  TypeOK'
  <2>1. a.code \in Code
    BY SMT DEF Code
  <2> QED
    BY <1>2, <2>1, FileBounds, SMT DEF StartPlayback, TypeOK, clientVars, serverVars, receiveVars
<1>3. ASSUME NEW p \in Player, ReadBuffer(p)
      PROVE  TypeOK'
  <2> DEFINE a == Accounts_(playing[p])
             n == Least(BufSize(a), FileSize - process_size[p])
  <2>1. a \in Account
    BY <1>3, AccountOf, SMT DEF ReadBuffer, TypeOK
  <2>2. process_size[p] \in 0 .. FileSize /\ process_size[p] < FileSize
    BY <1>3, SMT DEF ReadBuffer, TypeOK
  <2>3. n \in 1 .. FileSize /\ process_size[p] + n \in 0 .. FileSize /\ n <= process_size[p] + n
    BY <2>1, <2>2, Sizes, FileBounds, SMT DEF Least
  <2>4. /\ process_size' = [process_size EXCEPT ![p] = process_size[p] + n]
        /\ \/ /\ ppc' = [ppc EXCEPT ![p] = "send"]
              /\ r_size' = [r_size EXCEPT ![p] = n]
              /\ sent_size' = [sent_size EXCEPT ![p] = 0]
              /\ UNCHANGED cut
           \/ /\ cut' = (cut \/ InsideMessage(process_size[p] + n))
              /\ ppc[p] = "read"
              /\ UNCHANGED <<ppc, r_size, sent_size>>
    BY <1>3, Zenon DEF ReadBuffer
  <2>5. cut' \in BOOLEAN
    BY <2>4, Zenon DEF TypeOK
  <2> HIDE DEF a, n
  <2>6. /\ ppc' \in [Player -> {"idle", "read", "send"}]
        /\ process_size' \in [Player -> 0 .. FileSize] /\ r_size' \in [Player -> 0 .. FileSize]
        /\ sent_size' \in [Player -> 0 .. FileSize]
        /\ UNCHANGED playing
    <3>1. /\ process_size' \in [Player -> 0 .. FileSize]
          /\ UNCHANGED playing
      BY <1>3, <2>3, <2>4, SMT DEF ReadBuffer, TypeOK
    <3>2. n \in 0 .. FileSize /\ 0 \in 0 .. FileSize
      BY <2>3, FileBounds, SMT
    <3>3. /\ ppc' \in [Player -> {"idle", "read", "send"}]
          /\ r_size' \in [Player -> 0 .. FileSize]
          /\ sent_size' \in [Player -> 0 .. FileSize]
      <4>1. CASE UNCHANGED <<ppc, r_size, sent_size>>
        BY <4>1, SMT DEF TypeOK
      <4>2. CASE /\ ppc' = [ppc EXCEPT ![p] = "send"]
                 /\ r_size' = [r_size EXCEPT ![p] = n]
                 /\ sent_size' = [sent_size EXCEPT ![p] = 0]
        BY <3>2, <4>2, SMT DEF TypeOK
      <4> QED
        BY <2>4, <4>1, <4>2, Zenon
    <3> QED
      BY <3>1, <3>3, Zenon
  <2>7. \A i \in Player :
          /\ ppc'[i] # "idle" => playing[i] \in Code
          /\ ppc'[i] = "send" => r_size'[i] <= process_size'[i] /\ sent_size'[i] < r_size'[i]
    BY <1>3, <2>3, <2>4, FileBounds, SMT DEF ReadBuffer, TypeOK
  <2> QED
    BY <1>3, <2>5, <2>6, <2>7, SMT DEF ReadBuffer, TypeOK, clientVars, serverVars, receiveVars
<1>4. ASSUME NEW p \in Player, SendSlice(p)
      PROVE  TypeOK'
  <2> DEFINE a == Accounts_(playing[p])
             n == Least(RateSize(a), r_size[p] - sent_size[p])
  <2>1. /\ a \in Account /\ Offset(p) \in Nat /\ n \in Nat
        /\ Offset(p) + n <= process_size[p] /\ sent_size[p] + n <= r_size[p]
    BY <1>4, SliceType, SMT DEF SendSlice
  <2>2. Chunk(a.jnl_file, Offset(p), n) \in Seq(Unit)
    <3>1. Offset(p) + n <= FileSize
      BY <2>1, FileBounds, SMT DEF TypeOK
    <3>2. a.jnl_file \in Files
      BY <2>1, FileTypes, Zenon
    <3> HIDE DEF a, n
    <3> QED
      BY <2>1, <3>1, <3>2, ChunkType, Zenon
  <2>3. /\ down' = down \o Chunk(a.jnl_file, Offset(p), n)
        /\ cut' = (cut \/ InsideMessage(Offset(p) + n))
        /\ sent_size' = [sent_size EXCEPT ![p] = sent_size[p] + n]
        /\ ppc' = [ppc EXCEPT ![p] = IF sent_size[p] + n = r_size[p] THEN "read" ELSE "send"]
        /\ ppc[p] = "send"
    BY <1>4, Zenon DEF SendSlice
  <2>4. cut' \in BOOLEAN
    BY <2>3, Zenon DEF TypeOK
  <2>5. down' \in Seq(Unit)
    BY <2>2, <2>3, SMT DEF TypeOK
  <2> HIDE DEF a, n
  <2>6. /\ ppc' \in [Player -> {"idle", "read", "send"}]
        /\ sent_size' \in [Player -> 0 .. FileSize]
        /\ UNCHANGED <<playing, process_size, r_size>>
    BY <1>4, <2>1, <2>3, FileBounds, SMT DEF SendSlice, TypeOK
  <2>7. \A i \in Player :
          /\ ppc'[i] # "idle" => playing[i] \in Code
          /\ ppc'[i] = "send" => r_size[i] <= process_size[i] /\ sent_size'[i] < r_size[i]
    <3> SUFFICES ASSUME NEW i \in Player
                 PROVE  /\ ppc'[i] # "idle" => playing[i] \in Code
                        /\ ppc'[i] = "send" => r_size[i] <= process_size[i]
                                                /\ sent_size'[i] < r_size[i]
      OBVIOUS
    <3>1. CASE i # p
      <4>1. ppc'[i] = ppc[i] /\ sent_size'[i] = sent_size[i]
        BY <2>3, <3>1, SMT DEF TypeOK
      <4> QED
        BY <4>1, SMT DEF TypeOK
    <3>2. CASE i = p
      <4>1. /\ ppc'[p] = IF sent_size[p] + n = r_size[p] THEN "read" ELSE "send"
            /\ sent_size'[p] = sent_size[p] + n
        BY <2>3, SMT DEF TypeOK
      <4>2. /\ sent_size[p] \in Nat /\ r_size[p] \in Nat /\ playing[p] \in Code
            /\ r_size[p] <= process_size[p]
        BY <2>3, FileBounds, SMT DEF TypeOK
      <4> QED
        BY <2>1, <3>2, <4>1, <4>2, SMT
    <3> QED
      BY <3>1, <3>2, Zenon
  <2> QED
    BY <1>4, <2>4, <2>5, <2>6, <2>7, SMT DEF SendSlice, TypeOK, clientVars, serverVars, receiveVars
<1>5. ASSUME NEW p \in Player, EndPlayback(p)
      PROVE  TypeOK'
  BY <1>5, SMT DEF EndPlayback, TypeOK, clientVars, serverVars, receiveVars, bufferVars
<1> QED
  BY <1>1, <1>2, <1>3, <1>4, <1>5, Zenon DEF Play

LEMMA TypeStep ==
  ASSUME TypeOK, [Next]_vars
  PROVE  TypeOK'
<1>1. Message' = Message
  BY SameMessages, Zenon
<1>2. CASE UNCHANGED vars
  BY <1>1, <1>2, SMT DEF TypeOK, vars, clientVars, serverVars, receiveVars, playVars, bufferVars
<1>3. CASE Next
  BY <1>1, <1>3, ClientTypeNext, ServerTypeNext, SenderTypeNext, Zenon DEF Next
<1> QED
  BY <1>2, <1>3, Zenon

\* Every variable has its type, and a slice lies within its buffer and the
\* buffer within the file (bse_server.cpp:223).
THEOREM TypeCorrect == Spec => []TypeOK
<1>1. Init => TypeOK
  BY TypeInit, Zenon
<1>2. TypeOK /\ [Next]_vars => TypeOK'
  BY TypeStep, Zenon
<1> QED
  BY <1>1, <1>2, PTL DEF Spec

-----------------------------------------------------------------------------
(* The server's place among the requests *)

\* Only a query for a message type that is also a login's or a logoff's puts
\* the server out of step (bse_server.cpp:389).
THEOREM StaysInStep == Spec => []InStep
<1>1. Init => InStep
  BY SMT DEF Init, InStep
<1>2. TypeOK /\ InStep /\ [Next]_vars => InStep'
  <2> SUFFICES ASSUME TypeOK, InStep, [Next]_vars
               PROVE  InStep'
    OBVIOUS
  <2>1. client' = client
    BY SameMessages, Zenon
  <2>2. CASE GoAstray
    <3>1. Head(up) \in Message
      BY <2>2, SMT DEF GoAstray, TypeOK
    <3>2. calc_msg_size(FormatData32(Head(up).Type)) # Head(up).size
      BY <2>2, Zenon DEF GoAstray, MsgType, Request
    <3> QED
      BY <2>1, <3>1, <3>2, MessageSize, Zenon DEF InStep
  <2>3. CASE ~GoAstray
    <3>1. astray' = astray
      BY <2>3, SMT DEF Next, ClientReads, ServerReads, Play, vars, serverVars, Connect, HandleQuit,
             ProcessReply, ProcessFile, Misread, HandleLogin, ReplyLogin, HandleLogoff,
             HandleRequest, SendQueryFile, SendForAccount, StartPlayback, ReadBuffer, SendSlice,
             EndPlayback
    <3> QED
      BY <2>1, <3>1, Zenon DEF InStep
  <2> QED
    BY <2>2, <2>3, Zenon
<1> QED
  BY <1>1, <1>2, TypeCorrect, PTL DEF Spec

-----------------------------------------------------------------------------
(* The stream to the client *)

\* Every unit makes sense after the one before it, and the last one ends a
\* message.
Readable(before, s) ==
  /\ s # << >> => Follows(before, s[1])
  /\ \A i \in 1 .. Len(s) - 1 : Follows(s[i], s[i + 1])
  /\ EndsMessage(IF s = << >> THEN before ELSE s[Len(s)])

\* A piece that can be put after the end of any message.
Piece(s) ==
  /\ s # << >> => StartsMessage(s[1])
  /\ \A i \in 1 .. Len(s) - 1 : Follows(s[i], s[i + 1])
  /\ s # << >> => EndsMessage(s[Len(s)])

LEMMA AppendPiece ==
  ASSUME NEW before, NEW s \in Seq(Unit), NEW t \in Seq(Unit),
         Readable(before, s), Piece(t)
  PROVE  Readable(before, s \o t)
<1>1. CASE t = << >>
  <2>1. s \o t = s
    BY <1>1, SMT
  <2> QED
    BY <2>1, Zenon
<1>2. CASE t # << >> /\ s = << >>
  <2>1. s \o t = t
    BY <1>2, SMT
  <2>2. Follows(before, t[1])
    BY <1>2, Zenon DEF Readable, Piece, Follows
  <2> QED
    BY <1>2, <2>1, <2>2, Zenon DEF Readable, Piece
<1>3. CASE t # << >> /\ s # << >>
  <2> DEFINE u == s \o t
  <2>1. /\ Len(s) \in Nat \ {0} /\ Len(t) \in Nat \ {0} /\ Len(u) = Len(s) + Len(t)
        /\ \A i \in 1 .. Len(s) : u[i] = s[i]
        /\ \A i \in 1 .. Len(t) : u[Len(s) + i] = t[i]
        /\ \A i \in 1 .. Len(u) : i > Len(s) => u[i] = t[i - Len(s)]
    BY <1>3, SMT
  <2>2. u # << >> /\ u[1] = s[1] /\ u[Len(u)] = t[Len(t)]
    BY <2>1, SMT
  <2>3. ASSUME NEW i \in 1 .. Len(u) - 1
        PROVE  Follows(u[i], u[i + 1])
    <3>1. CASE i < Len(s)
      <4>1. u[i] = s[i] /\ u[i + 1] = s[i + 1] /\ i \in 1 .. Len(s) - 1
        BY <2>1, <3>1, SMT
      <4> QED
        BY <4>1, Zenon DEF Readable
    <3>2. CASE i = Len(s)
      <4>1. u[i] = s[Len(s)] /\ u[i + 1] = t[1]
        BY <2>1, <3>2, SMT
      <4>2. EndsMessage(s[Len(s)]) /\ StartsMessage(t[1])
        BY <1>3, Zenon DEF Readable, Piece
      <4> QED
        BY <4>1, <4>2, Zenon DEF Follows
    <3>3. CASE i > Len(s)
      <4> DEFINE j == i - Len(s)
      <4>1. u[i] = t[j] /\ u[i + 1] = t[j + 1] /\ j \in 1 .. Len(t) - 1
        BY <2>1, <3>3, SMT
      <4> HIDE DEF j
      <4> QED
        BY <4>1, Zenon DEF Piece
    <3> QED
      BY <2>1, <3>1, <3>2, <3>3, SMT
  <2> HIDE DEF u
  <2>4. Readable(before, u)
    <3>1. Follows(before, u[1])
      BY <1>3, <2>2, Zenon DEF Readable
    <3>2. EndsMessage(u[Len(u)])
      BY <1>3, <2>2, Zenon DEF Piece
    <3> QED
      BY <2>2, <2>3, <3>1, <3>2, Zenon DEF Readable
  <2> QED
    BY <2>4, Zenon DEF u
<1> QED
  BY <1>1, <1>2, <1>3, Zenon

\* What is left when its first unit is taken.
LEMMA TakeUnit ==
  ASSUME NEW before, NEW s \in Seq(Unit), s # << >>, Readable(before, s)
  PROVE  Follows(before, Head(s)) /\ Readable(Head(s), Tail(s))
<1> DEFINE t == Tail(s)
<1>1. Head(s) = s[1] /\ Len(s) \in Nat \ {0} /\ Len(t) = Len(s) - 1 /\ t \in Seq(Unit)
      /\ \A i \in 1 .. Len(t) : t[i] = s[i + 1]
  BY SMT
<1>2. t = << >> <=> Len(s) = 1
  <2> HIDE DEF t
  <2>1. t = << >> <=> Len(t) = 0
    BY <1>1, SMT
  <2> QED
    BY <1>1, <2>1, SMT
<1>3. Follows(before, Head(s))
  BY <1>1, Zenon DEF Readable
<1>4. t # << >> => Follows(Head(s), t[1])
  <2>1. t # << >> => 1 \in 1 .. Len(s) - 1 /\ t[1] = s[1 + 1]
    BY <1>1, <1>2, SMT
  <2> QED
    BY <1>1, <2>1, Zenon DEF Readable
<1>5. ASSUME NEW i \in 1 .. Len(t) - 1
      PROVE  Follows(t[i], t[i + 1])
  <2>1. t[i] = s[i + 1] /\ t[i + 1] = s[(i + 1) + 1] /\ i + 1 \in 1 .. Len(s) - 1
    BY <1>1, SMT
  <2> QED
    BY <2>1, Zenon DEF Readable
<1>6. (IF t = << >> THEN Head(s) ELSE t[Len(t)]) = s[Len(s)]
  BY <1>1, <1>2, SMT
<1>7. EndsMessage(s[Len(s)])
  BY Zenon DEF Readable
<1> HIDE DEF t
<1>8. Readable(Head(s), t)
  BY <1>4, <1>5, <1>6, <1>7, Zenon DEF Readable
<1> QED
  BY <1>3, <1>8, Zenon DEF t

\* A reply is a piece.
LEMMA ReplyPiece ==
  ASSUME NEW size, NEW type, NEW value
  PROVE  Piece(<<ReplyUnit(size, type, value)>>)
<1> DEFINE unit == ReplyUnit(size, type, value)
<1>1. unit.file = Reply
  BY SMT DEF ReplyUnit
<1>2. StartsMessage(unit) /\ EndsMessage(unit)
  BY <1>1, Zenon DEF StartsMessage, EndsMessage
<1> HIDE DEF unit
<1>3. /\ <<unit>>[1] = unit /\ <<unit>>[Len(<<unit>>)] = unit
      /\ \A i \in 1 .. Len(<<unit>>) - 1 : FALSE
  BY SMT
<1>4. Piece(<<unit>>)
  BY <1>2, <1>3, Zenon DEF Piece
<1> QED
  BY <1>4, Zenon DEF unit

\* So is a stretch of a file from one end of a message to another.
LEMMA ChunkPiece ==
  ASSUME NEW file \in Files, NEW from \in Boundary \cup {0}, NEW n \in Nat,
         from + n \in Boundary \cup {0}
  PROVE  Piece(Chunk(file, from, n))
<1> DEFINE s == Chunk(file, from, n)
<1>1. from \in Nat
  BY FileBounds, SMT
<1>2. Len(s) = n /\ \A i \in 1 .. n : s[i].file = file /\ s[i].pos = from + i
  BY SMT DEF Chunk
<1>3. s # << >> <=> n > 0
  BY <1>2, SMT DEF Chunk
<1> HIDE DEF s
<1>4. ASSUME n > 0
      PROVE  StartsMessage(s[1]) /\ EndsMessage(s[n])
  <2>1. s[1].pos - 1 = from /\ s[n].pos = from + n /\ from + n \in Boundary
    BY <1>1, <1>2, <1>4, SMT
  <2> QED
    BY <2>1, Zenon DEF StartsMessage, EndsMessage
<1>5. ASSUME NEW i \in 1 .. n - 1
      PROVE  Follows(s[i], s[i + 1])
  <2>1. /\ s[i].file = file /\ s[i + 1].file = file /\ s[i].pos = from + i
        /\ s[i + 1].pos = s[i].pos + 1 /\ s[i + 1].pos - 1 = s[i].pos
    BY <1>1, <1>2, SMT
  <2>2. file # Reply
    BY FileBounds, Zenon
  <2>3. CASE EndsMessage(s[i])
    <3>1. StartsMessage(s[i + 1])
      BY <2>1, <2>2, <2>3, Zenon DEF EndsMessage, StartsMessage
    <3> QED
      BY <2>3, <3>1, Zenon DEF Follows
  <2>4. CASE ~EndsMessage(s[i])
    BY <2>1, <2>4, Zenon DEF Follows
  <2> QED
    BY <2>3, <2>4, Zenon
<1> QED
  BY <1>2, <1>3, <1>4, <1>5, SMT DEF Piece, s

\* As long as no piece has ended inside a message: the client can read what is
\* on its way, and every playback stands at the end of a message.
Whole(p) ==
  /\ ppc[p] = "read" => process_size[p] \in Boundary \cup {0}
  /\ ppc[p] = "send" => Offset(p) \in Boundary \cup {0}

Intact ==
  ~cut => ~broken /\ Readable(last, down) /\ \A p \in Player : Whole(p)

\* Steps that put nothing, or a piece, at the end of the stream.
LEMMA SentIntact ==
  ASSUME TypeOK, Intact, UNCHANGED <<last, broken>>,
         ~cut' => ~cut,
         \/ UNCHANGED down
         \/ \E t \in Seq(Unit) : down' = down \o t /\ (~cut' => Piece(t)),
         ~cut' => \A p \in Player : Whole(p)'
  PROVE  Intact'
<1> SUFFICES ASSUME ~cut'
             PROVE  Readable(last, down')
  BY Zenon DEF Intact, Readable
<1>1. Readable(last, down) /\ down \in Seq(Unit)
  BY Zenon DEF Intact, TypeOK
<1> QED
  BY <1>1, AppendPiece, Zenon

LEMMA WholeKept ==
  ASSUME Intact, UNCHANGED <<ppc, process_size, r_size, sent_size>>, ~cut
  PROVE  \A p \in Player : Whole(p)'
BY SMT DEF Intact, Whole, Offset

LEMMA ClientIntact ==
  ASSUME TypeOK, Intact, ClientReads
  PROVE  Intact'
<1>1. UNCHANGED <<cut, ppc, process_size, r_size, sent_size>>
  BY SMT DEF ClientReads, ProcessReply, ProcessFile, Misread, playVars, bufferVars
<1> SUFFICES ASSUME ~cut
             PROVE  ~broken' /\ Readable(last', down')
  BY <1>1, WholeKept, SMT DEF Intact
<1>2. Readable(last, down) /\ ~broken /\ down \in Seq(Unit)
  BY Zenon DEF Intact, TypeOK
<1>3. CASE Misread
  <2>1. down # << >> /\ Follows(last, Head(down)) /\ Head(down) \in Unit
    BY <1>2, <1>3, TakeUnit, SMT DEF Misread
  <2>2. Head(down).file = Reply => SizeExpect(Head(down)) = QueryReply
    BY <2>1, ReplySize, Zenon
  <2> QED
    BY <1>3, <2>1, <2>2, Zenon DEF Misread
<1>4. CASE ProcessReply \/ ProcessFile
  <2>1. down # << >> /\ last' = Head(down) /\ down' = Tail(down) /\ broken' = broken
    BY <1>4, SMT DEF ProcessReply, ProcessFile
  <2> QED
    BY <1>2, <2>1, TakeUnit, Zenon
<1> QED
  BY <1>3, <1>4, Zenon DEF ClientReads

LEMMA ServerIntact ==
  ASSUME TypeOK, Intact, ServerReads
  PROVE  Intact'
<1>1. UNCHANGED <<last, broken, cut, ppc, process_size, r_size, sent_size>>
  BY SMT DEF ServerReads, GoAstray, HandleLogin, ReplyLogin, HandleLogoff, HandleRequest,
         SendQueryFile, receiveVars, playVars, bufferVars
<1>2. ~cut' => \A p \in Player : Whole(p)'
  BY <1>1, WholeKept, Zenon
<1>3. \A size, type, value : ReplyUnit(size, type, value) \in Unit =>
        <<ReplyUnit(size, type, value)>> \in Seq(Unit)
  BY SMT
<1>4. CASE GoAstray \/ HandleLogin
  <2>1. UNCHANGED down
    BY <1>4, SMT DEF GoAstray, HandleLogin
  <2> QED
    BY <1>1, <1>2, <2>1, SentIntact, SMT
<1>5. CASE ReplyLogin \/ HandleLogoff \/ HandleRequest
  <2>1. \E size, type, value : /\ ReplyUnit(size, type, value) \in Unit
                              /\ down' = down \o <<ReplyUnit(size, type, value)>>
    <3>1. CASE ReplyLogin
      <4>1. PICK flag \in {0, -2} : flag = IF LoginAccepted THEN 0 ELSE -2
        BY SMT
      <4>2. ReplyUnit(LoginReply, FeedLogin, FormatData16(UInt16(flag))) \in Unit
        BY ReplyTypes, SMT DEF FeedLogin
      <4>3. down' = down \o <<ReplyUnit(LoginReply, FeedLogin, FormatData16(UInt16(flag)))>>
        BY <3>1, <4>1, SMT DEF ReplyLogin, Answer
      <4> QED
        BY <4>2, <4>3, Zenon
    <3>2. CASE HandleLogoff
      <4>1. down' = down \o <<ReplyUnit(LoginReply, FeedLogoff, FormatData16(UInt16(0)))>>
        BY <3>2, SMT DEF HandleLogoff, Answer
      <4>2. ReplyUnit(LoginReply, FeedLogoff, FormatData16(UInt16(0))) \in Unit
        BY ReplyTypes, SMT DEF FeedLogoff
      <4> QED
        BY <4>1, <4>2, Zenon
    <3>3. CASE HandleRequest
      <4>1. \/ down' = down \o <<ReplyUnit(QueryReply, QueryReplyErr, FormatData32(1))>>
           \/ down' = Append(down, ReplyUnit(QueryReply, QueryReplyOk, FormatData32(10)))
        BY <3>3, SMT DEF HandleRequest, Answer
      <4>2. Append(down, ReplyUnit(QueryReply, QueryReplyOk, FormatData32(10)))
              = down \o <<ReplyUnit(QueryReply, QueryReplyOk, FormatData32(10))>>
        BY ReplyTypes, SMT DEF TypeOK
      <4> QED
        BY <4>1, <4>2, ReplyTypes, Zenon
    <3> QED
      BY <1>5, <3>1, <3>2, <3>3, Zenon
  <2>2. \E t \in Seq(Unit) : down' = down \o t /\ Piece(t)
    BY <1>3, <2>1, ReplyPiece, Zenon
  <2> QED
    BY <1>1, <1>2, <2>2, SentIntact, Zenon
<1>6. CASE SendQueryFile
  <2> DEFINE file == QueryFile(lookup, MsgType)
  <2>1. file \in Files
    BY FileTypes, Zenon DEF TypeOK
  <2> HIDE DEF file
  <2>2. Chunk(file, 0, FileSize) \in Seq(Unit) /\ Piece(Chunk(file, 0, FileSize))
    <3>1. 0 + FileSize = FileSize /\ FileSize \in Nat /\ 0 \in Nat /\ FileSize <= FileSize
          /\ FileSize \in Boundary
      BY FileBounds, SMT
    <3> QED
      BY <2>1, <3>1, ChunkType, ChunkPiece, SMT
  <2>3. << >> \in Seq(Unit) /\ Piece(<< >>)
    BY SMT DEF Piece
  <2>4. down' = down \o Chunk(file, 0, FileSize) \/ down' = down \o << >>
    BY <1>6, Zenon DEF SendQueryFile, Answer, file
  <2>5. \E t \in Seq(Unit) : down' = down \o t /\ Piece(t)
    BY <2>2, <2>3, <2>4, Zenon
  <2> QED
    BY <1>1, <1>2, <2>5, SentIntact, Zenon
<1> QED
  BY <1>4, <1>5, <1>6, Zenon DEF ServerReads

LEMMA SenderIntact ==
  ASSUME TypeOK, Intact, SendForAccount \/ \E p \in Player : Play(p)
  PROVE  Intact'
<1>1. CASE SendForAccount
  <2>1. UNCHANGED <<last, broken, cut, ppc, process_size, r_size, sent_size>>
    BY <1>1, SMT DEF SendForAccount, receiveVars, playVars, bufferVars
  <2>2. Accounts_(lookup).pb_file \in Files
    BY <1>1, AccountOf, FileTypes, SMT DEF SendForAccount, TypeOK
  <2>3. /\ Chunk(Accounts_(lookup).pb_file, 0, FileSize) \in Seq(Unit)
        /\ Piece(Chunk(Accounts_(lookup).pb_file, 0, FileSize))
    BY <2>2, ChunkType, ChunkPiece, FileBounds, SMT
  <2>4. \E t \in Seq(Unit) : down' = down \o t /\ Piece(t)
    BY <1>1, <2>3, Zenon DEF SendForAccount
  <2> QED
    BY <2>1, <2>4, WholeKept, SentIntact, Zenon
<1>2. ASSUME NEW p \in Player, NEW a \in Account, StartPlayback(p, a)
      PROVE  Intact'
  <2>1. UNCHANGED <<last, broken, cut, down>>
    BY <1>2, SMT DEF StartPlayback, receiveVars
  <2>2. ASSUME ~cut', NEW i \in Player
        PROVE  Whole(i)'
    BY <1>2, <2>1, <2>2, SMT DEF StartPlayback, Intact, Whole, Offset, TypeOK
  <2> QED
    BY <2>1, <2>2, SentIntact, SMT
<1>3. ASSUME NEW p \in Player, ReadBuffer(p)
      PROVE  Intact'
  <2> DEFINE to == process_size[p] + Least(BufSize(Accounts_(playing[p])), FileSize - process_size[p])
  <2>1. UNCHANGED <<last, broken, down>> /\ (~cut' => ~cut)
    <3>1. UNCHANGED <<last, broken, down>>
      BY <1>3, SMT DEF ReadBuffer, receiveVars
    <3>2. cut' = cut \/ cut' = (cut \/ InsideMessage(to))
      BY <1>3, SMT DEF ReadBuffer
    <3> HIDE DEF to
    <3>3. CASE cut' = cut
      BY <3>1, <3>3, SMT
    <3>4. CASE cut' = (cut \/ InsideMessage(to))
      <4>1. ~cut' => ~cut
        BY <3>4, Zenon
      <4> QED
        BY <3>1, <4>1, SMT
    <3> QED
      BY <3>2, <3>3, <3>4, Zenon
  <2>2. ASSUME ~cut', NEW i \in Player
        PROVE  Whole(i)'
    <3>1. CASE i # p
      <4>1. /\ ppc'[i] = ppc[i] /\ process_size'[i] = process_size[i] /\ r_size'[i] = r_size[i]
            /\ sent_size'[i] = sent_size[i]
        BY <1>3, <3>1, SMT DEF ReadBuffer, TypeOK
      <4> QED
        BY <2>1, <2>2, <4>1, SMT DEF Intact, Whole, Offset
    <3>2. CASE i = p
      <4>1. process_size[p] \in Boundary \cup {0} /\ process_size[p] \in Nat
        BY <1>3, <2>1, <2>2, FileBounds, SMT DEF Intact, Whole, ReadBuffer, TypeOK
      <4>2. CASE lookup = playing[p]
        <5> DEFINE n == Least(BufSize(Accounts_(playing[p])), FileSize - process_size[p])
        <5>1. /\ ppc'[p] = "send" /\ process_size'[p] = process_size[p] + n /\ r_size'[p] = n
              /\ sent_size'[p] = 0
          BY <1>3, <4>2, SMT DEF ReadBuffer, TypeOK
        <5>2. n \in Int
          BY <1>3, <4>1, AccountOf, Sizes, FileBounds, SMT DEF Least, ReadBuffer, TypeOK
        <5> HIDE DEF n
        <5>3. process_size'[p] - r_size'[p] + sent_size'[p] = process_size[p]
          BY <4>1, <5>1, <5>2, SMT
        <5> QED
          BY <3>2, <4>1, <5>1, <5>3, SMT DEF Whole, Offset
      <4>3. CASE lookup # playing[p]
        <5>1. ppc'[p] = "read" /\ process_size'[p] = to /\ ~InsideMessage(to)
          <6>1. cut' = (cut \/ InsideMessage(to))
            BY <1>3, <4>3, Zenon DEF ReadBuffer
          <6>2. ppc'[p] = "read" /\ process_size'[p] = to
            BY <1>3, <4>3, SMT DEF ReadBuffer, TypeOK
          <6> QED
            BY <2>2, <6>1, <6>2, Zenon
        <5> HIDE DEF to
        <5> QED
          BY <3>2, <5>1, SMT DEF Whole, InsideMessage
      <4> QED
        BY <4>2, <4>3, Zenon
    <3> QED
      BY <3>1, <3>2, Zenon
  <2> QED
    BY <2>1, <2>2, SentIntact, SMT
<1>4. ASSUME NEW p \in Player, SendSlice(p)
      PROVE  Intact'
  <2> DEFINE file == Accounts_(playing[p]).jnl_file
             n == Least(RateSize(Accounts_(playing[p])), r_size[p] - sent_size[p])
  <2>1. UNCHANGED <<last, broken, process_size, r_size, playing>>
    BY <1>4, SMT DEF SendSlice, receiveVars
  <2>2. /\ cut' = (cut \/ InsideMessage(Offset(p) + n))
        /\ down' = down \o Chunk(file, Offset(p), n)
        /\ sent_size' = [sent_size EXCEPT ![p] = sent_size[p] + n]
        /\ ppc' = [ppc EXCEPT ![p] = IF sent_size[p] + n = r_size[p] THEN "read" ELSE "send"]
        /\ ppc[p] = "send"
    BY <1>4, Zenon DEF SendSlice
  <2>3. /\ Offset(p) \in Nat /\ n \in Nat /\ Offset(p) + n <= process_size[p]
        /\ sent_size[p] + n <= r_size[p] /\ Accounts_(playing[p]) \in Account
    BY <2>2, SliceType, SMT
  <2>4. file \in Files
    BY <2>3, FileTypes, Zenon
  <2>5. Offset(p) + n <= FileSize
    BY <2>3, FileBounds, SMT DEF TypeOK
  <2> HIDE DEF file, n
  <2>6. Chunk(file, Offset(p), n) \in Seq(Unit)
    BY <2>3, <2>4, <2>5, ChunkType, Zenon
  <2>7. ASSUME ~cut'
        PROVE  /\ ~cut /\ Offset(p) \in Boundary \cup {0} /\ Offset(p) + n \in Boundary \cup {0}
               /\ Piece(Chunk(file, Offset(p), n))
    <3>1. ~cut /\ Offset(p) + n \in Boundary \cup {0}
      BY <2>2, <2>7, Zenon DEF InsideMessage
    <3>2. Offset(p) \in Boundary \cup {0}
      BY <2>2, <3>1, Zenon DEF Intact, Whole
    <3> QED
      BY <2>3, <2>4, <3>1, <3>2, ChunkPiece, Zenon
  <2>8. ASSUME ~cut', NEW i \in Player
        PROVE  Whole(i)'
    <3>1. CASE i # p
      <4>1. /\ ppc'[i] = ppc[i] /\ process_size'[i] = process_size[i] /\ r_size'[i] = r_size[i]
            /\ sent_size'[i] = sent_size[i]
        BY <2>1, <2>2, <3>1, SMT DEF TypeOK
      <4> QED
        BY <2>7, <2>8, <4>1, SMT DEF Intact, Whole, Offset
    <3>2. CASE i = p
      <4>1. /\ ppc'[p] = IF sent_size[p] + n = r_size[p] THEN "read" ELSE "send"
            /\ sent_size'[p] = sent_size[p] + n
        BY <2>2, SMT DEF TypeOK
      <4>2. /\ process_size[p] \in Nat /\ r_size[p] \in Nat /\ sent_size[p] \in Nat
        BY FileBounds, SMT DEF TypeOK
      <4>3. process_size'[p] - r_size'[p] + sent_size'[p] = Offset(p) + n
        BY <2>1, <2>3, <4>1, <4>2, SMT DEF Offset
      <4>4. ppc'[p] = "read" => process_size'[p] = Offset(p) + n
        BY <2>1, <2>3, <4>1, <4>2, SMT DEF Offset
      <4> QED
        BY <2>7, <2>8, <3>2, <4>3, <4>4, SMT DEF Whole, Offset
    <3> QED
      BY <3>1, <3>2, Zenon
  <2>9. \E t \in Seq(Unit) : down' = down \o t /\ (~cut' => Piece(t))
    BY <2>2, <2>6, <2>7, Zenon
  <2>10. (~cut' => ~cut) /\ UNCHANGED <<last, broken>>
    BY <2>1, <2>7, SMT
  <2> QED
    BY <2>8, <2>9, <2>10, SentIntact, Zenon
<1>5. ASSUME NEW p \in Player, EndPlayback(p)
      PROVE  Intact'
  <2>1. UNCHANGED <<last, broken, cut, down>>
    BY <1>5, SMT DEF EndPlayback, receiveVars
  <2>2. ASSUME ~cut', NEW i \in Player
        PROVE  Whole(i)'
    BY <1>5, <2>1, <2>2, SMT DEF EndPlayback, Intact, Whole, Offset, TypeOK, bufferVars
  <2> QED
    BY <2>1, <2>2, SentIntact, SMT
<1> QED
  BY <1>1, <1>2, <1>3, <1>4, <1>5, Zenon DEF Play

\* What the threads of the server send to a client makes sense to it, as long
\* as no piece of a playback ends inside a message (bse_server.cpp:223).
THEOREM StreamIntact == Spec => []FramesIntact
<1>1. Init => Intact
  <2> SUFFICES ASSUME Init
               PROVE  Intact
    OBVIOUS
  <2>1. last.file = Reply /\ down = << >> /\ ~broken
    BY SMT DEF Init, ReplyUnit
  <2>2. Readable(last, down)
    <3>1. EndsMessage(last)
      BY <2>1, Zenon DEF EndsMessage
    <3>2. \A i \in 1 .. Len(down) - 1 : FALSE
      BY <2>1, SMT
    <3> QED
      BY <2>1, <3>1, <3>2, Zenon DEF Readable
  <2>3. \A p \in Player : Whole(p)
    BY SMT DEF Init, Whole
  <2> QED
    BY <2>1, <2>2, <2>3, Zenon DEF Intact
<1>2. TypeOK /\ Intact /\ [Next]_vars => Intact'
  <2> SUFFICES ASSUME TypeOK, Intact, [Next]_vars
               PROVE  Intact'
    OBVIOUS
  <2>1. CASE UNCHANGED <<last, broken, cut, down, ppc, process_size, r_size, sent_size>>
    BY <2>1, WholeKept, SentIntact, SMT
  <2>2. CASE Connect \/ HandleQuit \/ UNCHANGED vars
    <3>1. UNCHANGED <<last, broken, cut, down, ppc, process_size, r_size, sent_size>>
      BY <2>2, SMT DEF Connect, HandleQuit, vars, receiveVars, playVars, bufferVars
    <3> QED
      BY <2>1, <3>1, Zenon
  <2> QED
    BY <2>2, ClientIntact, ServerIntact, SenderIntact, Zenon DEF Next
<1>3. Intact => FramesIntact
  BY Zenon DEF Intact, FramesIntact
<1> QED
  BY <1>1, <1>2, <1>3, TypeCorrect, PTL DEF Spec

-----------------------------------------------------------------------------
(* Answers *)

Own == QueryFiles \ Pushed
Ok10 == [type |-> QueryReplyOk, value |-> 10]

\* A unit on its way after the reply to request `before', when due are the
\* answers to the requests and wanted the files they ask for: it is the next
\* reply, or of the file that the last one announced, or was not asked for.
Entry(unit, before, after, due, wanted) ==
  IF unit.file = Reply
  THEN after = before + 1 /\ ReplyHeard(unit) = due[after]
  ELSE /\ after = before
       /\ unit.file \in Own => after > 0 /\ due[after] = Ok10 /\ unit.file = wanted[after]

\* rank[i] is the request whose reply is the last of the first i units of s: of
\* `got' replies the client has heard, and the reply to request n is the last
\* that was sent.  No two files that answer a query do so to one reply, and
\* none yet to request `front', which the server has not done with.
Ledger(rank, s, got, done, n, front, due, wanted) ==
  /\ rank \in [0 .. Len(s) -> Nat]
  /\ rank[0] = got /\ rank[Len(s)] = n
  /\ \A i, j \in 0 .. Len(s) : i <= j => rank[i] <= rank[j]
  /\ \A i \in 1 .. Len(s) : Entry(s[i], rank[i - 1], rank[i], due, wanted)
  /\ \A i, j \in 1 .. Len(s) : i < j /\ Completes(s[i]) /\ Completes(s[j]) => rank[i] < rank[j]
  /\ \A i \in 1 .. Len(s) : Completes(s[i]) => rank[i] < front
  /\ \A k \in 1 .. Len(done) :
       /\ done[k].after < front
       /\ \A i \in 1 .. Len(s) : Completes(s[i]) => done[k].after < rank[i]

\* The server has sent t: a reply, or a stretch of a file, or nothing.
LEMMA LedgerSent ==
  ASSUME NEW U, NEW s \in Seq(U), NEW t \in Seq(U), NEW rank, NEW got \in Nat, NEW done,
         NEW n \in Nat, NEW m \in Nat, NEW front \in Nat, NEW next \in Nat, NEW due, NEW wanted,
         Ledger(rank, s, got, done, n, front, due, wanted),
         n <= m, front <= next, t = << >> => n = m,
         \A k \in 1 .. Len(done) : done[k].after \in Nat,
         \A i \in 1 .. Len(t) : Entry(t[i], IF i = 1 THEN n ELSE m, m, due, wanted),
         \A i \in 1 .. Len(t) : Completes(t[i]) => n = front /\ m < next,
         \A i, j \in 1 .. Len(t) : Completes(t[i]) /\ Completes(t[j]) => i = j
  PROVE  \E r : Ledger(r, s \o t, got, done, m, next, due, wanted)
<1> DEFINE u == s \o t
           r == [i \in 0 .. Len(u) |-> IF i <= Len(s) THEN rank[i] ELSE m]
<1>1. /\ Len(s) \in Nat /\ Len(t) \in Nat /\ Len(u) = Len(s) + Len(t)
      /\ \A i \in 1 .. Len(u) : i <= Len(s) => u[i] = s[i]
      /\ \A i \in 1 .. Len(u) : i > Len(s) => u[i] = t[i - Len(s)] /\ i - Len(s) \in 1 .. Len(t)
      /\ t = << >> <=> Len(t) = 0
  BY SMT
<1> HIDE DEF u
<1>2. /\ rank \in [0 .. Len(s) -> Nat] /\ rank[0] = got /\ rank[Len(s)] = n
      /\ \A i, j \in 0 .. Len(s) : i <= j => rank[i] <= rank[j]
  BY Zenon DEF Ledger
<1>3. /\ r \in [0 .. Len(u) -> Nat]
      /\ \A i \in 0 .. Len(u) : i <= Len(s) => r[i] = rank[i]
      /\ \A i \in 0 .. Len(u) : i > Len(s) => r[i] = m
  BY <1>1, <1>2, SMT
<1> HIDE DEF r
<1>4. \A i \in 0 .. Len(s) : rank[i] \in Nat /\ rank[i] <= n
  <2>1. ASSUME NEW i \in 0 .. Len(s)
        PROVE  rank[i] \in Nat /\ rank[i] <= n
    <3>1. Len(s) \in 0 .. Len(s) /\ i <= Len(s)
      BY <1>1, SMT
    <3>2. rank[i] \in Nat
      BY <1>2, Zenon
    <3> QED
      BY <1>2, <3>1, <3>2, Zenon
  <2> QED
    BY <2>1, Zenon
<1>5. r[0] = got /\ r[Len(u)] = m
  BY <1>1, <1>2, <1>3, SMT
<1>6. ASSUME NEW i \in 0 .. Len(u), NEW j \in 0 .. Len(u), i <= j
      PROVE  r[i] <= r[j]
  <2>1. CASE j <= Len(s)
    <3>1. r[i] = rank[i] /\ r[j] = rank[j] /\ i \in 0 .. Len(s) /\ j \in 0 .. Len(s)
      BY <1>1, <1>3, <1>6, <2>1, SMT
    <3> QED
      BY <1>2, <1>6, <3>1, Zenon
  <2>2. CASE i <= Len(s) /\ j > Len(s)
    <3>1. r[i] = rank[i] /\ r[j] = m /\ i \in 0 .. Len(s)
      BY <1>1, <1>3, <2>2, SMT
    <3>2. rank[i] \in Nat /\ rank[i] <= n
      BY <1>4, <3>1, Zenon
    <3> QED
      BY <3>1, <3>2, SMT
  <2>3. CASE i > Len(s) /\ j > Len(s)
    <3>1. r[i] = m /\ r[j] = m
      BY <1>3, <2>3, Zenon
    <3> QED
      BY <3>1, SMT
  <2> QED
    BY <1>1, <1>6, <2>1, <2>2, <2>3, SMT
<1>7. ASSUME NEW i \in 1 .. Len(u)
      PROVE  Entry(u[i], r[i - 1], r[i], due, wanted)
  <2>1. CASE i <= Len(s)
    <3>1. u[i] = s[i] /\ r[i - 1] = rank[i - 1] /\ r[i] = rank[i] /\ i \in 1 .. Len(s)
      BY <1>1, <1>3, <2>1, SMT
    <3> QED
      BY <3>1, Zenon DEF Ledger
  <2>2. CASE i > Len(s)
    <3> DEFINE j == i - Len(s)
    <3>1. u[i] = t[j] /\ j \in 1 .. Len(t) /\ r[i] = m
      BY <1>1, <1>3, <2>2, SMT
    <3>2. r[i - 1] = IF j = 1 THEN n ELSE m
      <4>1. i - 1 \in 0 .. Len(u) /\ (j = 1 => i - 1 = Len(s)) /\ (j # 1 => i - 1 > Len(s))
        BY <1>1, <2>2, SMT
      <4>2. CASE j = 1
        <5>1. r[i - 1] = rank[Len(s)]
          BY <1>1, <1>3, <4>1, <4>2, SMT
        <5> QED
          BY <1>2, <4>2, <5>1, Zenon
      <4>3. CASE j # 1
        <5>1. r[i - 1] = m
          BY <1>3, <4>1, <4>3, Zenon
        <5> QED
          BY <4>3, <5>1, Zenon
      <4> QED
        BY <4>2, <4>3, Zenon
    <3> HIDE DEF j
    <3> QED
      BY <3>1, <3>2, Zenon
  <2> QED
    BY <1>1, <2>1, <2>2, SMT
<1>8. \A i \in 1 .. Len(s) : Completes(s[i]) => rank[i] < front
  BY Zenon DEF Ledger
<1>9. ASSUME NEW i \in 1 .. Len(u), NEW j \in 1 .. Len(u), i < j,
             Completes(u[i]), Completes(u[j])
      PROVE  r[i] < r[j]
  <2>1. CASE j <= Len(s)
    <3>1. u[i] = s[i] /\ u[j] = s[j] /\ r[i] = rank[i] /\ r[j] = rank[j]
          /\ i \in 1 .. Len(s) /\ j \in 1 .. Len(s)
      BY <1>1, <1>3, <1>9, <2>1, SMT
    <3> QED
      BY <1>9, <3>1, Zenon DEF Ledger
  <2>2. CASE i <= Len(s) /\ j > Len(s)
    <3>1. u[i] = s[i] /\ i \in 1 .. Len(s) /\ r[i] = rank[i] /\ r[j] = m
          /\ u[j] = t[j - Len(s)] /\ j - Len(s) \in 1 .. Len(t)
      BY <1>1, <1>3, <2>2, SMT
    <3>2. n = front /\ rank[i] < front
      BY <1>8, <1>9, <3>1, Zenon
    <3>3. rank[i] \in Nat
      <4>1. i \in 0 .. Len(s)
        BY <3>1, SMT
      <4> QED
        BY <1>4, <4>1, Zenon
    <3> QED
      BY <3>1, <3>2, <3>3, SMT
  <2>3. CASE i > Len(s)
    <3>1. /\ u[i] = t[i - Len(s)] /\ i - Len(s) \in 1 .. Len(t)
          /\ u[j] = t[j - Len(s)] /\ j - Len(s) \in 1 .. Len(t)
          /\ i - Len(s) # j - Len(s)
      BY <1>1, <1>9, <2>3, SMT
    <3> QED
      BY <1>9, <3>1, Zenon
  <2> QED
    BY <1>1, <2>1, <2>2, <2>3, SMT
<1>10. ASSUME NEW i \in 1 .. Len(u), Completes(u[i])
       PROVE  r[i] < next /\ \A k \in 1 .. Len(done) : done[k].after < r[i]
  <2>1. CASE i <= Len(s)
    <3>1. u[i] = s[i] /\ i \in 1 .. Len(s) /\ r[i] = rank[i] /\ i \in 0 .. Len(s)
      BY <1>1, <1>3, <2>1, SMT
    <3>2. rank[i] < front /\ \A k \in 1 .. Len(done) : done[k].after < rank[i]
      BY <1>8, <1>10, <3>1, Zenon DEF Ledger
    <3>3. rank[i] \in Nat
      BY <1>4, <3>1, Zenon
    <3> QED
      BY <3>1, <3>2, <3>3, SMT
  <2>2. CASE i > Len(s)
    <3>1. u[i] = t[i - Len(s)] /\ i - Len(s) \in 1 .. Len(t) /\ r[i] = m
      BY <1>1, <1>3, <2>2, SMT
    <3>2. n = front /\ m < next
      BY <1>10, <3>1, Zenon
    <3>3. \A k \in 1 .. Len(done) : done[k].after < front
      BY Zenon DEF Ledger
    <3> QED
      BY <3>1, <3>2, <3>3, SMT
  <2> QED
    BY <1>1, <2>1, <2>2, SMT
<1>11. \A k \in 1 .. Len(done) : done[k].after < next
  <2>1. \A k \in 1 .. Len(done) : done[k].after < front
    BY Zenon DEF Ledger
  <2> QED
    BY <2>1, SMT
<1> QED
  <2>1. Ledger(r, u, got, done, m, next, due, wanted)
    BY <1>3, <1>5, <1>6, <1>7, <1>9, <1>10, <1>11, Zenon DEF Ledger
  <2> QED
    BY <2>1, Zenon DEF u

\* The client has taken the first unit.
LEMMA LedgerTaken ==
  ASSUME NEW U, NEW s \in Seq(U), s # << >>, NEW rank, NEW got \in Nat, NEW done,
         NEW n \in Nat, NEW front \in Nat, NEW due, NEW wanted,
         Ledger(rank, s, got, done, n, front, due, wanted),
         NEW more, Len(done) \in Nat,
         \/ more = done
         \/ /\ Completes(s[1]) /\ Len(more) = Len(done) + 1
            /\ \A k \in 1 .. Len(done) : more[k] = done[k]
            /\ more[Len(more)].after = rank[1]
  PROVE  \E r : Ledger(r, Tail(s), rank[1], more, n, front, due, wanted)
<1> DEFINE u == Tail(s)
           r == [i \in 0 .. Len(u) |-> rank[i + 1]]
<1>1. /\ Len(s) \in Nat \ {0} /\ Len(u) = Len(s) - 1
      /\ \A i \in 1 .. Len(u) : u[i] = s[i + 1] /\ i + 1 \in 1 .. Len(s)
  BY SMT
<1> HIDE DEF u
<1>2. /\ rank \in [0 .. Len(s) -> Nat] /\ rank[0] = got /\ rank[Len(s)] = n
      /\ \A i, j \in 0 .. Len(s) : i <= j => rank[i] <= rank[j]
  BY Zenon DEF Ledger
<1>3. r \in [0 .. Len(u) -> Nat] /\ \A i \in 0 .. Len(u) : r[i] = rank[i + 1]
  BY <1>1, <1>2, SMT
<1> HIDE DEF r
<1>4. r[0] = rank[1] /\ r[Len(u)] = n
  BY <1>1, <1>2, <1>3, SMT
<1>5. \A i, j \in 0 .. Len(u) : i <= j => r[i] <= r[j]
  BY <1>1, <1>2, <1>3, SMT
<1>6. ASSUME NEW i \in 1 .. Len(u)
      PROVE  Entry(u[i], r[i - 1], r[i], due, wanted)
  <2>1. u[i] = s[i + 1] /\ i + 1 \in 1 .. Len(s) /\ r[i] = rank[i + 1]
        /\ r[i - 1] = rank[(i + 1) - 1]
    BY <1>1, <1>3, SMT
  <2> QED
    BY <2>1, Zenon DEF Ledger
<1>7. ASSUME NEW i \in 1 .. Len(u), NEW j \in 1 .. Len(u), i < j,
             Completes(u[i]), Completes(u[j])
      PROVE  r[i] < r[j]
  <2>1. /\ u[i] = s[i + 1] /\ i + 1 \in 1 .. Len(s) /\ r[i] = rank[i + 1]
        /\ u[j] = s[j + 1] /\ j + 1 \in 1 .. Len(s) /\ r[j] = rank[j + 1] /\ i + 1 < j + 1
    BY <1>1, <1>3, <1>7, SMT
  <2> QED
    BY <1>7, <2>1, Zenon DEF Ledger
<1>8. ASSUME NEW i \in 1 .. Len(u), Completes(u[i])
      PROVE  r[i] < front /\ \A k \in 1 .. Len(more) : more[k].after < r[i]
  <2>1. u[i] = s[i + 1] /\ i + 1 \in 1 .. Len(s) /\ r[i] = rank[i + 1] /\ 1 < i + 1
        /\ 1 \in 1 .. Len(s)
    BY <1>1, <1>3, SMT
  <2>2. r[i] < front /\ \A k \in 1 .. Len(done) : done[k].after < r[i]
    BY <1>8, <2>1, Zenon DEF Ledger
  <2>3. Completes(s[1]) => rank[1] < r[i]
    BY <1>8, <2>1, Zenon DEF Ledger
  <2>4. CASE more = done
    BY <2>2, <2>4, Zenon
  <2>5. CASE /\ Completes(s[1]) /\ Len(more) = Len(done) + 1
             /\ \A k \in 1 .. Len(done) : more[k] = done[k]
             /\ more[Len(more)].after = rank[1]
    <3>1. \A k \in 1 .. Len(more) : k \in 1 .. Len(done) \/ k = Len(more)
      BY <2>5, SMT
    <3> QED
      BY <2>2, <2>3, <2>5, <3>1, Zenon
  <2> QED
    BY <2>4, <2>5, Zenon
<1>9. \A k \in 1 .. Len(more) : more[k].after < front
  <2>1. \A k \in 1 .. Len(done) : done[k].after < front
    BY Zenon DEF Ledger
  <2>2. CASE more = done
    BY <2>1, <2>2, Zenon
  <2>3. CASE /\ Completes(s[1]) /\ Len(more) = Len(done) + 1
             /\ \A k \in 1 .. Len(done) : more[k] = done[k]
             /\ more[Len(more)].after = rank[1]
    <3>1. \A k \in 1 .. Len(more) : k \in 1 .. Len(done) \/ k = Len(more)
      BY <2>3, SMT
    <3>2. 1 \in 1 .. Len(s)
      BY <1>1, SMT
    <3>3. rank[1] < front
      BY <2>3, <3>2, Zenon DEF Ledger
    <3> QED
      BY <2>1, <2>3, <3>1, <3>3, Zenon
  <2> QED
    BY <2>2, <2>3, Zenon
<1> QED
  <2>1. Ledger(r, u, rank[1], more, n, front, due, wanted)
    BY <1>3, <1>4, <1>5, <1>6, <1>7, <1>8, <1>9, Zenon DEF Ledger
  <2> QED
    BY <2>1, Zenon DEF u

\* What the client reads in each of the replies.
LEMMA RepliesHeard ==
  /\ \A type \in {FeedLogin, FeedLogoff}, flag \in {0, -2} :
       ReplyHeard(ReplyUnit(LoginReply, type, FormatData16(UInt16(flag))))
         = [type |-> type, value |-> flag]
  /\ ReplyHeard(ReplyUnit(QueryReply, QueryReplyErr, FormatData32(1)))
       = [type |-> QueryReplyErr, value |-> 1]
  /\ ReplyHeard(ReplyUnit(QueryReply, QueryReplyOk, FormatData32(10))) = Ok10
<1>2. \A word \in Word32 : FormatData32(FormatData32(word)) = word
  BY ReverseTwice32, Zenon DEF FormatData32
<1>3. ASSUME NEW type \in {FeedLogin, FeedLogoff}, NEW flag \in {0, -2}
      PROVE  ReplyHeard(ReplyUnit(LoginReply, type, FormatData16(UInt16(flag))))
               = [type |-> type, value |-> flag]
  <2>1. FormatData32(FormatData32(type)) = type
    BY <1>2, MessageTypes, Zenon
  <2>2. flag \in Int /\ -32768 <= flag /\ flag < 32768
    BY SMT
  <2>3. Int16(FormatData16(FormatData16(UInt16(flag)))) = flag
    BY <2>2, FlagArrives, SMT DEF FormatData16
  <2> DEFINE unit == ReplyUnit(LoginReply, type, FormatData16(UInt16(flag)))
  <2>4. FormatData32(unit.Type) = type /\ unit.value = FormatData16(UInt16(flag))
    BY <2>1, SMT DEF ReplyUnit
  <2> HIDE DEF unit
  <2>5. ReplyHeard(unit) = [type |-> type, value |-> flag]
    BY <2>3, <2>4, Zenon DEF ReplyHeard
  <2> QED
    BY <2>5, Zenon DEF unit
<1>4. /\ QueryReplyErr \in Word32 /\ QueryReplyOk \in Word32 /\ 1 \in Word32 /\ 10 \in Word32
      /\ QueryReplyErr \notin {FeedLogin, FeedLogoff} /\ QueryReplyOk \notin {FeedLogin, FeedLogoff}
  BY SMT DEF QueryReplyErr, QueryReplyOk, Word32, FeedLogin, FeedLogoff
<1>5. ASSUME NEW size, NEW type \in Word32, NEW value \in Word32,
             type \notin {FeedLogin, FeedLogoff}
      PROVE  ReplyHeard(ReplyUnit(size, type, FormatData32(value)))
               = [type |-> type, value |-> value]
  <2> DEFINE unit == ReplyUnit(size, type, FormatData32(value))
  <2>1. FormatData32(unit.Type) = type /\ FormatData32(unit.value) = value
    BY <1>2, SMT DEF ReplyUnit
  <2> HIDE DEF unit
  <2>2. ReplyHeard(unit) = [type |-> type, value |-> value]
    BY <1>5, <2>1, Zenon DEF ReplyHeard
  <2> QED
    BY <2>2, Zenon DEF unit
<1>6. /\ ReplyHeard(ReplyUnit(QueryReply, QueryReplyErr, FormatData32(1)))
           = [type |-> QueryReplyErr, value |-> 1]
      /\ ReplyHeard(ReplyUnit(QueryReply, QueryReplyOk, FormatData32(10)))
           = [type |-> QueryReplyOk, value |-> 10]
  BY <1>4, <1>5, Zenon
<1> QED
  BY <1>3, <1>6, Zenon DEF Ok10

\* Whether and as what the server reads a request.
LEMMA LoginRead ==
  ASSUME TypeOK, NEW type \in {FeedLogin, FeedLogoff}, up # << >>, up[1] = LoginMessage(type)
  PROVE  MsgType = type /\ Request.size = LoginRequest(PwdLen)
<1>1. Request = LoginMessage(type)
  BY SMT DEF Request, TypeOK
<1>2. Request.Type = FormatData32(type) /\ Request.size = LoginRequest(PwdLen)
  BY <1>1, SMT DEF LoginMessage
<1>3. FormatData32(FormatData32(type)) = type
  BY MessageTypes, ReverseTwice32, Zenon DEF FormatData32
<1> QED
  BY <1>2, <1>3, Zenon DEF MsgType

LEMMA QueryRead ==
  ASSUME TypeOK, NEW type \in Word32, up # << >>, up[1] = QueryMessage(type)
  PROVE  MsgType = type /\ Request.size = QueryRequest
<1>1. Request = QueryMessage(type)
  BY SMT DEF Request, TypeOK
<1>2. Request.Type = FormatData32(type) /\ Request.size = QueryRequest
  BY <1>1, SMT DEF QueryMessage
<1>3. FormatData32(FormatData32(type)) = type
  BY ReverseTwice32, Zenon DEF FormatData32
<1> QED
  BY <1>2, <1>3, Zenon DEF MsgType

LEMMA RequestSizes ==
  /\ LoginRequest(PwdLen) # QueryRequest
  /\ calc_msg_size(FeedLogin) = LoginRequest(PwdLen)
  /\ calc_msg_size(FeedLogoff) = LoginRequest(PwdLen)
  /\ \A type : type \notin {FeedLogin, FeedLogoff} => calc_msg_size(type) = QueryRequest
  /\ FeedLogin # FeedLogoff
<1>1. PwdLen \in Nat
  BY DialogAssumption, Zenon
<1> QED
  BY <1>1, SMT DEF calc_msg_size, LoginRequest, LogoffRequest, QueryRequest, FeedLogin, FeedLogoff

\* A login is accepted if the two configurations agree.
LEMMA LoginAgrees ==
  ASSUME TypeOK, Fits, up # << >>, up[1] = LoginMessage(FeedLogin)
  PROVE  LoginCode = client.code /\ (LoginAccepted <=> Mine(client) # {})
<1>1. Request = LoginMessage(FeedLogin)
  BY SMT DEF Request, TypeOK
<1>2. /\ Request.ClientCode = FormatData16(UInt16(client.code))
      /\ Request.Password = Password(client.pwd, PwdLen)
  BY <1>1, SMT DEF LoginMessage
<1>3. /\ client.code \in Nat /\ client.pwd \in Seq(Character) /\ PwdLen \in Nat
      /\ \A a \in Account : a.code \in Nat
      /\ \A a, b \in Account : a.code = b.code => a = b
  BY DialogAssumption, Zenon DEF TypeOK
<1>4. LoginCode = client.code
  <2>1. client.code \in Word16 /\ UInt16(client.code) = client.code
    BY <1>3, SMT DEF Fits, UInt16, Word16
  <2> QED
    BY <1>2, <2>1, ReverseTwice16, Zenon DEF LoginCode, FormatData16
<1>5. trim(Request.Password) = client.pwd
  <2>1. Len(client.pwd) <= PwdLen
        /\ (client.pwd # << >> => client.pwd[1] # Space /\ client.pwd[Len(client.pwd)] # Space)
    BY SMT DEF Fits
  <2> QED
    <3> DEFINE pwd == client.pwd
    <3>1. pwd \in Seq(Character) /\ Len(pwd) <= PwdLen /\ PwdLen \in Nat
          /\ (pwd # << >> => pwd[1] # Space /\ pwd[Len(pwd)] # Space)
      BY <1>3, <2>1, Zenon
    <3> HIDE DEF pwd
    <3>2. trim(Password(pwd, PwdLen)) = pwd
      BY <3>1, PasswordArrives, Zenon
    <3> QED
      BY <1>2, <3>2, Zenon DEF pwd
<1>6. ASSUME NEW a \in Account, a.code = client.code
      PROVE  Known(LoginCode) /\ Accounts_(LoginCode) = a
  <2>1. LoginCode \in Code
    BY <1>4, <1>6, Zenon DEF Code
  <2>2. Accounts_(LoginCode) \in Account /\ Accounts_(LoginCode).code = LoginCode
    BY <1>4, <1>6, Zenon DEF Accounts_
  <2> QED
    BY <1>3, <1>4, <1>6, <2>1, <2>2, Zenon DEF Known
<1>7. Known(LoginCode) => \E a \in Account : a.code = client.code
  BY <1>4, Zenon DEF Known, Code
<1>8. LoginAccepted <=> \E a \in Account : a.code = client.code /\ a.pwd = client.pwd
  BY <1>5, <1>6, <1>7, Zenon DEF LoginAccepted
<1>9. Mine(client) # {} <=> \E a \in Account : a.code = client.code /\ a.pwd = client.pwd
  BY Zenon DEF Mine
<1> QED
  BY <1>4, <1>8, <1>9, Zenon

-----------------------------------------------------------------------------
(* The invariant of the answers *)

\* Request m is what became of the client's wish to ask for `type'.
Asks(m, type) ==
  \/ type \in {FeedLogin, FeedLogoff} /\ m = LoginMessage(type)
  \/ lookup = client.code /\ m = QueryMessage(type)

\* The last requests the client has asked are those on their way.
Meant(i) == asked[Len(asked) - Len(up) + i]

Mirror ==
  /\ asked \in Seq(Word32) /\ Len(up) <= Len(asked)
  /\ \A i \in 1 .. Len(up) : Asks(up[i], Meant(i))

\* The connection is nobody's or the client's account's, and what the server is
\* handling is what the client meant by it.
Session ==
  /\ lookup \in {None, client.code}
  /\ pc = "login" =>
       /\ up[1] = LoginMessage(FeedLogin) /\ Meant(1) = FeedLogin
       /\ LoginAccepted => lookup = client.code
  /\ pc = "file" =>
       /\ up[1] = QueryMessage(Meant(1)) /\ lookup = client.code
       /\ Meant(1) \notin {FeedLogin, FeedLogoff}
       /\ QueryFile(client.code, Meant(1)) # NoFile

Admitted ==
  \A i \in 1 .. Len(down) :
    down[i].file = Reply /\ Accepted(ReplyHeard(down[i])) => lookup = client.code

\* The answers to the requests, and the files they ask for.
Due == [n \in 1 .. Len(asked) |-> Expected(client, asked[n])]
Wanted == [n \in 1 .. Len(asked) |-> QueryFile(client.code, asked[n])]

\* The request at the front, and the last one that was replied to.
Front == Len(asked) - Len(up) + 1
Answered == IF pc = "file" THEN Front ELSE Front - 1

\* What the client has heard so far is right.
Told ==
  /\ heard \in Seq({ReplyHeard(unit) : unit \in Unit})
  /\ delivered \in Seq([file : Files, after : Nat])
  /\ Len(heard) <= Len(asked)
  /\ \A i \in 1 .. Len(heard) : heard[i] = Due[i]
  /\ \A k \in 1 .. Len(delivered) :
       LET n == delivered[k].after
       IN /\ n \in 1 .. Len(heard) /\ heard[n] = Ok10 /\ delivered[k].file = Wanted[n]
          /\ k > 1 => delivered[k - 1].after < n

Ledgered == \E rank : Ledger(rank, down, Len(heard), delivered, Answered, Front, Due, Wanted)

AnswerInv == Fits /\ ~astray => Mirror /\ Session /\ Admitted /\ Told /\ Ledgered

-----------------------------------------------------------------------------
(* What a step leaves as it was *)

LEMMA Bounds ==
  ASSUME TypeOK, Mirror
  PROVE  /\ Len(asked) \in Nat /\ Front \in 1 .. Len(asked) + 1 /\ Answered \in 0 .. Len(asked)
         /\ up # << >> => Front \in 1 .. Len(asked) /\ 1 \in 1 .. Len(up)
         /\ pc = "file" => Answered = Front
         /\ pc # "file" => Answered = Front - 1
         /\ Meant(1) = asked[Front]
         /\ \A n \in 1 .. Len(asked) :
              Due[n] = Expected(client, asked[n]) /\ Wanted[n] = QueryFile(client.code, asked[n])
<1>1. Len(asked) \in Nat /\ Len(up) \in Nat /\ Len(up) <= Len(asked)
      /\ (up # << >> => Len(up) >= 1) /\ (pc = "file" => up # << >>)
  BY SMT DEF TypeOK, Mirror
<1>2. \A n \in 1 .. Len(asked) :
        Due[n] = Expected(client, asked[n]) /\ Wanted[n] = QueryFile(client.code, asked[n])
  BY SMT DEF Due, Wanted
<1> QED
  BY <1>1, <1>2, SMT DEF Front, Answered, Meant

\* The client asks more.
LEMMA Concatenation ==
  ASSUME NEW A, NEW a \in Seq(A), NEW q \in Seq(A)
  PROVE  /\ a \o q \in Seq(A) /\ Len(a) \in Nat /\ Len(q) \in Nat
         /\ Len(a \o q) = Len(a) + Len(q)
         /\ \A i \in 1 .. Len(a \o q) : i <= Len(a) => (a \o q)[i] = a[i]
         /\ \A i \in 1 .. Len(a \o q) : i > Len(a) => (a \o q)[i] = q[i - Len(a)]
BY SMT

\* Something is put at the end of both a and u.
Joins(a, u, q, ms, b, v) ==
  /\ Len(u) \in Nat /\ Len(v) \in Nat /\ Len(b) \in Nat /\ Len(a) \in Nat
  /\ Len(a) <= Len(b) /\ Len(v) <= Len(b) /\ Len(b) - Len(v) = Len(a) - Len(u)
  /\ \A i \in 1 .. Len(a) : b[i] = a[i]
  /\ \A i \in 1 .. Len(u) : v[i] = u[i] /\ b[Len(b) - Len(v) + i] = a[Len(a) - Len(u) + i]
  /\ \A i \in 1 .. Len(v) : i > Len(u) =>
       /\ i - Len(u) \in 1 .. Len(q) /\ v[i] = ms[i - Len(u)]
       /\ b[Len(b) - Len(v) + i] = q[i - Len(u)]

LEMMA Joined ==
  ASSUME NEW A, NEW M, NEW a \in Seq(A), NEW u \in Seq(M), NEW q \in Seq(A), NEW ms \in Seq(M),
         Len(u) <= Len(a), Len(q) = Len(ms)
  PROVE  /\ a \o q \in Seq(A) /\ u \o ms \in Seq(M)
         /\ Joins(a, u, q, ms, a \o q, u \o ms)
<1> DEFINE b == a \o q
           v == u \o ms
<1>1. /\ b \in Seq(A) /\ Len(a) \in Nat /\ Len(q) \in Nat /\ Len(b) = Len(a) + Len(q)
      /\ \A i \in 1 .. Len(b) : i <= Len(a) => b[i] = a[i]
      /\ \A i \in 1 .. Len(b) : i > Len(a) => b[i] = q[i - Len(a)]
  BY Concatenation, Zenon
<1>2. /\ v \in Seq(M) /\ Len(u) \in Nat /\ Len(v) = Len(u) + Len(ms)
      /\ \A i \in 1 .. Len(v) : i <= Len(u) => v[i] = u[i]
      /\ \A i \in 1 .. Len(v) : i > Len(u) => v[i] = ms[i - Len(u)]
  BY Concatenation, Zenon
<1> HIDE DEF b, v
<1>3. ASSUME NEW i \in 1 .. Len(u)
      PROVE  v[i] = u[i] /\ b[Len(b) - Len(v) + i] = a[Len(a) - Len(u) + i]
  <2>1. Len(b) - Len(v) + i = Len(a) - Len(u) + i
        /\ Len(a) - Len(u) + i \in 1 .. Len(b) /\ Len(a) - Len(u) + i <= Len(a)
        /\ i \in 1 .. Len(v) /\ i <= Len(u)
    BY <1>1, <1>2, SMT
  <2> QED
    BY <1>1, <1>2, <2>1, Zenon
<1>4. ASSUME NEW i \in 1 .. Len(v), i > Len(u)
      PROVE  /\ i - Len(u) \in 1 .. Len(q) /\ v[i] = ms[i - Len(u)]
             /\ b[Len(b) - Len(v) + i] = q[i - Len(u)]
  <2> DEFINE j == Len(b) - Len(v) + i
  <2>1. j \in 1 .. Len(b) /\ j > Len(a) /\ j - Len(a) = i - Len(u) /\ i - Len(u) \in 1 .. Len(q)
    BY <1>1, <1>2, <1>4, SMT
  <2> HIDE DEF j
  <2>2. b[j] = q[i - Len(u)]
    BY <1>1, <2>1, Zenon
  <2> QED
    BY <1>2, <1>4, <2>1, <2>2, Zenon DEF j
<1>5. \A i \in 1 .. Len(a) : b[i] = a[i]
  BY <1>1, SMT
<1>6. /\ Len(v) \in Nat /\ Len(b) \in Nat /\ Len(a) <= Len(b) /\ Len(v) <= Len(b)
      /\ Len(b) - Len(v) = Len(a) - Len(u)
  BY <1>1, <1>2, SMT
<1>7. b \in Seq(A) /\ v \in Seq(M) /\ Joins(a, u, q, ms, b, v)
  BY <1>1, <1>2, <1>3, <1>4, <1>5, <1>6, Zenon DEF Joins
<1> QED
  BY <1>7, Zenon DEF b, v

LEMMA AsksKept ==
  ASSUME client' = client, lookup' = lookup \/ lookup' = client.code
  PROVE  \A m, type : Asks(m, type) => Asks(m, type)'
BY SMT DEF Asks, LoginMessage, QueryMessage

LEMMA LoginKept ==
  ASSUME client' = client, Request' = Request
  PROVE  (LoginAccepted' <=> LoginAccepted) /\ \A type : LoginMessage(type)' = LoginMessage(type)
<1>1. LoginCode' = LoginCode
  BY Zenon DEF LoginCode
<1>2. LoginAccepted' <=> LoginAccepted
  BY <1>1, Zenon DEF LoginAccepted
<1>3. \A type : LoginMessage(type)' = LoginMessage(type)
  BY SMT DEF LoginMessage
<1> QED
  BY <1>2, <1>3, Zenon

LEMMA AskMore ==
  ASSUME TypeOK, Mirror, Session, UNCHANGED <<client, lookup, pc>>,
         NEW q \in Seq(Word32), NEW ms \in Seq(Message), Len(q) = Len(ms),
         asked' = asked \o q, up' = up \o ms,
         \A i \in 1 .. Len(q) : Asks(ms[i], q[i])
  PROVE  /\ Mirror' /\ Session'
         /\ Front' = Front /\ Answered' = Answered /\ Len(asked) <= Len(asked')
         /\ \A n \in 1 .. Len(asked) : Due'[n] = Due[n] /\ Wanted'[n] = Wanted[n]
<1> PICK b, v : b = asked' /\ v = up'
  OBVIOUS
<1>1. asked \in Seq(Word32) /\ up \in Seq(Message) /\ Len(up) <= Len(asked)
  BY Zenon DEF TypeOK, Mirror
<1>2. b = asked \o q /\ v = up \o ms
  OBVIOUS
<1>21. /\ asked \o q \in Seq(Word32) /\ up \o ms \in Seq(Message)
       /\ Joins(asked, up, q, ms, asked \o q, up \o ms)
  BY <1>1, Joined, Zenon
<1>3. b \in Seq(Word32) /\ v \in Seq(Message) /\ Joins(asked, up, q, ms, b, v)
  BY <1>2, <1>21, SMT
<1>31. Len(b) - Len(v) = Len(asked) - Len(up)
  BY <1>3, Zenon DEF Joins
<1>4. ASSUME NEW i \in 1 .. Len(v)
      PROVE  Asks(v[i], b[Len(b) - Len(v) + i])
  <2>1. CASE i <= Len(up)
    <3>1. i \in 1 .. Len(up)
      BY <1>3, <2>1, SMT DEF Joins
    <3>2. Asks(up[i], asked[Len(asked) - Len(up) + i])
      BY <3>1, Zenon DEF Mirror, Meant
    <3> QED
      BY <1>3, <3>1, <3>2, Zenon DEF Joins
  <2>2. CASE i > Len(up)
    BY <1>3, <2>2, Zenon DEF Joins
  <2>3. Len(up) \in Nat
    BY <1>1, SMT
  <2>4. i <= Len(up) \/ i > Len(up)
    BY <2>3, SMT
  <2> QED
    BY <2>1, <2>2, <2>4, Zenon
<1>5. \A i \in 1 .. Len(v) : Asks(v[i], b[Len(b) - Len(v) + i])'
  BY <1>4, AsksKept, Zenon
<1>6. Mirror'
  BY <1>3, <1>5, Zenon DEF Mirror, Meant, Joins
<1>7. Front' = Front /\ Answered' = Answered
  <2>1. Front' = Len(b) - Len(v) + 1 /\ Front = Len(asked) - Len(up) + 1
    BY Zenon DEF Front
  <2>2. Front' = Front
    BY <1>31, <2>1, Zenon
  <2> QED
    BY <2>2, SMT DEF Answered
<1>8. ASSUME up # << >>
      PROVE  up'[1] = up[1] /\ Meant(1)' = Meant(1) /\ Request' = Request
  <2>1. 1 \in 1 .. Len(up) /\ Head(v) = v[1] /\ Head(up) = up[1]
    BY <1>1, <1>2, <1>8, SMT
  <2> QED
    BY <1>3, <2>1, Zenon DEF Meant, Request, Joins
<1>9. Session'
  <2>1. CASE pc = "idle"
    BY <2>1, SMT DEF Session
  <2>2. CASE pc # "idle"
    <3>1. up # << >>
      BY <2>2, Zenon DEF TypeOK
    <3>2. (LoginAccepted' <=> LoginAccepted)
          /\ LoginMessage(FeedLogin)' = LoginMessage(FeedLogin)
      BY <1>8, <3>1, LoginKept, Zenon
    <3>3. \A type : QueryMessage(type)' = QueryMessage(type)
      BY Zenon
    <3> QED
      BY <1>8, <3>1, <3>2, <3>3, Zenon DEF Session
  <2> QED
    BY <2>1, <2>2, Zenon
<1>10. \A n \in 1 .. Len(asked) : Due'[n] = Due[n] /\ Wanted'[n] = Wanted[n]
  <2>1. ASSUME NEW n \in 1 .. Len(asked)
        PROVE  /\ Due'[n] = Expected(client, b[n]) /\ Due[n] = Expected(client, asked[n])
               /\ Wanted'[n] = QueryFile(client.code, b[n])
               /\ Wanted[n] = QueryFile(client.code, asked[n])
    BY <1>3, SMT DEF Due, Wanted, Joins
  <2>2. ASSUME NEW n \in 1 .. Len(asked)
        PROVE  Due'[n] = Due[n] /\ Wanted'[n] = Wanted[n]
    <3>1. b[n] = asked[n]
      BY <1>3, Zenon DEF Joins
    <3> QED
      BY <2>1, <3>1, SMT
  <2> QED
    BY <2>2, Zenon
<1> QED
  BY <1>3, <1>6, <1>7, <1>9, <1>10, Zenon DEF Joins

\* Neither the requests nor the server's place among them change.
LEMMA SessionKept ==
  ASSUME Mirror, Session, UNCHANGED <<client, lookup, pc, asked, up>>
  PROVE  /\ Mirror' /\ Session' /\ Front' = Front /\ Answered' = Answered
         /\ Due' = Due /\ Wanted' = Wanted
<1>1. /\ client' = client /\ lookup' = lookup /\ pc' = pc /\ asked' = asked /\ up' = up
  BY Zenon
<1>2. \A i : Meant(i)' = Meant(i)
  BY <1>1, Zenon DEF Meant
<1>3. \A m, type : Asks(m, type) => Asks(m, type)'
  BY <1>1, AsksKept, Zenon
<1>4. Request' = Request
  BY <1>1, Zenon DEF Request
<1>5. Mirror'
  BY <1>1, <1>2, <1>3, SMT DEF Mirror
<1>6. (LoginAccepted' <=> LoginAccepted) /\ LoginMessage(FeedLogin)' = LoginMessage(FeedLogin)
  BY <1>1, <1>4, LoginKept, Zenon
<1>7. Session'
  BY <1>1, <1>2, <1>6, Zenon DEF Session, QueryMessage
<1>8. Front' = Front
  BY <1>1, Zenon DEF Front
<1>9. Answered' = Answered
  BY <1>1, <1>8, Zenon DEF Answered
<1>10. Due' = Due /\ Wanted' = Wanted
  BY <1>1, SMT DEF Due, Wanted
<1> QED
  BY <1>5, <1>7, <1>8, <1>9, <1>10, Zenon

\* The server has done with the request at the front.
LEMMA RequestDone ==
  ASSUME TypeOK, Mirror, Session, UNCHANGED <<client, lookup, asked>>,
         up # << >>, up' = Tail(up), pc' = "idle"
  PROVE  /\ Mirror' /\ Session' /\ Front' = Front + 1 /\ Answered' = Front
         /\ Due' = Due /\ Wanted' = Wanted
<1>1. client' = client /\ lookup' = lookup /\ asked' = asked
  BY Zenon
<1> PICK v : v = Tail(up)
  OBVIOUS
<1>2. /\ asked \in Seq(Word32) /\ Len(asked) \in Nat /\ Len(up) \in Nat \ {0}
      /\ Len(v) = Len(up) - 1 /\ Len(up) <= Len(asked) /\ up' = v
      /\ \A i \in 1 .. Len(v) : v[i] = up[i + 1]
  BY SMT DEF TypeOK, Mirror
<1>3. ASSUME NEW i \in 1 .. Len(v)
      PROVE  Asks(v[i], asked[Len(asked) - Len(v) + i])
  <2>1. i + 1 \in 1 .. Len(up) /\ Len(asked) - Len(v) + i = Len(asked) - Len(up) + (i + 1)
    BY <1>2, SMT
  <2>2. Asks(up[i + 1], asked[Len(asked) - Len(up) + (i + 1)])
    BY <2>1, Zenon DEF Mirror, Meant
  <2> QED
    BY <1>2, <2>1, <2>2, Zenon
<1>4. \A m, type : Asks(m, type) => Asks(m, type)'
  BY <1>1, AsksKept, Zenon
<1>5. Len(v) <= Len(asked)
  BY <1>2, SMT
<1>6. Mirror'
  BY <1>1, <1>2, <1>3, <1>4, <1>5, Zenon DEF Mirror, Meant
<1>7. Session'
  <2>1. pc' # "login" /\ pc' # "file"
    BY SMT
  <2> QED
    BY <1>1, <2>1, Zenon DEF Session
<1>8. Front' = Front + 1 /\ Answered' = Front
  <2>1. Front' = Len(asked) - Len(v) + 1 /\ Front = Len(asked) - Len(up) + 1
    BY <1>1, <1>2, Zenon DEF Front
  <2>2. Front' = Front + 1 /\ Front' - 1 = Front
    BY <1>2, <2>1, SMT
  <2>3. Answered' = Front' - 1
    BY SMT DEF Answered
  <2> QED
    BY <2>2, <2>3, Zenon
<1>9. Due' = Due /\ Wanted' = Wanted
  BY <1>1, SMT DEF Due, Wanted
<1> QED
  BY <1>6, <1>7, <1>8, <1>9, Zenon

\* Units that let the client in only if the server has.
LEMMA AdmittedSent ==
  ASSUME TypeOK, Admitted, UNCHANGED <<client, lookup>>,
         NEW t \in Seq(Unit), down' = down \o t,
         \A i \in 1 .. Len(t) :
           t[i].file = Reply /\ Accepted(ReplyHeard(t[i])) => lookup = client.code
  PROVE  Admitted'
<1>1. client' = client /\ lookup' = lookup
  BY Zenon
<1> PICK u : u = down \o t
  OBVIOUS
<1>2. down \in Seq(Unit)
  BY Zenon DEF TypeOK
<1>3. /\ Len(down) \in Nat /\ Len(t) \in Nat /\ Len(u) = Len(down) + Len(t)
      /\ \A i \in 1 .. Len(u) : i <= Len(down) => u[i] = down[i]
      /\ \A i \in 1 .. Len(u) : i > Len(down) => u[i] = t[i - Len(down)]
  BY <1>2, Concatenation, SMT
<1>4. ASSUME NEW i \in 1 .. Len(u), u[i].file = Reply, Accepted(ReplyHeard(u[i]))
      PROVE  lookup = client.code
  <2>1. CASE i <= Len(down)
    <3>1. u[i] = down[i] /\ i \in 1 .. Len(down)
      BY <1>3, <2>1, SMT
    <3> QED
      BY <1>4, <3>1, Zenon DEF Admitted
  <2>2. CASE i > Len(down)
    <3>1. u[i] = t[i - Len(down)] /\ i - Len(down) \in 1 .. Len(t)
      BY <1>3, <2>2, SMT
    <3> QED
      BY <1>4, <3>1, Zenon
  <2>3. i <= Len(down) \/ i > Len(down)
    BY <1>3, SMT
  <2> QED
    BY <2>1, <2>2, <2>3, Zenon
<1>5. down' = u
  BY Zenon
<1> QED
  BY <1>1, <1>4, <1>5, Zenon DEF Admitted

LEMMA ToldKept ==
  ASSUME Told, UNCHANGED <<asked, heard, delivered>>, Due' = Due, Wanted' = Wanted
  PROVE  Told'
BY SMT DEF Told

\* A step that leaves the requests, the stream and what was heard as they were.
LEMMA AnswersKept ==
  ASSUME Mirror, Session, Admitted, Told, Ledgered,
         UNCHANGED <<client, lookup, pc, asked, up, down, heard, delivered>>
  PROVE  Mirror' /\ Session' /\ Admitted' /\ Told' /\ Ledgered'
<1>1. /\ client' = client /\ lookup' = lookup /\ down' = down /\ heard' = heard
      /\ delivered' = delivered
  BY Zenon
<1>2. /\ Mirror' /\ Session' /\ Front' = Front /\ Answered' = Answered
      /\ Due' = Due /\ Wanted' = Wanted
  BY SessionKept, SMT
<1>3. Admitted'
  BY <1>1, Zenon DEF Admitted
<1>4. Told'
  BY <1>2, ToldKept, SMT
<1>5. Ledgered'
  BY <1>1, <1>2, Zenon DEF Ledgered
<1> QED
  BY <1>2, <1>3, <1>4, <1>5, Zenon

LEMMA FirstRequest ==
  ASSUME TypeOK, Mirror, up # << >>
  PROVE  Asks(up[1], Meant(1)) /\ Meant(1) \in Word32
<1>1. 1 \in 1 .. Len(up) /\ Front \in 1 .. Len(asked) /\ Meant(1) = asked[Front]
  BY Bounds, Zenon
<1>2. asked[Front] \in Word32
  BY <1>1, SMT DEF Mirror
<1> QED
  BY <1>1, <1>2, Zenon DEF Mirror

\* A request that the server takes to be whole is what the client meant.
LEMMA WhichRequest ==
  ASSUME TypeOK, Mirror, Arrived(calc_msg_size(MsgType))
  PROVE  /\ up # << >> /\ Meant(1) = MsgType
         /\ MsgType \in {FeedLogin, FeedLogoff} => up[1] = LoginMessage(MsgType)
         /\ MsgType \notin {FeedLogin, FeedLogoff} =>
              up[1] = QueryMessage(MsgType) /\ lookup = client.code
<1>1. up # << >> /\ calc_msg_size(MsgType) = Request.size
  BY Zenon DEF Arrived
<1>2. Asks(up[1], Meant(1)) /\ Meant(1) \in Word32
  BY <1>1, FirstRequest, Zenon
<1>3. CASE Meant(1) \in {FeedLogin, FeedLogoff} /\ up[1] = LoginMessage(Meant(1))
  BY <1>1, <1>3, LoginRead, Zenon
<1>4. CASE lookup = client.code /\ up[1] = QueryMessage(Meant(1))
  <2>1. MsgType = Meant(1) /\ Request.size = QueryRequest
    BY <1>1, <1>2, <1>4, QueryRead, Zenon
  <2>2. MsgType \notin {FeedLogin, FeedLogoff}
    BY <1>1, <2>1, RequestSizes, Zenon
  <2> QED
    BY <1>1, <1>4, <2>1, <2>2, Zenon
<1> QED
  BY <1>2, <1>3, <1>4, Zenon DEF Asks

-----------------------------------------------------------------------------
(* What the server sends *)

\* Something is sent, and the requests are dealt with accordingly.
LEMMA Sending ==
  ASSUME TypeOK, Mirror, Admitted, Told, Ledgered,
         UNCHANGED <<client, lookup, asked, heard, delivered>>,
         Due' = Due, Wanted' = Wanted,
         NEW t \in Seq(Unit), down' = down \o t,
         NEW m \in Nat, NEW next \in Nat, Answered' = m, Front' = next,
         Answered <= m, Front <= next, t = << >> => Answered = m,
         \A i \in 1 .. Len(t) :
           t[i].file = Reply /\ Accepted(ReplyHeard(t[i])) => lookup = client.code,
         \A i \in 1 .. Len(t) : Entry(t[i], IF i = 1 THEN Answered ELSE m, m, Due, Wanted),
         \A i \in 1 .. Len(t) : Completes(t[i]) => Answered = Front /\ m < next,
         \A i, j \in 1 .. Len(t) : Completes(t[i]) /\ Completes(t[j]) => i = j
  PROVE  Admitted' /\ Told' /\ Ledgered'
<1>1. client' = client /\ lookup' = lookup /\ asked' = asked /\ heard' = heard
      /\ delivered' = delivered
  BY Zenon
<1>2. Admitted'
  BY <1>1, AdmittedSent, SMT
<1>3. Told'
  BY ToldKept, SMT
<1>4. PICK rank : Ledger(rank, down, Len(heard), delivered, Answered, Front, Due, Wanted)
  BY Zenon DEF Ledgered
<1>5. Answered \in Nat /\ Front \in Nat
  BY Bounds, SMT
<1>6. /\ Len(heard) \in Nat /\ down \in Seq(Unit)
      /\ \A k \in 1 .. Len(delivered) : delivered[k].after \in Nat
  BY SMT DEF Told, TypeOK
<1>7. \E r : Ledger(r, down \o t, Len(heard), delivered, m, next, Due, Wanted)
  BY <1>4, <1>5, <1>6, LedgerSent, Zenon
<1>8. Ledgered'
  BY <1>1, <1>7, Zenon DEF Ledgered
<1> QED
  BY <1>2, <1>3, <1>8, Zenon

\* Replies complete no file, nor do the files that are pushed.
LEMMA NotComplete ==
  ASSUME NEW unit, unit.file = Reply \/ unit.file \in Pushed
  PROVE  unit.file \notin Own /\ ~Completes(unit)
<1>1. Reply \notin QueryFiles
  BY FileBounds, Zenon DEF Files
<1> QED
  BY <1>1, Zenon DEF Own, Completes

LEMMA ChunkUnits ==
  ASSUME NEW file, NEW from \in Nat, NEW n \in Nat
  PROVE  /\ Len(Chunk(file, from, n)) = n
         /\ \A i \in 1 .. n : /\ Chunk(file, from, n)[i].file = file
                              /\ Chunk(file, from, n)[i].pos = from + i
         /\ Chunk(file, from, n) = << >> => n = 0
<1> DEFINE s == Chunk(file, from, n)
<1>1. Len(s) = n /\ \A i \in 1 .. n : s[i].file = file /\ s[i].pos = from + i
  BY SMT DEF Chunk
<1> HIDE DEF s
<1>2. s = << >> => Len(s) = 0
  BY SMT
<1> QED
  BY <1>1, <1>2, Zenon DEF s

\* A file that nobody asked for, by a thread other than the server's reader.
LEMMA Pushing ==
  ASSUME TypeOK, Mirror, Session, Admitted, Told, Ledgered,
         UNCHANGED <<client, lookup, pc, asked, up, heard, delivered>>,
         NEW file \in Pushed, NEW from \in Nat, NEW n \in Nat, from + n <= FileSize,
         down' = down \o Chunk(file, from, n)
  PROVE  Mirror' /\ Session' /\ Admitted' /\ Told' /\ Ledgered'
<1> DEFINE t == Chunk(file, from, n)
<1>1. file \in Files /\ file # Reply
  BY FileBounds, Zenon DEF Files
<1>2. t \in Seq(Unit)
  BY <1>1, ChunkType, Zenon
<1>3. Len(t) = n /\ \A i \in 1 .. n : t[i].file = file
  BY ChunkUnits, Zenon
<1>4. /\ Mirror' /\ Session' /\ Front' = Front /\ Answered' = Answered
      /\ Due' = Due /\ Wanted' = Wanted
  BY SessionKept, SMT
<1>5. down' = down \o t
  OBVIOUS
<1> HIDE DEF t
<1>6. Answered \in Nat /\ Front \in Nat /\ Answered <= Answered /\ Front <= Front
  BY Bounds, SMT
<1>7. \A i \in 1 .. Len(t) : t[i].file # Reply /\ t[i].file \notin Own /\ ~Completes(t[i])
  BY <1>1, <1>3, NotComplete, Zenon
<1>8. ASSUME NEW i \in 1 .. Len(t)
      PROVE  Entry(t[i], IF i = 1 THEN Answered ELSE Answered, Answered, Due, Wanted)
  BY <1>7, Zenon DEF Entry
<1>9. Admitted' /\ Told' /\ Ledgered'
  <2>1. \A i \in 1 .. Len(t) :
          t[i].file = Reply /\ Accepted(ReplyHeard(t[i])) => lookup = client.code
    BY <1>7, Zenon
  <2>2. \A i \in 1 .. Len(t) : Completes(t[i]) => Answered = Front /\ Answered < Front
    BY <1>7, Zenon
  <2>3. \A i, j \in 1 .. Len(t) : Completes(t[i]) /\ Completes(t[j]) => i = j
    BY <1>7, Zenon
  <2> QED
    BY <1>2, <1>4, <1>5, <1>6, <1>8, <2>1, <2>2, <2>3, Sending, SMT
<1> QED
  BY <1>4, <1>9, Zenon

\* One reply is sent.
LEMMA Replying ==
  ASSUME TypeOK, Mirror, Admitted, Told, Ledgered,
         UNCHANGED <<client, lookup, asked, heard, delivered>>,
         Due' = Due, Wanted' = Wanted, Answered = Front - 1,
         Answered' = Front, Front' \in Nat, Front <= Front', up # << >>,
         NEW unit \in Unit, unit.file = Reply, down' = down \o <<unit>>,
         ReplyHeard(unit) = Expected(client, Meant(1)),
         Accepted(ReplyHeard(unit)) => lookup = client.code
  PROVE  Admitted' /\ Told' /\ Ledgered'
<1> PICK t : t = <<unit>>
  OBVIOUS
<1>1. t \in Seq(Unit) /\ Len(t) = 1 /\ t[1] = unit /\ \A i \in 1 .. Len(t) : i = 1
  BY SMT
<1>2. t # << >>
  BY <1>1, SMT
<1>3. /\ Front \in 1 .. Len(asked) /\ Meant(1) = asked[Front]
      /\ Due[Front] = Expected(client, Meant(1))
  BY Bounds, Zenon
<1>4. Front \in Nat /\ Answered \in Nat /\ Front = Answered + 1 /\ Answered <= Front
  BY <1>3, Bounds, SMT
<1>5. Entry(unit, Answered, Front, Due, Wanted)
  BY <1>3, <1>4, Zenon DEF Entry
<1>6. ~Completes(unit)
  BY NotComplete, Zenon
<1>7. \A i \in 1 .. Len(t) :
        Entry(t[i], IF i = 1 THEN Answered ELSE Front, Front, Due, Wanted)
  BY <1>1, <1>5, Zenon
<1>8. /\ \A i \in 1 .. Len(t) :
           t[i].file = Reply /\ Accepted(ReplyHeard(t[i])) => lookup = client.code
      /\ \A i \in 1 .. Len(t) : ~Completes(t[i])
  BY <1>1, <1>6, Zenon
<1> PICK next \in Nat : next = Front'
  BY Zenon
<1>9. down' = down \o t
  OBVIOUS
<1>10. /\ \A i \in 1 .. Len(t) : Completes(t[i]) => Answered = Front /\ Front < next
       /\ \A i, j \in 1 .. Len(t) : Completes(t[i]) /\ Completes(t[j]) => i = j
  BY <1>8, Zenon
<1>11. Front' = next /\ Front <= next /\ Answered' = Front /\ (t = << >> => Answered = Front)
  BY <1>2, Zenon
<1> QED
  BY <1>1, <1>4, <1>7, <1>8, <1>9, <1>10, <1>11, Sending, Zenon

-----------------------------------------------------------------------------
(* The server's steps *)

LEMMA LoginAnswers ==
  ASSUME TypeOK, Fits, Mirror, Session, Admitted, Told, Ledgered, HandleLogin
  PROVE  Mirror' /\ Session' /\ Admitted' /\ Told' /\ Ledgered'
<1>1. /\ client' = client /\ asked' = asked /\ up' = up /\ down' = down /\ heard' = heard
      /\ delivered' = delivered
      /\ lookup' = (IF LoginAccepted THEN LoginCode ELSE lookup) /\ pc' = "login" /\ pc = "idle"
      /\ Arrived(calc_msg_size(MsgType)) /\ MsgType = FeedLogin
  BY SMT DEF HandleLogin, clientVars, receiveVars, Arrived
<1>2. up # << >> /\ Meant(1) = FeedLogin /\ up[1] = LoginMessage(FeedLogin)
  BY <1>1, WhichRequest, Zenon
<1>3. LoginCode = client.code
  BY <1>2, LoginAgrees, Zenon
<1>4. (lookup' = lookup \/ lookup' = client.code) /\ (LoginAccepted => lookup' = client.code)
  BY <1>1, <1>3, Zenon
<1>5. \A i : Meant(i)' = Meant(i)
  BY <1>1, Zenon DEF Meant
<1>6. \A m, type : Asks(m, type) => Asks(m, type)'
  BY <1>1, <1>4, AsksKept, Zenon
<1>7. Mirror'
  BY <1>1, <1>5, <1>6, SMT DEF Mirror
<1>8. Request' = Request
  BY <1>1, Zenon DEF Request
<1>9. (LoginAccepted' <=> LoginAccepted) /\ LoginMessage(FeedLogin)' = LoginMessage(FeedLogin)
  BY <1>1, <1>8, LoginKept, Zenon
<1>10. Session'
  <2>1. lookup' \in {None, client'.code}
    BY <1>1, <1>4, Zenon DEF Session
  <2>2. pc' # "file"
    BY <1>1, SMT
  <2> QED
    BY <1>1, <1>2, <1>4, <1>5, <1>9, <2>1, <2>2, Zenon DEF Session
<1>11. Admitted'
  BY <1>1, <1>4, Zenon DEF Admitted
<1>12. Front' = Front
  BY <1>1, Zenon DEF Front
<1>13. Answered' = Answered
  BY <1>1, <1>12, SMT DEF Answered
<1>14. Due' = Due /\ Wanted' = Wanted
  BY <1>1, SMT DEF Due, Wanted
<1>15. Told'
  BY <1>1, <1>14, ToldKept, SMT
<1>16. Ledgered'
  BY <1>1, <1>12, <1>13, <1>14, Zenon DEF Ledgered
<1> QED
  BY <1>7, <1>10, <1>11, <1>15, <1>16, Zenon

\* A reply that ends the handling of a request.
LEMMA Answering ==
  ASSUME TypeOK, Mirror, Session, Admitted, Told, Ledgered,
         UNCHANGED <<client, lookup, asked, heard, delivered>>,
         up # << >>, pc # "file", NEW unit \in Unit, unit.file = Reply, Answer(<<unit>>),
         ReplyHeard(unit) = Expected(client, Meant(1)),
         Accepted(ReplyHeard(unit)) => lookup = client.code
  PROVE  Mirror' /\ Session' /\ Admitted' /\ Told' /\ Ledgered'
<1>1. up' = Tail(up) /\ pc' = "idle" /\ down' = down \o <<unit>>
  BY Zenon DEF Answer
<1>2. /\ Mirror' /\ Session' /\ Front' = Front + 1 /\ Answered' = Front
      /\ Due' = Due /\ Wanted' = Wanted
  BY <1>1, RequestDone, SMT
<1>3. Answered = Front - 1 /\ Front \in 1 .. Len(asked)
  BY Bounds, Zenon
<1>4. Front' \in Nat /\ Front <= Front'
  BY <1>2, <1>3, SMT
<1>5. Admitted' /\ Told' /\ Ledgered'
  BY <1>1, <1>2, <1>3, <1>4, Replying, Zenon
<1> QED
  BY <1>2, <1>5, Zenon

LEMMA ReplyFile ==
  ASSUME NEW size, NEW type, NEW value
  PROVE  ReplyUnit(size, type, value).file = Reply
BY SMT DEF ReplyUnit



LEMMA ReplyLoginAnswers ==
  ASSUME TypeOK, Fits, Mirror, Session, Admitted, Told, Ledgered, ReplyLogin
  PROVE  Mirror' /\ Session' /\ Admitted' /\ Told' /\ Ledgered'
<1> PICK flag \in {0, -2} : flag = IF LoginAccepted THEN 0 ELSE -2
  BY SMT
<1> DEFINE unit == ReplyUnit(LoginReply, FeedLogin, FormatData16(UInt16(flag)))
<1>1. /\ UNCHANGED <<client, lookup, asked, heard, delivered>> /\ pc = "login" /\ pc # "file"
  BY SMT DEF ReplyLogin, clientVars, receiveVars
<1>2. Answer(<<unit>>)
  BY SMT DEF ReplyLogin
<1>3. up # << >> /\ up[1] = LoginMessage(FeedLogin) /\ Meant(1) = FeedLogin
      /\ (LoginAccepted => lookup = client.code)
  BY <1>1, SMT DEF TypeOK, Session
<1>4. LoginAccepted <=> Mine(client) # {}
  BY <1>3, LoginAgrees, Zenon
<1>5. unit \in Unit /\ unit.file = Reply /\ ReplyHeard(unit) = [type |-> FeedLogin, value |-> flag]
  BY ReplyTypes, ReplyFile, RepliesHeard, SMT
<1>6. ReplyHeard(unit) = Expected(client, Meant(1))
  <2>1. Expected(client, FeedLogin)
          = [type |-> FeedLogin, value |-> IF Mine(client) # {} THEN 0 ELSE -2]
    BY RequestSizes, SMT DEF Expected
  <2>2. flag = IF Mine(client) # {} THEN 0 ELSE -2
    BY <1>4, Zenon
  <2> HIDE DEF unit
  <2> QED
    BY <1>3, <1>5, <2>1, <2>2, Zenon
<1>7. Accepted(ReplyHeard(unit)) => lookup = client.code
  <2>1. Accepted(ReplyHeard(unit)) => flag = 0
    BY <1>5, SMT DEF Accepted
  <2>2. flag = 0 => LoginAccepted
    BY SMT
  <2> QED
    BY <1>3, <2>1, <2>2, Zenon
<1> HIDE DEF unit
<1> QED
  BY <1>1, <1>2, <1>3, <1>5, <1>6, <1>7, Answering, Zenon

LEMMA LogoffAnswers ==
  ASSUME TypeOK, Mirror, Session, Admitted, Told, Ledgered, HandleLogoff
  PROVE  Mirror' /\ Session' /\ Admitted' /\ Told' /\ Ledgered'
<1> DEFINE unit == ReplyUnit(LoginReply, FeedLogoff, FormatData16(UInt16(0)))
<1>1. UNCHANGED <<client, lookup, asked, heard, delivered>> /\ Answer(<<unit>>)
      /\ Arrived(calc_msg_size(MsgType)) /\ MsgType = FeedLogoff
  BY SMT DEF HandleLogoff, clientVars, receiveVars
<1>2. up # << >> /\ Meant(1) = FeedLogoff
  BY <1>1, WhichRequest, Zenon
<1>3. pc # "file"
  BY <1>1, SMT DEF Arrived
<1>4. unit \in Unit /\ unit.file = Reply /\ ReplyHeard(unit) = [type |-> FeedLogoff, value |-> 0]
  BY ReplyTypes, ReplyFile, RepliesHeard, SMT
<1>5. ReplyHeard(unit) = Expected(client, Meant(1))
  BY <1>2, <1>4, RequestSizes, SMT DEF Expected
<1>6. ~Accepted(ReplyHeard(unit))
  BY <1>4, RequestSizes, SMT DEF Accepted
<1> HIDE DEF unit
<1> QED
  BY <1>1, <1>2, <1>3, <1>4, <1>5, <1>6, Answering, Zenon

LEMMA RequestAnswers ==
  ASSUME TypeOK, Mirror, Session, Admitted, Told, Ledgered, HandleRequest
  PROVE  Mirror' /\ Session' /\ Admitted' /\ Told' /\ Ledgered'
<1> DEFINE err == ReplyUnit(QueryReply, QueryReplyErr, FormatData32(1))
           ok == ReplyUnit(QueryReply, QueryReplyOk, FormatData32(10))
<1>1. /\ client' = client /\ lookup' = lookup /\ asked' = asked /\ heard' = heard
      /\ delivered' = delivered
      /\ Arrived(calc_msg_size(MsgType)) /\ MsgType \notin {FeedLogin, FeedLogoff}
      /\ IF QueryFile(lookup, MsgType) = NoFile
         THEN Answer(<<err>>)
         ELSE down' = Append(down, ok) /\ pc' = "file" /\ up' = up
  BY SMT DEF HandleRequest, clientVars, receiveVars
<1>2. up # << >> /\ Meant(1) = MsgType /\ up[1] = QueryMessage(MsgType) /\ lookup = client.code
  BY <1>1, WhichRequest, Zenon
<1>3. pc = "idle" /\ pc # "file"
  BY <1>1, SMT DEF Arrived
<1>4. /\ err \in Unit /\ err.file = Reply /\ ReplyHeard(err) = [type |-> QueryReplyErr, value |-> 1]
      /\ ok \in Unit /\ ok.file = Reply /\ ReplyHeard(ok) = Ok10
  BY ReplyTypes, ReplyFile, RepliesHeard, Zenon
<1>5. ~Accepted(ReplyHeard(err)) /\ ~Accepted(ReplyHeard(ok))
  BY <1>4, SMT DEF Accepted, Ok10, QueryReplyErr, QueryReplyOk, FeedLogin
<1> HIDE DEF err, ok
<1>6. CASE QueryFile(lookup, MsgType) = NoFile
  <2>1. Expected(client, Meant(1)) = [type |-> QueryReplyErr, value |-> 1]
    BY <1>1, <1>2, <1>6, Zenon DEF Expected
  <2>2. UNCHANGED <<client, lookup, asked, heard, delivered>>
    BY <1>1, Zenon
  <2> QED
    BY <1>1, <1>2, <1>3, <1>4, <1>5, <1>6, <2>1, <2>2, Answering, Zenon
<1>7. CASE QueryFile(lookup, MsgType) # NoFile
  <2>1. Expected(client, Meant(1)) = Ok10
    BY <1>1, <1>2, <1>7, Zenon DEF Expected, Ok10
  <2>2. /\ UNCHANGED <<client, lookup, asked, heard, delivered>>
        /\ pc' = "file" /\ up' = up
    BY <1>1, <1>7, Zenon
  <2>3. down' = down \o <<ok>>
    <3>1. Append(down, ok) = down \o <<ok>>
      BY <1>4, SMT DEF TypeOK
    <3> QED
      BY <1>1, <1>7, <3>1, Zenon
  <2>4. \A i : Meant(i)' = Meant(i)
    BY <1>1, <2>2, Zenon DEF Meant
  <2>5. \A m, type : Asks(m, type) => Asks(m, type)'
    BY <1>1, AsksKept, Zenon
  <2>6. Mirror'
    BY <1>1, <2>2, <2>4, <2>5, SMT DEF Mirror
  <2>7. Session'
    <3>1. pc' # "login"
      BY <2>2, SMT
    <3> QED
      BY <1>1, <1>2, <1>7, <2>2, <2>4, <3>1, Zenon DEF Session, QueryMessage
  <2>8. Front' = Front
    BY <1>1, <2>2, Zenon DEF Front
  <2>9. Answered' = Front /\ Answered = Front - 1 /\ Front' \in Nat /\ Front <= Front'
    <3>1. Front \in 1 .. Len(asked) /\ Answered = Front - 1
      BY <1>2, <1>3, Bounds, Zenon
    <3>2. Answered' = Front
      BY <2>2, <2>8, Zenon DEF Answered
    <3> QED
      BY <2>8, <3>1, <3>2, SMT
  <2>10. Due' = Due /\ Wanted' = Wanted
    BY <1>1, SMT DEF Due, Wanted
  <2>11. Admitted' /\ Told' /\ Ledgered'
    BY <1>2, <1>4, <1>5, <2>1, <2>2, <2>3, <2>9, <2>10, Replying, Zenon
  <2> QED
    BY <2>6, <2>7, <2>11, Zenon
<1> QED
  BY <1>6, <1>7, Zenon

LEMMA FileAnswers ==
  ASSUME TypeOK, Mirror, Session, Admitted, Told, Ledgered, SendQueryFile
  PROVE  Mirror' /\ Session' /\ Admitted' /\ Told' /\ Ledgered'
<1> DEFINE file == QueryFile(lookup, MsgType)
<1>1. /\ UNCHANGED <<client, lookup, asked, heard, delivered>>
      /\ pc = "file" /\ up' = Tail(up) /\ pc' = "idle"
      /\ down' = down \o Chunk(file, 0, FileSize) \/ down' = down \o << >>
  BY SMT DEF SendQueryFile, Answer, clientVars, receiveVars
<1>2. /\ up # << >> /\ up[1] = QueryMessage(Meant(1)) /\ lookup = client.code
      /\ Meant(1) \notin {FeedLogin, FeedLogoff} /\ QueryFile(client.code, Meant(1)) # NoFile
  BY <1>1, SMT DEF TypeOK, Session
<1>3. Meant(1) \in Word32
  BY <1>2, FirstRequest, Zenon
<1>4. MsgType = Meant(1)
  BY <1>2, <1>3, QueryRead, Zenon
<1>5. /\ Front \in 1 .. Len(asked) /\ Answered = Front /\ Meant(1) = asked[Front]
      /\ Due[Front] = Expected(client, Meant(1)) /\ Wanted[Front] = QueryFile(client.code, Meant(1))
  BY <1>1, <1>2, Bounds, Zenon
<1>6. Due[Front] = Ok10 /\ Wanted[Front] = file
  BY <1>2, <1>4, <1>5, Zenon DEF Expected, Ok10
<1>7. file \in Files /\ file # Reply
  BY FileTypes, FileBounds, Zenon DEF TypeOK
<1> HIDE DEF file
<1>8. /\ Mirror' /\ Session' /\ Front' = Front + 1 /\ Answered' = Front
      /\ Due' = Due /\ Wanted' = Wanted
  BY <1>1, <1>2, RequestDone, SMT
<1>9. PICK t : (t = Chunk(file, 0, FileSize) \/ t = << >>) /\ down' = down \o t
  BY <1>1, Zenon
<1>10. /\ t \in Seq(Unit)
       /\ \A i \in 1 .. Len(t) : t[i].file = file /\ (t[i].pos = FileSize => i = FileSize)
  <2>1. FileSize \in Nat /\ 0 \in Nat /\ 0 + FileSize <= FileSize
    BY FileBounds, SMT
  <2>2. CASE t = Chunk(file, 0, FileSize)
    <3>1. t \in Seq(Unit)
      BY <1>7, <2>1, <2>2, ChunkType, Zenon
    <3>2. Len(t) = FileSize /\ \A i \in 1 .. FileSize : t[i].file = file /\ t[i].pos = 0 + i
      <4> DEFINE s == Chunk(file, 0, FileSize)
      <4>1. Len(s) = FileSize /\ \A i \in 1 .. FileSize : s[i].file = file /\ s[i].pos = 0 + i
        BY <2>1, ChunkUnits, SMT
      <4>2. t = s
        BY <2>2, Zenon
      <4> HIDE DEF s
      <4> QED
        BY <4>1, <4>2, Zenon
    <3>3. \A i \in 1 .. FileSize : 0 + i = i
      BY <2>1, SMT
    <3> QED
      BY <3>1, <3>2, <3>3, Zenon
  <2>3. CASE t = << >>
    BY <2>3, SMT
  <2> QED
    BY <1>9, <2>2, <2>3, Zenon
<1>11. Front \in Nat /\ Front > 0 /\ Front' \in Nat /\ Front < Front' /\ Front <= Front'
       /\ Front <= Front
  BY <1>5, <1>8, SMT
<1>12. \A i \in 1 .. Len(t) : t[i].file # Reply /\ Entry(t[i], Front, Front, Due, Wanted)
  BY <1>6, <1>7, <1>10, <1>11, Zenon DEF Entry
<1>13. Admitted' /\ Told' /\ Ledgered'
  <2> PICK next \in Nat : next = Front'
    BY <1>11, Zenon
  <2>1. /\ \A i \in 1 .. Len(t) :
             t[i].file = Reply /\ Accepted(ReplyHeard(t[i])) => lookup = client.code
        /\ \A i \in 1 .. Len(t) :
             Entry(t[i], IF i = 1 THEN Answered ELSE Front, Front, Due, Wanted)
        /\ \A i \in 1 .. Len(t) : Completes(t[i]) => Answered = Front /\ Front < next
    BY <1>5, <1>11, <1>12, Zenon
  <2>2. \A i, j \in 1 .. Len(t) : Completes(t[i]) /\ Completes(t[j]) => i = j
    BY <1>10, Zenon DEF Completes
  <2>3. Front' = next /\ Front <= next /\ Answered' = Front /\ Answered <= Front
        /\ (t = << >> => Answered = Front)
    BY <1>5, <1>8, <1>11, Zenon
  <2> QED
    BY <1>1, <1>8, <1>9, <1>10, <1>11, <2>1, <2>2, <2>3, Sending, Zenon
<1> QED
  BY <1>8, <1>13, Zenon

-----------------------------------------------------------------------------
(* The client's steps, and the files that are pushed *)

\* What was heard stays right when more is asked.
LEMMA ToldAsked ==
  ASSUME Told, UNCHANGED <<heard, delivered>>, Len(asked) \in Nat, Len(asked') \in Nat,
         Len(asked) <= Len(asked'),
         \A n \in 1 .. Len(asked) : Due'[n] = Due[n] /\ Wanted'[n] = Wanted[n]
  PROVE  Told'
<1>1. heard' = heard /\ delivered' = delivered /\ Len(heard) \in Nat
  BY SMT DEF Told
<1>2. Len(heard) <= Len(asked) /\ Len(heard) <= Len(asked')
  BY <1>1, SMT DEF Told
<1>3. \A i \in 1 .. Len(heard) : Due'[i] = Due[i] /\ Wanted'[i] = Wanted[i]
  BY <1>1, <1>2, SMT
<1>4. \A i \in 1 .. Len(heard') : heard'[i] = Due'[i]
  BY <1>1, <1>3, SMT DEF Told
<1>5. ASSUME NEW k \in 1 .. Len(delivered)
      PROVE  LET n == delivered[k].after
             IN /\ n \in 1 .. Len(heard) /\ heard[n] = Ok10 /\ delivered[k].file = Wanted'[n]
                /\ k > 1 => delivered[k - 1].after < n
  <2>1. LET n == delivered[k].after
        IN /\ n \in 1 .. Len(heard) /\ heard[n] = Ok10 /\ delivered[k].file = Wanted[n]
           /\ k > 1 => delivered[k - 1].after < n
    BY Zenon DEF Told
  <2> QED
    BY <1>3, <2>1, Zenon
<1> QED
  BY <1>1, <1>2, <1>4, <1>5, SMT DEF Told

\* What is on its way stays in order when more is asked.
LEMMA LedgeredAsked ==
  ASSUME NEW rank, NEW s, Len(s) \in Nat, NEW got \in Nat, NEW done,
         Ledger(rank, s, got, done, Answered, Front, Due, Wanted),
         Answered \in 0 .. Len(asked), Len(asked) \in Nat,
         down' = s, Len(heard') = got, delivered' = done,
         Answered' = Answered, Front' = Front,
         \A n \in 1 .. Len(asked) : Due'[n] = Due[n] /\ Wanted'[n] = Wanted[n]
  PROVE  Ledgered'
<1> PICK more, files : more = Due' /\ files = Wanted'
  OBVIOUS
<1>1. ASSUME NEW i \in 1 .. Len(s)
      PROVE  Entry(s[i], rank[i - 1], rank[i], more, files)
  <2>1. Entry(s[i], rank[i - 1], rank[i], Due, Wanted)
    BY Zenon DEF Ledger
  <2>2. i - 1 \in 0 .. Len(s) /\ i \in 0 .. Len(s) /\ Len(s) \in 0 .. Len(s) /\ i <= Len(s)
    BY SMT
  <2>3. rank[i - 1] \in Nat /\ rank[i] \in Nat /\ rank[i] <= Answered
    <3>1. rank \in [0 .. Len(s) -> Nat] /\ rank[i] <= rank[Len(s)] /\ rank[Len(s)] = Answered
      BY <2>2, Zenon DEF Ledger
    <3> QED
      BY <2>2, <3>1, SMT
  <2>4. rank[i] > 0 => more[rank[i]] = Due[rank[i]] /\ files[rank[i]] = Wanted[rank[i]]
    BY <2>3, SMT
  <2> QED
    BY <2>1, <2>3, <2>4, SMT DEF Entry
<1>2. Ledger(rank, s, got, done, Answered, Front, more, files)
  BY <1>1, Zenon DEF Ledger
<1> QED
  BY <1>2, Zenon DEF Ledgered

\* The client logs in or off.
LEMMA AskAnswers ==
  ASSUME TypeOK, Mirror, Session, Admitted, Told, Ledgered,
         UNCHANGED <<client, lookup, pc, down, heard, delivered>>,
         NEW type \in {FeedLogin, FeedLogoff},
         asked' = Append(asked, type), up' = Append(up, LoginMessage(type))
  PROVE  Mirror' /\ Session' /\ Admitted' /\ Told' /\ Ledgered'
<1>1. /\ client' = client /\ lookup' = lookup /\ down' = down /\ heard' = heard
      /\ delivered' = delivered
  BY Zenon
<1> PICK q, ms : q = <<type>> /\ ms = <<LoginMessage(type)>>
  OBVIOUS
<1>2. type \in Word32 /\ LoginMessage(type) \in Message
  BY MessageTypes, QueuedTypes, Zenon
<1>3. /\ q \in Seq(Word32) /\ ms \in Seq(Message) /\ Len(q) = 1 /\ Len(q) = Len(ms)
      /\ \A i \in 1 .. Len(q) : q[i] = type /\ ms[i] = LoginMessage(type)
  BY <1>2, SMT
<1>4. asked' = asked \o q
  BY <1>2, SMT DEF Mirror
<1>5. up' = up \o ms
  BY <1>2, SMT DEF TypeOK
<1>6. \A i \in 1 .. Len(q) : Asks(ms[i], q[i])
  BY <1>3, Zenon DEF Asks
<1>7. /\ Mirror' /\ Session'
      /\ Front' = Front /\ Answered' = Answered /\ Len(asked) <= Len(asked')
      /\ \A n \in 1 .. Len(asked) : Due'[n] = Due[n] /\ Wanted'[n] = Wanted[n]
  <2>1. UNCHANGED <<client, lookup, pc>>
    BY Zenon
  <2> QED
    BY <1>3, <1>4, <1>5, <1>6, <2>1, AskMore, Zenon
<1>8. Admitted'
  BY <1>1, Zenon DEF Admitted
<1>9. Len(asked) \in Nat /\ Len(asked') \in Nat /\ Answered \in 0 .. Len(asked)
      /\ Len(heard) \in Nat /\ Len(down) \in Nat
  BY <1>7, Bounds, SMT DEF Mirror, Told, TypeOK
<1>10. Told'
  BY <1>1, <1>7, <1>9, ToldAsked, SMT
<1>11. PICK rank : Ledger(rank, down, Len(heard), delivered, Answered, Front, Due, Wanted)
  BY Zenon DEF Ledgered
<1>12. Ledgered'
  BY <1>1, <1>7, <1>9, <1>11, LedgeredAsked, Zenon
<1> QED
  BY <1>7, <1>8, <1>10, <1>12, Zenon

\* The client takes a reply: it is the next one, and if it lets the client in
\* the queries follow.
LEMMA ReplyTaken ==
  ASSUME TypeOK, Mirror, Session, Admitted, Told, Ledgered, ProcessReply
  PROVE  Mirror' /\ Session' /\ Admitted' /\ Told' /\ Ledgered'
<1> DEFINE reply == ReplyHeard(Head(down))
           qs == client.query_msgs
           ms == [i \in DOMAIN qs |-> QueryMessage(qs[i])]
<1>1. /\ client' = client /\ lookup' = lookup /\ pc' = pc /\ delivered' = delivered
      /\ heard' = Append(heard, reply) /\ down # << >> /\ Head(down).file = Reply
      /\ down' = Tail(down)
      /\ IF Accepted(reply) THEN asked' = asked \o qs /\ up' = up \o ms
                            ELSE asked' = asked /\ up' = up
  <2>1. /\ client' = client /\ lookup' = lookup /\ pc' = pc /\ delivered' = delivered
        /\ heard' = Append(heard, reply) /\ down # << >> /\ Head(down).file = Reply
        /\ down' = Tail(down)
    BY SMT DEF ProcessReply, serverVars
  <2>2. IF Accepted(reply) THEN asked' = asked \o qs /\ up' = up \o ms
                           ELSE asked' = asked /\ up' = up
    BY Zenon DEF ProcessReply
  <2> QED
    BY <2>1, <2>2, Zenon
<1>2. /\ down \in Seq(Unit) /\ Len(down) \in Nat /\ 1 \in 1 .. Len(down) /\ Head(down) = down[1]
      /\ Len(Tail(down)) \in Nat
      /\ \A i \in 1 .. Len(Tail(down)) : Tail(down)[i] = down[i + 1] /\ i + 1 \in 1 .. Len(down)
  BY <1>1, SMT DEF TypeOK
<1>3. Accepted(reply) => lookup = client.code
  BY <1>1, <1>2, Zenon DEF Admitted
<1>4. /\ Mirror' /\ Session' /\ Front' = Front /\ Answered' = Answered /\ Len(asked) <= Len(asked')
      /\ \A n \in 1 .. Len(asked) : Due'[n] = Due[n] /\ Wanted'[n] = Wanted[n]
  <2>1. CASE Accepted(reply)
    <3>1. qs \in Seq(Word32) /\ ms \in Seq(Message)
      BY QueuedTypes, Zenon
    <3>2. Len(ms) = Len(qs) /\ \A i \in 1 .. Len(qs) : ms[i] = QueryMessage(qs[i])
      BY <3>1, SMT
    <3>3. \A i \in 1 .. Len(qs) : Asks(ms[i], qs[i])
      BY <1>3, <2>1, <3>2, Zenon DEF Asks
    <3>4. asked' = asked \o qs /\ up' = up \o ms /\ UNCHANGED <<client, lookup, pc>>
      BY <1>1, <2>1, Zenon
    <3> HIDE DEF qs, ms, reply
    <3> QED
      BY <3>1, <3>2, <3>3, <3>4, AskMore, Zenon
  <2>2. CASE ~Accepted(reply)
    <3>1. UNCHANGED <<client, lookup, pc, asked, up>>
      BY <1>1, <2>2, Zenon
    <3>2. Len(asked) <= Len(asked')
      BY <3>1, Bounds, SMT
    <3> HIDE DEF qs, ms, reply
    <3> QED
      BY <3>1, <3>2, SessionKept, Zenon
  <2> QED
    BY <2>1, <2>2, Zenon
<1> HIDE DEF qs, ms, reply
<1>5. Admitted'
  BY <1>1, <1>2, Zenon DEF Admitted
<1>6. Len(asked) \in Nat /\ Len(asked') \in Nat /\ Answered \in 0 .. Len(asked) /\ Front \in Nat
      /\ Answered \in Nat /\ Len(heard) \in Nat /\ Len(delivered) \in Nat
  BY <1>4, Bounds, SMT DEF Mirror, Told
<1>7. PICK rank : Ledger(rank, down, Len(heard), delivered, Answered, Front, Due, Wanted)
  BY Zenon DEF Ledgered
<1>8. /\ rank[1] = Len(heard) + 1 /\ reply = Due[rank[1]] /\ rank[1] <= Answered
  <2>1. Entry(down[1], rank[1 - 1], rank[1], Due, Wanted)
    BY <1>2, <1>7, Zenon DEF Ledger
  <2>2. 1 - 1 = 0 /\ 1 \in 0 .. Len(down) /\ Len(down) \in 0 .. Len(down) /\ 1 <= Len(down)
    BY <1>2, SMT
  <2>3. rank[0] = Len(heard) /\ rank[1] <= Answered
    BY <1>7, <2>2, Zenon DEF Ledger
  <2>4. reply = ReplyHeard(down[1]) /\ down[1].file = Reply
    BY <1>1, <1>2, Zenon DEF reply
  <2> QED
    BY <2>1, <2>2, <2>3, <2>4, Zenon DEF Entry
<1>9. Len(heard') = rank[1] /\ rank[1] \in Nat /\ rank[1] <= Len(asked)
      /\ heard' \in Seq({ReplyHeard(unit) : unit \in Unit})
      /\ \A i \in 1 .. Len(heard') : heard'[i] = IF i = rank[1] THEN reply ELSE heard[i]
  <2>1. reply \in {ReplyHeard(unit) : unit \in Unit}
    BY <1>2, SMT DEF reply
  <2>2. heard \in Seq({ReplyHeard(unit) : unit \in Unit})
    BY Zenon DEF Told
  <2>3. /\ heard' \in Seq({ReplyHeard(unit) : unit \in Unit}) /\ Len(heard') = Len(heard) + 1
        /\ \A i \in 1 .. Len(heard') : heard'[i] = IF i = Len(heard) + 1 THEN reply ELSE heard[i]
    BY <1>1, <2>1, <2>2, SMT
  <2> QED
    BY <1>6, <1>8, <2>3, SMT
<1>10. Told'
  <2>1. \A i \in 1 .. Len(heard) : heard[i] = Due[i]
    BY Zenon DEF Told
  <2>2. ASSUME NEW i \in 1 .. Len(heard')
        PROVE  heard'[i] = Due[i] /\ Due'[i] = Due[i] /\ Wanted'[i] = Wanted[i]
    <3>1. i \in 1 .. Len(asked) /\ (i # rank[1] => i \in 1 .. Len(heard))
      BY <1>6, <1>8, <1>9, SMT
    <3> QED
      BY <1>4, <1>8, <1>9, <2>1, <3>1, Zenon
  <2>3. \A i \in 1 .. Len(heard) : i \in 1 .. Len(heard') /\ heard'[i] = heard[i]
    BY <1>6, <1>8, <1>9, SMT
  <2>4. Len(heard') <= Len(asked')
    BY <1>4, <1>6, <1>9, SMT
  <2>5. ASSUME NEW k \in 1 .. Len(delivered)
        PROVE  LET n == delivered[k].after
               IN /\ n \in 1 .. Len(heard') /\ heard'[n] = Ok10
                  /\ delivered[k].file = Wanted'[n]
                  /\ k > 1 => delivered[k - 1].after < n
    <3>1. LET n == delivered[k].after
          IN /\ n \in 1 .. Len(heard) /\ heard[n] = Ok10 /\ delivered[k].file = Wanted[n]
             /\ k > 1 => delivered[k - 1].after < n
      BY Zenon DEF Told
    <3> QED
      BY <2>2, <2>3, <3>1, Zenon
  <2>6. delivered' = delivered /\ delivered \in Seq([file : Files, after : Nat])
    BY <1>1, Zenon DEF Told
  <2>7. \A i \in 1 .. Len(heard') : heard'[i] = Due'[i]
    BY <2>2, Zenon
  <2> QED
    BY <1>9, <2>4, <2>5, <2>6, <2>7, Zenon DEF Told
<1>11. \E r : Ledger(r, Tail(down), rank[1], delivered, Answered, Front, Due, Wanted)
  BY <1>1, <1>2, <1>6, <1>7, LedgerTaken, Zenon
<1>12. Ledgered'
  BY <1>1, <1>2, <1>4, <1>6, <1>9, <1>11, LedgeredAsked, Zenon
<1> QED
  BY <1>4, <1>5, <1>10, <1>12, Zenon

\* The client takes a byte of a file, perhaps the last of one it has asked for.
LEMMA FileTaken ==
  ASSUME TypeOK, Mirror, Session, Admitted, Told, Ledgered, ProcessFile
  PROVE  Mirror' /\ Session' /\ Admitted' /\ Told' /\ Ledgered'
<1> DEFINE unit == Head(down)
           entry == [file |-> unit.file, after |-> Len(heard)]
<1>1. /\ client' = client /\ lookup' = lookup /\ pc' = pc /\ asked' = asked /\ up' = up
      /\ heard' = heard /\ down # << >> /\ unit.file # Reply /\ down' = Tail(down)
      /\ delivered' = IF Completes(unit) THEN Append(delivered, entry) ELSE delivered
  BY SMT DEF ProcessFile, clientVars, serverVars
<1>2. /\ down \in Seq(Unit) /\ Len(down) \in Nat /\ 1 \in 1 .. Len(down) /\ unit = down[1]
      /\ unit \in Unit
      /\ \A i \in 1 .. Len(Tail(down)) : Tail(down)[i] = down[i + 1] /\ i + 1 \in 1 .. Len(down)
  BY <1>1, SMT DEF TypeOK
<1>3. /\ Mirror' /\ Session' /\ Front' = Front /\ Answered' = Answered
      /\ Due' = Due /\ Wanted' = Wanted
  BY <1>1, SessionKept, SMT
<1>4. Admitted'
  BY <1>1, <1>2, Zenon DEF Admitted
<1>5. Answered \in Nat /\ Front \in Nat /\ Len(heard) \in Nat /\ Len(delivered) \in Nat
      /\ delivered \in Seq([file : Files, after : Nat])
  BY Bounds, SMT DEF Told
<1>6. PICK rank : Ledger(rank, down, Len(heard), delivered, Answered, Front, Due, Wanted)
  BY Zenon DEF Ledgered
<1>7. rank[1] = Len(heard)
      /\ (unit.file \in Own =>
            rank[1] > 0 /\ Due[rank[1]] = Ok10 /\ unit.file = Wanted[rank[1]])
  <2>1. Entry(down[1], rank[1 - 1], rank[1], Due, Wanted)
    BY <1>2, <1>6, Zenon DEF Ledger
  <2>2. 1 - 1 = 0
    BY SMT
  <2>3. rank[0] = Len(heard)
    BY <1>6, Zenon DEF Ledger
  <2> QED
    BY <1>1, <1>2, <2>1, <2>2, <2>3, Zenon DEF Entry
<1>8. CASE ~Completes(unit)
  <2>1. delivered' = delivered
    BY <1>1, <1>8, Zenon
  <2>2. Told'
    BY <1>1, <1>3, <2>1, ToldKept, SMT
  <2>3. \E r : Ledger(r, Tail(down), rank[1], delivered, Answered, Front, Due, Wanted)
    BY <1>1, <1>2, <1>5, <1>6, LedgerTaken, Zenon
  <2>4. Ledgered'
    BY <1>1, <1>3, <1>7, <2>1, <2>3, Zenon DEF Ledgered
  <2> QED
    BY <1>3, <1>4, <2>2, <2>4, Zenon
<1>9. CASE Completes(unit)
  <2>1. delivered' = Append(delivered, entry)
    BY <1>1, <1>9, Zenon
  <2>2. unit.file \in Own
    BY <1>9, Zenon DEF Completes, Own
  <2>3. unit.file \in Files
    BY <2>2, Zenon DEF Own, Files
  <2>4. entry \in [file : Files, after : Nat] /\ entry.file = unit.file /\ entry.after = Len(heard)
    BY <1>5, <2>3, SMT
  <2> PICK more : more = delivered'
    OBVIOUS
  <2> HIDE DEF entry, unit
  <2>5. /\ more \in Seq([file : Files, after : Nat]) /\ Len(more) = Len(delivered) + 1
        /\ \A k \in 1 .. Len(delivered) : more[k] = delivered[k]
        /\ more[Len(more)] = entry
    BY <1>5, <2>1, <2>4, SMT
  <2>6. more[Len(more)].after = rank[1]
    BY <1>7, <2>4, <2>5, Zenon
  <2>7. \E r : Ledger(r, Tail(down), rank[1], more, Answered, Front, Due, Wanted)
    BY <1>1, <1>2, <1>5, <1>6, <1>9, <2>5, <2>6, LedgerTaken, Zenon
  <2>8. Ledgered'
    BY <1>1, <1>3, <1>7, <2>7, Zenon DEF Ledgered
  <2>9. \A k \in 1 .. Len(delivered) : delivered[k].after < Len(heard)
    BY <1>2, <1>6, <1>7, <1>9, Zenon DEF Ledger
  <2>10. /\ Len(heard) \in 1 .. Len(heard) /\ heard[Len(heard)] = Ok10
         /\ unit.file = Wanted[Len(heard)]
    <3>1. Len(heard) \in 1 .. Len(heard)
      BY <1>5, <1>7, <2>2, SMT
    <3> QED
      BY <1>7, <2>2, <3>1, Zenon DEF Told
  <2>11. ASSUME NEW k \in 1 .. Len(more)
         PROVE  /\ more[k].after \in 1 .. Len(heard) /\ heard[more[k].after] = Ok10
                /\ more[k].file = Wanted[more[k].after]
                /\ k > 1 => more[k - 1].after < more[k].after
    <3>1. CASE k \in 1 .. Len(delivered)
      <4>1. more[k] = delivered[k] /\ (k > 1 => k - 1 \in 1 .. Len(delivered))
        BY <2>5, <3>1, SMT
      <4>2. k > 1 => more[k - 1] = delivered[k - 1]
        BY <2>5, <4>1, Zenon
      <4> QED
        BY <3>1, <4>1, <4>2, Zenon DEF Told
    <3>2. CASE k = Len(more)
      <4>1. more[k].after = Len(heard) /\ more[k].file = unit.file
        BY <2>4, <2>5, <3>2, Zenon
      <4>2. k > 1 => k - 1 \in 1 .. Len(delivered)
        BY <1>5, <2>5, <3>2, SMT
      <4>3. k > 1 => more[k - 1].after < Len(heard)
        BY <2>5, <2>9, <4>2, Zenon
      <4> QED
        BY <2>10, <4>1, <4>3, Zenon
    <3>3. k \in 1 .. Len(delivered) \/ k = Len(more)
      BY <1>5, <2>5, SMT
    <3> QED
      BY <3>1, <3>2, <3>3, Zenon
  <2>12. Told'
    BY <1>1, <1>3, <2>5, <2>11, Zenon DEF Told
  <2> QED
    BY <1>3, <1>4, <2>8, <2>12, Zenon
<1> QED
  BY <1>8, <1>9, Zenon

\* The server pushes a file to the client's account, or a slice of one.
LEMMA PushAnswers ==
  ASSUME TypeOK, Mirror, Session, Admitted, Told, Ledgered,
         SendForAccount \/ \E p \in Player : Play(p)
  PROVE  Mirror' /\ Session' /\ Admitted' /\ Told' /\ Ledgered'
<1>1. CASE SendForAccount
  <2> DEFINE file == Accounts_(lookup).pb_file
  <2>1. /\ UNCHANGED <<client, lookup, pc, asked, up, heard, delivered>>
        /\ lookup # None /\ down' = down \o Chunk(file, 0, FileSize)
    BY <1>1, SMT DEF SendForAccount, clientVars, serverVars, receiveVars
  <2>2. Accounts_(lookup) \in Account
    BY <2>1, AccountOf, SMT DEF TypeOK
  <2>3. file \in Pushed
    BY <2>2, Zenon DEF Pushed
  <2>4. 0 \in Nat /\ FileSize \in Nat /\ 0 + FileSize <= FileSize
    BY FileBounds, SMT
  <2> HIDE DEF file
  <2> QED
    BY <2>1, <2>3, <2>4, Pushing, Zenon
<1>2. ASSUME NEW p \in Player, SendSlice(p)
      PROVE  Mirror' /\ Session' /\ Admitted' /\ Told' /\ Ledgered'
  <2> DEFINE file == Accounts_(playing[p]).jnl_file
             n == Least(RateSize(Accounts_(playing[p])), r_size[p] - sent_size[p])
  <2>1. /\ UNCHANGED <<client, lookup, pc, asked, up, heard, delivered>>
        /\ ppc[p] = "send" /\ down' = down \o Chunk(file, Offset(p), n)
    BY <1>2, SMT DEF SendSlice, clientVars, serverVars, receiveVars
  <2>2. /\ Offset(p) \in Nat /\ n \in Nat /\ Offset(p) + n <= process_size[p]
        /\ Accounts_(playing[p]) \in Account
    BY <2>1, SliceType, SMT
  <2>3. file \in Pushed
    BY <2>2, Zenon DEF Pushed
  <2> HIDE DEF file, n
  <2>4. Offset(p) + n <= FileSize
    BY <2>2, FileBounds, SMT DEF TypeOK
  <2> QED
    BY <2>1, <2>2, <2>3, <2>4, Pushing, Zenon
<1>3. ASSUME NEW p \in Player, (\E a \in Account : StartPlayback(p, a)) \/ ReadBuffer(p)
                              \/ EndPlayback(p)
      PROVE  Mirror' /\ Session' /\ Admitted' /\ Told' /\ Ledgered'
  <2>1. UNCHANGED <<client, lookup, pc, asked, up, down, heard, delivered>>
    BY <1>3, SMT DEF StartPlayback, ReadBuffer, EndPlayback, clientVars, serverVars, receiveVars
  <2> QED
    BY <2>1, AnswersKept, Zenon
<1> QED
  BY <1>1, <1>2, <1>3, Zenon DEF Play

-----------------------------------------------------------------------------
(* The theorem *)

LEMMA AnswerInit ==
  ASSUME Init
  PROVE  AnswerInv
<1>1. /\ asked = << >> /\ up = << >> /\ down = << >> /\ heard = << >> /\ delivered = << >>
      /\ pc = "idle" /\ lookup = None
  BY SMT DEF Init
<1>2. Mirror
  BY <1>1, SMT DEF Mirror
<1>3. Session /\ Admitted
  BY <1>1, SMT DEF Session, Admitted
<1>4. Told
  BY <1>1, SMT DEF Told
<1>5. Ledgered
  <2> DEFINE rank == [i \in 0 .. 0 |-> 0]
  <2>1. Len(down) = 0 /\ Len(heard) = 0 /\ Len(delivered) = 0 /\ Answered = 0
    BY <1>1, SMT DEF Answered, Front
  <2>2. rank \in [0 .. 0 -> Nat] /\ rank[0] = 0 /\ \A i, j \in 0 .. 0 : rank[i] <= rank[j]
    BY SMT
  <2>3. \A i \in 1 .. 0 : FALSE
    BY SMT
  <2> HIDE DEF rank
  <2>4. Ledger(rank, down, Len(heard), delivered, Answered, Front, Due, Wanted)
    BY <2>1, <2>2, <2>3, Zenon DEF Ledger
  <2> QED
    BY <2>4, Zenon DEF Ledgered
<1> QED
  BY <1>2, <1>3, <1>4, <1>5, Zenon DEF AnswerInv

LEMMA AnswerStep ==
  ASSUME TypeOK, AnswerInv, [Next]_vars
  PROVE  AnswerInv'
<1>1. client' = client
  BY SameMessages, Zenon
<1>11. Fits' => Fits
  BY <1>1, SMT DEF Fits
<1> SUFFICES ASSUME Fits, ~astray'
             PROVE  Mirror' /\ Session' /\ Admitted' /\ Told' /\ Ledgered'
  BY <1>11, Zenon DEF AnswerInv
<1>2. ~GoAstray
  BY SMT DEF GoAstray
<1>3. ~astray
  BY <1>2, SMT DEF Next, ClientReads, ServerReads, Play, vars, serverVars, Connect, HandleQuit,
         ProcessReply, ProcessFile, Misread, HandleLogin, ReplyLogin, HandleLogoff,
         HandleRequest, SendQueryFile, SendForAccount, StartPlayback, ReadBuffer, SendSlice,
         EndPlayback
<1>4. Mirror /\ Session /\ Admitted /\ Told /\ Ledgered
  BY <1>3, Zenon DEF AnswerInv
<1>5. CASE Misread \/ UNCHANGED vars
  <2>1. UNCHANGED <<client, lookup, pc, asked, up, down, heard, delivered>>
    BY <1>5, SMT DEF Misread, vars, clientVars, serverVars, receiveVars
  <2> QED
    BY <1>4, <2>1, AnswersKept, Zenon
<1>6. CASE Connect \/ HandleQuit
  <2>1. /\ UNCHANGED <<client, lookup, pc, down, heard, delivered>>
        /\ \E type \in {FeedLogin, FeedLogoff} :
             asked' = Append(asked, type) /\ up' = Append(up, LoginMessage(type))
    BY <1>6, SMT DEF Connect, HandleQuit, serverVars, receiveVars
  <2> QED
    BY <1>4, <2>1, AskAnswers, Zenon
<1>7. CASE ServerReads
  BY <1>2, <1>4, <1>7, LoginAnswers, ReplyLoginAnswers, LogoffAnswers, RequestAnswers,
     FileAnswers, Zenon DEF ServerReads
<1>8. CASE ProcessReply \/ ProcessFile
  BY <1>4, <1>8, ReplyTaken, FileTaken, Zenon
<1>9. CASE SendForAccount \/ \E p \in Player : Play(p)
  BY <1>4, <1>9, PushAnswers, Zenon
<1> QED
  BY <1>5, <1>6, <1>7, <1>8, <1>9, Zenon DEF Next, ClientReads

\* The n-th reply is the right one for the n-th request, whatever padding,
\* cutting and byte order did to the login, and each file a query has asked for
\* comes whole, at most once and between its own Ok and the next reply, however
\* many other files are sent at the same time (bse_server.cpp:443, 511).  With
\* nothing on its way every request has had its reply.
THEOREM DialogAnswers == Spec => []AnswersInOrder
<1>1. Init => AnswerInv
  BY AnswerInit, Zenon
<1>2. TypeOK /\ AnswerInv /\ [Next]_vars => AnswerInv'
  BY AnswerStep, Zenon
<1>3. TypeOK /\ AnswerInv => AnswersInOrder
  <2> SUFFICES ASSUME TypeOK, AnswerInv, Fits, ~astray
               PROVE  AnswersInOrder
    BY Zenon DEF AnswersInOrder
  <2>1. Mirror /\ Told
    BY Zenon DEF AnswerInv
  <2>2. \A n \in 1 .. Len(asked) :
          Due[n] = Expected(client, asked[n]) /\ Wanted[n] = QueryFile(client.code, asked[n])
    BY <2>1, Bounds, Zenon
  <2>3. /\ DOMAIN heard = 1 .. Len(heard) /\ DOMAIN delivered = 1 .. Len(delivered)
        /\ Len(heard) <= Len(asked)
        /\ \A n \in 1 .. Len(heard) : n \in 1 .. Len(asked)
    <3>1. Len(asked) \in Nat
      BY <2>1, Bounds, Zenon
    <3> QED
      BY <2>1, <3>1, SMT DEF Told
  <2>4. \A i \in DOMAIN heard : heard[i] = Expected(client, asked[i])
    BY <2>1, <2>2, <2>3, Zenon DEF Told
  <2>5. ASSUME NEW k \in DOMAIN delivered
        PROVE  LET n == delivered[k].after
               IN /\ n \in DOMAIN heard /\ heard[n] = [type |-> QueryReplyOk, value |-> 10]
                  /\ delivered[k].file = QueryFile(client.code, asked[n])
                  /\ k > 1 => delivered[k - 1].after < n
    BY <2>1, <2>2, <2>3, Zenon DEF Told, Ok10
  <2>6. ASSUME up = << >>, down = << >>
        PROVE  Len(heard) = Len(asked)
    <3>1. Len(up) = 0 /\ Len(down) = 0
      BY <2>6, SMT
    <3>2. Answered = Len(heard)
      <4>1. PICK rank : Ledger(rank, down, Len(heard), delivered, Answered, Front, Due, Wanted)
        BY Zenon DEF AnswerInv, Ledgered
      <4>2. rank[0] = Len(heard) /\ rank[Len(down)] = Answered
        BY <4>1, Zenon DEF Ledger
      <4> QED
        BY <3>1, <4>2, Zenon
    <3>3. Answered \in 0 .. Len(asked) /\ Len(asked) \in Nat
          /\ (Answered = Front \/ Answered = Front - 1)
      BY <2>1, Bounds, Zenon
    <3>4. Front = Len(asked) + 1
      BY <3>1, <3>3, SMT DEF Front
    <3> HIDE DEF Front, Answered
    <3>5. Answered = Len(asked)
      BY <3>3, <3>4, SMT
    <3> QED
      BY <3>2, <3>5, Zenon
  <2> QED
    BY <2>3, <2>4, <2>5, <2>6, Zenon DEF AnswersInOrder
<1> QED
  BY <1>1, <1>2, <1>3, TypeCorrect, PTL DEF Spec
===============================================================================
