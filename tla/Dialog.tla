------------------------------- MODULE Dialog -------------------------------
(***************************************************************************)
(* What BSEClient and BSESimulator say to each other on one connection:    *)
(* the client's login, queries and logoff, the server's replies, and the   *)
(* files that other threads of the server send to the same connection, a   *)
(* broadcast in one piece and a playback in slices.                        *)
(*                                                                         *)
(* Composition.  Each way is a FIFO, and each send_data is one stretch of  *)
(* it (TcpWrite), read from the front (TcpRead).  One thread at a time is  *)
(* in either process_data, which r_mutex sees to.                          *)
(*                                                                         *)
(* Data.  A request is its fields as they are on the wire, with its size.  *)
(* A reply arrives as one unit; a byte of a file is its position, and all  *)
(* files have messages that end at the same positions.  An account's other *)
(* clients are there or not.  Nobody disconnects: that is in BSESession.   *)
(*                                                                         *)
(* Grain.  The server's steps end at each send_data and where a context    *)
(* is created.  When the bytes and the messages have come apart, broken at *)
(* the client and astray at the server, that end is followed no further.   *)
(***************************************************************************)
EXTENDS Wire, FiniteSets

CONSTANTS
  Client,                   \* client_accounts: one of them is connected
  Account,                  \* bse_accounts of the server
  Player,                   \* threads that play journals back
  FileSize,                 \* bytes of every file
  Boundary,                 \* positions at which its messages end
  PwdLen,                   \* sizeof Password
  SlicePerSec,              \* slice_per_sec
  DftBufSize,               \* dft_buf_size
  MaxPlaybacks,             \* bound: playbacks
  MaxBroadcasts             \* bound: broadcasts

NoFile == ""                \* the name of a file that is not configured
None == -1                  \* logged in to nothing

\* The files that answer queries, and those that are sent unasked.
QueryFiles == UNION {{a.q_files[t] : t \in DOMAIN a.q_files} : a \in Account}
Pushed == {a.pb_file : a \in Account} \cup {a.jnl_file : a \in Account}
Files == {NoFile} \cup Pushed \cup QueryFiles

Character == UNION {{c.pwd[i] : i \in DOMAIN c.pwd} : c \in Client}

ASSUME DialogAssumption ==
  /\ FileSize \in Nat \ {0}
  /\ Boundary \subseteq 1 .. FileSize /\ FileSize \in Boundary
  /\ PwdLen \in Nat
  /\ SlicePerSec \in Nat \ {0} /\ DftBufSize \in Nat \ {0}
  /\ \A c \in Client :
       c.code \in Nat /\ c.pwd \in Seq(Character) /\ c.query_msgs \in Seq(Word32)
  /\ \A a \in Account : a.code \in Nat /\ a.jnl_rate \in Nat
  /\ \A a, b \in Account : a.code = b.code => a = b
  /\ "reply" \notin Files
  /\ MaxPlaybacks \in Nat /\ MaxBroadcasts \in Nat

VARIABLES
  client,                   \* the client's account_
  phase,                    \* the client: off, on, quit
  others,                   \* codes with another client logged in
  up,                       \* requests on their way to the server
  astray,                   \* the server has cut them wrongly
  lookup,                   \* SockLookup_ of the connection
  pc,                       \* the server's process_data
  down,                     \* what is on its way to the client
  last,                     \* the unit the client had before
  broken,                   \* the client has cut them wrongly
  asked,                    \* history: what the client meant to ask
  heard,                    \* history: replies that came in
  delivered,                \* history: query files that did, and after how many replies
  broadcasts,               \* how many there were
  ppc,                      \* where each playback is
  playing,                  \* its account's code
  process_size,             \* bytes of the file read so far
  r_size,                   \* bytes in the buffer
  sent_size,                \* how much of it was sent
  plays,                    \* how many playbacks there were
  cut                       \* history: a piece has ended inside a message

clientVars == <<client, phase, asked>>
serverVars == <<astray, lookup, pc>>
receiveVars == <<last, broken, heard, delivered>>
bufferVars == <<playing, process_size, r_size, sent_size>>
playVars == <<ppc, bufferVars, plays, cut>>
vars == <<clientVars, others, up, serverVars, down, receiveVars, broadcasts, playVars>>

FormatData16(data) == ReverseEndian16(data)
FormatData32(data) == ReverseEndian32(data)

-----------------------------------------------------------------------------
(* Units of the stream to the client *)

Reply == "reply"

Chunk(file, from, n) == [i \in 1 .. n |-> [file |-> file, pos |-> from + i]]

ReplyUnit(size, type, value) ==
  [file |-> Reply, pos |-> 1, Size |-> FormatData32(size - PHSizeType),
   Type |-> FormatData32(type), value |-> value]

\* The client's size_expect for a reply.
SizeExpect(unit) == FormatData32(unit.Size) + PHSizeType

EndsMessage(unit) == unit.file = Reply \/ unit.pos \in Boundary

StartsMessage(unit) == unit.file = Reply \/ unit.pos - 1 \in Boundary \cup {0}

\* One unit after another makes sense to process_data.
Follows(before, unit) ==
  IF EndsMessage(before)
  THEN StartsMessage(unit)
  ELSE unit.file = before.file /\ unit.pos = before.pos + 1

-----------------------------------------------------------------------------
(* Accounts *)

Code == {a.code : a \in Account}

Accounts_(code) == CHOOSE a \in Account : a.code = code
Known(code) == code \in Code

BufSize(a) == IF a.jnl_rate > 0 THEN a.jnl_rate ELSE DftBufSize
RateSize(a) == IF a.jnl_rate > 0 THEN a.jnl_rate \div SlicePerSec ELSE DftBufSize

Least(i, j) == IF i < j THEN i ELSE j

\* The file handle_request finds for a message type.
QueryFile(code, type) ==
  IF /\ code # None
     /\ Accounts_(code).type = "query"
     /\ type \in DOMAIN Accounts_(code).q_files
  THEN Accounts_(code).q_files[type]
  ELSE NoFile

Init ==
  /\ client \in Client
  /\ phase = "off"
  /\ others \in {{}, Code}
  /\ up = << >> /\ astray = FALSE
  /\ lookup = None /\ pc = "idle"
  /\ down = << >>
  /\ last = ReplyUnit(LoginReply, FeedLogin, FormatData16(UInt16(0))) /\ broken = FALSE
  /\ asked = << >> /\ heard = << >> /\ delivered = << >>
  /\ broadcasts = 0
  /\ ppc = [p \in Player |-> "idle"]
  /\ playing = [p \in Player |-> None]
  /\ process_size = [p \in Player |-> 0]
  /\ r_size = [p \in Player |-> 0]
  /\ sent_size = [p \in Player |-> 0]
  /\ plays = 0 /\ cut = FALSE

-----------------------------------------------------------------------------
(* The client *)

\* send_login and send_logoff: account_->code is an int, ClientCode 16 bits.
LoginMessage(type) ==
  [Type |-> FormatData32(type), size |-> LoginRequest(PwdLen),
   ClientCode |-> FormatData16(UInt16(client.code)), Password |-> Password(client.pwd, PwdLen)]

QueryMessage(type) == [Type |-> FormatData32(type), size |-> QueryRequest]

\* on_connect.
Connect ==
  /\ phase = "off"
  /\ phase' = "on"
  /\ asked' = Append(asked, FeedLogin)
  /\ up' = Append(up, LoginMessage(FeedLogin))
  /\ UNCHANGED <<client, others, serverVars, down, receiveVars, broadcasts, playVars>>

\* handle_quit, but for the Stop() after it.
HandleQuit ==
  /\ phase = "on"
  /\ phase' = "quit"
  /\ asked' = Append(asked, FeedLogoff)
  /\ up' = Append(up, LoginMessage(FeedLogoff))
  /\ UNCHANGED <<client, others, serverVars, down, receiveVars, broadcasts, playVars>>

\* What process_data reads in a reply: its flag is signed, a result is not.
ReplyHeard(unit) ==
  LET type == FormatData32(unit.Type)
  IN [type |-> type,
      value |-> IF type \in {FeedLogin, FeedLogoff}
                THEN Int16(FormatData16(unit.value)) ELSE FormatData32(unit.value)]

\* A login with flag 0 is followed by all the queries.
Accepted(reply) == reply.type = FeedLogin /\ reply.value = 0

\* The client's process_data, one unit at a time.
ProcessReply ==
  LET reply == ReplyHeard(Head(down))
      q == client.query_msgs
  IN /\ ~broken /\ down # << >>
     /\ Head(down).file = Reply
     /\ Follows(last, Head(down)) /\ SizeExpect(Head(down)) = QueryReply
     /\ heard' = Append(heard, reply)
     /\ IF Accepted(reply)
        THEN /\ asked' = asked \o q
             /\ up' = up \o [i \in DOMAIN q |-> QueryMessage(q[i])]
        ELSE UNCHANGED <<asked, up>>
     /\ last' = Head(down) /\ down' = Tail(down)
     /\ UNCHANGED <<client, phase, others, serverVars, broken, delivered, broadcasts, playVars>>

\* The last byte of a file that only a query sends.
Completes(unit) == unit.file \in QueryFiles \ Pushed /\ unit.pos = FileSize

ProcessFile ==
  LET unit == Head(down)
  IN /\ ~broken /\ down # << >>
     /\ unit.file # Reply
     /\ Follows(last, unit)
     /\ delivered' = IF Completes(unit)
                     THEN Append(delivered, [file |-> unit.file, after |-> Len(heard)])
                     ELSE delivered
     /\ last' = unit /\ down' = Tail(down)
     /\ UNCHANGED <<clientVars, others, up, serverVars, broken, heard, broadcasts, playVars>>

\* The bytes at the front are not what the header before them announced.
Misread ==
  /\ ~broken /\ down # << >>
  /\ \/ ~Follows(last, Head(down))
     \/ Head(down).file = Reply /\ SizeExpect(Head(down)) # QueryReply
  /\ broken' = TRUE
  /\ UNCHANGED <<clientVars, others, up, serverVars, down, last, heard, delivered, broadcasts,
                 playVars>>

-----------------------------------------------------------------------------
(* The server's process_data *)

\* Mutant: a logoff has the size of a query.
calc_msg_size_logoff(type) ==
  IF type = FeedLogin THEN LoginRequest(PwdLen) ELSE QueryRequest

calc_msg_size(type) ==
  CASE type = FeedLogin -> LoginRequest(PwdLen)
    [] type = FeedLogoff -> LogoffRequest(PwdLen)
    [] OTHER -> QueryRequest

Request == Head(up)
MsgType == FormatData32(Request.Type)

\* A request that is whole, or is taken to be.
Arrived(size) == pc = "idle" /\ ~astray /\ up # << >> /\ size = Request.size

\* send_data; a reply ends the handling of a request.
Answer(units) ==
  /\ down' = down \o units
  /\ up' = Tail(up)
  /\ pc' = "idle"

GoAstray ==
  /\ pc = "idle" /\ ~astray /\ up # << >>
  /\ calc_msg_size(MsgType) # Request.size
  /\ astray' = TRUE
  /\ UNCHANGED <<clientVars, others, up, lookup, pc, down, receiveVars, broadcasts, playVars>>

LoginCode == FormatData16(Request.ClientCode)
LoginAccepted ==
  Known(LoginCode) /\ Accounts_(LoginCode).pwd = trim(Request.Password)

\* handle_login: the context comes before the reply.
HandleLogin ==
  /\ Arrived(calc_msg_size(MsgType)) /\ MsgType = FeedLogin
  /\ lookup' = IF LoginAccepted THEN LoginCode ELSE lookup
  /\ pc' = "login"
  /\ UNCHANGED <<clientVars, others, up, astray, down, receiveVars, broadcasts, playVars>>

\* Mutant: the flag in the server's own byte order.
ReplyLoginUnswapped ==
  /\ pc = "login"
  /\ Answer(<<ReplyUnit(LoginReply, FeedLogin, UInt16(IF LoginAccepted THEN 0 ELSE -2))>>)
  /\ UNCHANGED <<clientVars, others, astray, lookup, receiveVars, broadcasts, playVars>>

ReplyLogin ==
  /\ pc = "login"
  /\ Answer(<<ReplyUnit(LoginReply, FeedLogin,
                        FormatData16(UInt16(IF LoginAccepted THEN 0 ELSE -2)))>>)
  /\ UNCHANGED <<clientVars, others, astray, lookup, receiveVars, broadcasts, playVars>>

\* handle_logoff: a reply, and the client stays logged in.
HandleLogoff ==
  /\ Arrived(calc_msg_size(MsgType)) /\ MsgType = FeedLogoff
  /\ Answer(<<ReplyUnit(LoginReply, FeedLogoff, FormatData16(UInt16(0)))>>)
  /\ UNCHANGED <<clientVars, others, astray, lookup, receiveVars, broadcasts, playVars>>

\* Mutant: no file, no reply.
HandleRequestSilently ==
  /\ Arrived(calc_msg_size(MsgType)) /\ MsgType \notin {FeedLogin, FeedLogoff}
  /\ IF QueryFile(lookup, MsgType) = NoFile
     THEN Answer(<< >>)
     ELSE /\ down' = Append(down, ReplyUnit(QueryReply, QueryReplyOk, FormatData32(10)))
          /\ pc' = "file"
          /\ UNCHANGED up
  /\ UNCHANGED <<clientVars, others, astray, lookup, receiveVars, broadcasts, playVars>>

\* handle_request: a result of 1 or 10, and a file if there is one.
HandleRequest ==
  /\ Arrived(calc_msg_size(MsgType)) /\ MsgType \notin {FeedLogin, FeedLogoff}
  /\ IF QueryFile(lookup, MsgType) = NoFile
     THEN Answer(<<ReplyUnit(QueryReply, QueryReplyErr, FormatData32(1))>>)
     ELSE /\ down' = Append(down, ReplyUnit(QueryReply, QueryReplyOk, FormatData32(10)))
          /\ pc' = "file"
          /\ UNCHANGED up
  /\ UNCHANGED <<clientVars, others, astray, lookup, receiveVars, broadcasts, playVars>>

\* send_query_file: map_file may fail, and then nothing follows the Ok.
SendQueryFile ==
  /\ pc = "file"
  /\ Answer(Chunk(QueryFile(lookup, MsgType), 0, FileSize)) \/ Answer(<< >>)
  /\ UNCHANGED <<clientVars, others, astray, lookup, receiveVars, broadcasts, playVars>>

-----------------------------------------------------------------------------
(* Other threads of the server *)

\* handle_file_notify and send_for_account, as far as this connection goes.
SendForAccount ==
  /\ broadcasts < MaxBroadcasts
  /\ lookup # None /\ Accounts_(lookup).pb_file # NoFile
  /\ broadcasts' = broadcasts + 1
  /\ down' = down \o Chunk(Accounts_(lookup).pb_file, 0, FileSize)
  /\ UNCHANGED <<clientVars, others, up, serverVars, receiveVars, playVars>>

Online == others \cup ({lookup} \ {None})

\* command_playback finds the account's context, and send_jnl_file opens the file.
StartPlayback(p, a) ==
  /\ ppc[p] = "idle"
  /\ plays < MaxPlaybacks
  /\ a.code \in Online /\ a.jnl_file # NoFile
  /\ plays' = plays + 1
  /\ ppc' = [ppc EXCEPT ![p] = "read"]
  /\ playing' = [playing EXCEPT ![p] = a.code]
  /\ process_size' = [process_size EXCEPT ![p] = 0]
  /\ UNCHANGED <<clientVars, others, up, serverVars, down, receiveVars, broadcasts, r_size,
                 sent_size, cut>>

InsideMessage(pos) == pos \notin Boundary \cup {0}

\* Mutant: the size of the buffer is added, not what was read into it.
ReadWholeBuffer(p) ==
  LET a == Accounts_(playing[p])
      n == Least(BufSize(a), FileSize - process_size[p])
      to == process_size[p] + BufSize(a)
  IN /\ ppc[p] = "read"
     /\ process_size[p] < FileSize
     /\ process_size' = [process_size EXCEPT ![p] = to]
     /\ IF lookup = playing[p]
        THEN /\ ppc' = [ppc EXCEPT ![p] = "send"]
             /\ r_size' = [r_size EXCEPT ![p] = n]
             /\ sent_size' = [sent_size EXCEPT ![p] = 0]
             /\ UNCHANGED cut
        ELSE cut' = (cut \/ InsideMessage(to)) /\ UNCHANGED <<ppc, r_size, sent_size>>
     /\ UNCHANGED <<clientVars, others, up, serverVars, down, receiveVars, broadcasts, playing,
                    plays>>

\* A buffer is read and the descriptors copied; if this connection is not
\* among them the others get it.
ReadBuffer(p) ==
  LET a == Accounts_(playing[p])
      n == Least(BufSize(a), FileSize - process_size[p])
      to == process_size[p] + n
  IN /\ ppc[p] = "read"
     /\ process_size[p] < FileSize
     /\ process_size' = [process_size EXCEPT ![p] = to]
     /\ IF lookup = playing[p]
        THEN /\ ppc' = [ppc EXCEPT ![p] = "send"]
             /\ r_size' = [r_size EXCEPT ![p] = n]
             /\ sent_size' = [sent_size EXCEPT ![p] = 0]
             /\ UNCHANGED cut
        ELSE cut' = (cut \/ InsideMessage(to)) /\ UNCHANGED <<ppc, r_size, sent_size>>
     /\ UNCHANGED <<clientVars, others, up, serverVars, down, receiveVars, broadcasts, playing,
                    plays>>

Offset(p) == process_size[p] - r_size[p] + sent_size[p]

\* Mutant: every slice is taken from the start of the buffer.
SendFirstSlice(p) ==
  LET a == Accounts_(playing[p])
      n == Least(RateSize(a), r_size[p] - sent_size[p])
  IN /\ ppc[p] = "send"
     /\ n > 0
     /\ down' = down \o Chunk(a.jnl_file, process_size[p] - r_size[p], n)
     /\ cut' = (cut \/ InsideMessage(Offset(p) + n))
     /\ sent_size' = [sent_size EXCEPT ![p] = @ + n]
     /\ ppc' = [ppc EXCEPT ![p] = IF sent_size[p] + n = r_size[p] THEN "read" ELSE "send"]
     /\ UNCHANGED <<clientVars, others, up, serverVars, receiveVars, broadcasts, playing,
                    process_size, r_size, plays>>

\* One send_data: a slice, or the whole buffer when there is no rate.  It
\* sleeps after each slice.
SendSlice(p) ==
  LET a == Accounts_(playing[p])
      n == Least(RateSize(a), r_size[p] - sent_size[p])
  IN /\ ppc[p] = "send"
     /\ n > 0
     /\ down' = down \o Chunk(a.jnl_file, Offset(p), n)
     /\ cut' = (cut \/ InsideMessage(Offset(p) + n))
     /\ sent_size' = [sent_size EXCEPT ![p] = @ + n]
     /\ ppc' = [ppc EXCEPT ![p] = IF sent_size[p] + n = r_size[p] THEN "read" ELSE "send"]
     /\ UNCHANGED <<clientVars, others, up, serverVars, receiveVars, broadcasts, playing,
                    process_size, r_size, plays>>

\* The end of the file, or a cancel after a buffer.
EndPlayback(p) ==
  /\ ppc[p] = "read"
  /\ process_size[p] > 0
  /\ ppc' = [ppc EXCEPT ![p] = "idle"]
  /\ UNCHANGED <<clientVars, others, up, serverVars, down, receiveVars, broadcasts, bufferVars,
                 plays, cut>>

-----------------------------------------------------------------------------

ClientReads == ProcessReply \/ ProcessFile \/ Misread

ServerReads ==
  \/ GoAstray
  \/ HandleLogin
  \/ ReplyLogin
  \/ HandleLogoff
  \/ HandleRequest
  \/ SendQueryFile

Play(p) ==
  \/ \E a \in Account : StartPlayback(p, a)
  \/ ReadBuffer(p)
  \/ SendSlice(p)
  \/ EndPlayback(p)

Next ==
  \/ Connect
  \/ HandleQuit
  \/ ClientReads
  \/ ServerReads
  \/ SendForAccount
  \/ \E p \in Player : Play(p)

Spec == Init /\ [][Next]_vars

\* Both ends read what has arrived.
FairSpec == Spec /\ WF_vars(ClientReads) /\ WF_vars(ServerReads)

-----------------------------------------------------------------------------
(* Properties *)

\* The requests and replies there are, and the bytes of the files.
Message ==
  {LoginMessage(type) : type \in {FeedLogin, FeedLogoff}}
    \cup {QueryMessage(client.query_msgs[i]) : i \in DOMAIN client.query_msgs}

Unit ==
  {ReplyUnit(LoginReply, type, FormatData16(UInt16(flag))) :
      type \in {FeedLogin, FeedLogoff}, flag \in {0, -2}}
    \cup {ReplyUnit(QueryReply, QueryReplyErr, FormatData32(1)),
          ReplyUnit(QueryReply, QueryReplyOk, FormatData32(10))}
    \cup [file : Files, pos : 1 .. FileSize]

\* Types, and a slice lies within its buffer and the buffer within the file.
TypeOK ==
  /\ client \in Client /\ phase \in {"off", "on", "quit"}
  /\ up \in Seq(Message) /\ down \in Seq(Unit) /\ last \in Unit
  /\ astray \in BOOLEAN /\ broken \in BOOLEAN /\ cut \in BOOLEAN
  /\ lookup \in Code \cup {None}
  /\ pc \in {"idle", "login", "file"}
  /\ pc # "idle" => up # << >>
  /\ broadcasts \in 0 .. MaxBroadcasts /\ plays \in 0 .. MaxPlaybacks
  /\ ppc \in [Player -> {"idle", "read", "send"}]
  /\ playing \in [Player -> Code \cup {None}]
  /\ \A p \in Player : ppc[p] # "idle" => playing[p] \in Code
  /\ process_size \in [Player -> 0 .. FileSize]
  /\ r_size \in [Player -> 0 .. FileSize]
  /\ sent_size \in [Player -> 0 .. FileSize]
  /\ \A p \in Player :
       ppc[p] = "send" => r_size[p] <= process_size[p] /\ sent_size[p] < r_size[p]

\* What comes over the connection makes sense to the client whichever threads
\* of the server send to it, as long as no piece of a playback has ended inside
\* a message.  Then another thread's bytes may come in between, or the client
\* may have joined there (bse_server.cpp:240, 258).
FramesIntact == ~cut => ~broken

\* Only a query for a message type that is also a login's or a logoff's puts
\* the server out of step (bse_server.cpp:389): it waits for bytes that never
\* come, or takes the next request for them.
InStep ==
  astray => \E i \in DOMAIN client.query_msgs : client.query_msgs[i] \in {FeedLogin, FeedLogoff}

\* A code and a password that survive their way to the server: the code in 16
\* bits, the password in its field and with nothing to trim.
Fits ==
  /\ client.code < 65536
  /\ Len(client.pwd) <= PwdLen
  /\ client.pwd # << >> => client.pwd[1] # Space /\ client.pwd[Len(client.pwd)] # Space

\* The account the client and the server both mean.
Mine(c) == {a \in Account : a.code = c.code /\ a.pwd = c.pwd}

\* What client c should hear to what it asked.
Expected(c, type) ==
  CASE type = FeedLogin -> [type |-> FeedLogin, value |-> IF Mine(c) # {} THEN 0 ELSE -2]
    [] type = FeedLogoff -> [type |-> FeedLogoff, value |-> 0]
    [] OTHER -> IF QueryFile(c.code, type) # NoFile
                THEN [type |-> QueryReplyOk, value |-> 10]
                ELSE [type |-> QueryReplyErr, value |-> 1]

\* Replies come in the order of the requests, and each is the right one: a
\* login is accepted if the two configurations agree, whatever padding, cutting
\* and byte order did to its fields, and a query is answered from the account's
\* files, each of which comes whole, at most once, after its own Ok and before
\* any other reply.  With nothing on its way no reply is missing.
AnswersInOrder ==
  Fits /\ ~astray =>
    /\ Len(heard) <= Len(asked)
    /\ up = << >> /\ down = << >> => Len(heard) = Len(asked)
    /\ \A i \in DOMAIN heard : heard[i] = Expected(client, asked[i])
    /\ \A k \in DOMAIN delivered :
         LET n == delivered[k].after
         IN /\ n \in DOMAIN heard /\ heard[n] = [type |-> QueryReplyOk, value |-> 10]
            /\ delivered[k].file = QueryFile(client.code, asked[n])
            /\ k > 1 => delivered[k - 1].after < n

\* Every request is answered, unless one of the two ends has lost its place.
EveryRequestAnswered ==
  \A n \in 1 .. 4 : Len(asked) >= n ~> Len(heard) >= n \/ broken \/ astray

\* "to playback jnl file for this account" (bse_server.cpp:770): the client gets
\* the messages of that file, whatever else it is sent.
FramesAlwaysIntact == ~broken

\* "Login accept: code=%d" (bse_server.cpp:476): a login is accepted only for
\* the code that was asked for.
AcceptedAsAsked == lookup # None => lookup = client.code
=============================================================================
