-------------------------------- MODULE Wire --------------------------------
(***************************************************************************)
(* What the two programs put on the wire, and how they convert it: the     *)
(* byte order of integers, the sizes of the messages, and the password,    *)
(* which the client pads and the server trims.                             *)
(*                                                                         *)
(* Data.  An integer is its value, a text a sequence of characters.  Both  *)
(* programs are built without BSE_LITTLE_ENDIAN, so FormatData turns the   *)
(* bytes round.                                                            *)
(***************************************************************************)
EXTENDS Integers, Sequences, FiniteSetsExt

\* BSEMsgType
FeedLogin == 1801
FeedLogoff == 1802
QueryReplyOk == 2110
QueryReplyErr == 2111

\* The values of a uint32_t.
Word32 == {d \in Nat : d \div 65536 < 65536}

\* ReverseEndian of a uint16_t and of a uint32_t, byte by byte.
ReverseEndian16(data) ==
  ((data \div 256) % 256) + ((data % 256) * 256)

ReverseEndian32(data) ==
  ((data \div 16777216) % 256) + (((data \div 65536) % 256) * 256)
    + (((data \div 256) % 256) * 65536) + ((data % 256) * 16777216)

\* A value stored in 16 bits, and one read from them as signed.
UInt16(data) == data % 65536
Int16(data) == IF data < 32768 THEN data ELSE data - 65536

\* Packed structs: sizes in bytes, with a password of pwlen characters.
PHSizeType == 4
PacketHeader == 4 + 4
LoginRequest(pwlen) == 4 + 2 + 2 + pwlen + 8
LogoffRequest(pwlen) == LoginRequest(pwlen)
QueryRequest == 4 + 4
LoginReply == PacketHeader + 2 + 2
QueryReply == PacketHeader + 4

\* isspace, and the trims of common.cpp.
Space == " "
Black(s) == {i \in DOMAIN s : s[i] # Space}
ltrim(s) == IF Black(s) = {} THEN << >> ELSE SubSeq(s, Min(Black(s)), Len(s))
rtrim(s) == IF Black(s) = {} THEN << >> ELSE SubSeq(s, 1, Max(Black(s)))
trim(s) == rtrim(ltrim(s))

\* The password field of a request: padded with spaces, and cut to its length.
Password(pwd, pwlen) ==
  [i \in 1 .. pwlen |-> IF i <= Len(pwd) THEN pwd[i] ELSE Space]
=============================================================================
