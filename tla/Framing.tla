------------------------------ MODULE Framing -------------------------------
(***************************************************************************)
(* Length-prefixed framing, as pure operators on sequences of bytes.       *)
(* Blocks of a Fetch body: [length | bytes] (framing.rs, frame.ts).        *)
(* gRPC messages: [flag | length | bytes] (grpc_framing.rs,                *)
(* h2ts-transport.ts). The size limit of a gRPC request stream (h2ts.rs).  *)
(***************************************************************************)
EXTENDS Integers, Sequences, SequencesExt

CONSTANT LenBytes  \* width of a length prefix; 4 in the code

ASSUME FramingAssumption == LenBytes \in Nat \ {0}

HeaderLen == 1 + LenBytes

Byte == 0..255
Bytes == Seq(Byte)

\* Big-endian numbers of LenBytes bytes, and which numbers these can hold.
be(n) ==
  LET shifted[k \in 0..LenBytes] == IF k = 0 THEN n ELSE shifted[k - 1] \div 256
  IN [k \in 1..LenBytes |-> shifted[LenBytes - k] % 256]
Fits(n) ==
  LET bound[k \in 0..LenBytes] == IF k = 0 THEN 1 ELSE 256 * bound[k - 1]
  IN n < bound[LenBytes]
uint(b) ==
  LET value[k \in 0..Len(b)] == IF k = 0 THEN 0 ELSE 256 * value[k - 1] + b[k]
  IN value[Len(b)]

-----------------------------------------------------------------------------
(* Blocks: a unary request is one, a unary response two.                   *)

block(m) == be(Len(m)) \o m

\* A Trailer in protobuf: the status code 0 is a default and takes no bytes.
Trailer(code) == IF code = 0 THEN <<>> ELSE <<code>>
statusCode(t) == IF t = <<>> THEN 0 ELSE t[1]

encode_trailer_block(code) == block(Trailer(code))
encode_response_body(m, code) == block(m) \o encode_trailer_block(code)

Truncated == [ok |-> FALSE]

take_block(b) ==
  LET n == uint(SubSeq(b, 1, LenBytes)) IN
  IF Len(b) < LenBytes \/ Len(b) < LenBytes + n THEN Truncated
  ELSE [ok |-> TRUE, bytes |-> SubSeq(b, LenBytes + 1, LenBytes + n),
        rest |-> SubSeq(b, LenBytes + n + 1, Len(b))]

\* What a client makes of a buffered response body.
decode_response_body(b) ==
  LET message == take_block(b) IN
  IF ~message.ok THEN Truncated
  ELSE LET trailer == take_block(message.rest) IN
       IF ~trailer.ok THEN Truncated
       ELSE [ok |-> TRUE, message |-> message.bytes, code |-> statusCode(trailer.bytes)]

-----------------------------------------------------------------------------
(* gRPC messages                                                           *)

frame(m) == <<0>> \o block(m)

\* The length declared by the header that starts after the first o bytes of b.
Declared(b, o) == uint(SubSeq(b, o + 2, o + HeaderLen))

\* Every complete message of b in order, and how many bytes they take.
deframe(b) ==
  LET from[o \in 0..Len(b)] ==
        IF Len(b) - o < HeaderLen \/ Len(b) - o - HeaderLen < Declared(b, o)
        THEN [messages |-> <<>>, used |-> o]
        ELSE LET next == o + HeaderLen + Declared(b, o) IN
             [messages |-> <<SubSeq(b, o + HeaderLen + 1, next)>> \o from[next].messages,
              used |-> from[next].used]
  IN from[0]

deframe_all(b) == deframe(b).messages

\* Mutant of push: what is parsed is not let go of.
PushKeeps(buf, chunk) == [messages |-> deframe_all(buf \o chunk), buf |-> buf \o chunk]

\* A parser that is pushed one chunk: the messages it completes, the bytes it keeps.
push(buf, chunk) ==
  LET b == buf \o chunk
      d == deframe(b)
  IN [messages |-> d.messages, buf |-> SubSeq(b, d.used + 1, Len(b))]

-----------------------------------------------------------------------------
(* GrpcSizeLimit: walks a request stream and notices a message too long,   *)
(* whatever the chunks it comes in.                                        *)

LimitState ==
  [header_seen : 0..HeaderLen, len_buf : Bytes, body_remaining : Nat, over : BOOLEAN]
NoLimitYet == [header_seen |-> 0, len_buf |-> <<>>, body_remaining |-> 0, over |-> FALSE]

\* One byte of a header. The flag is not kept; the last byte gives the length.
InspectHeader(s, byte, max) ==
  LET seen == s.header_seen + 1
      len  == IF s.header_seen >= 1 THEN Append(s.len_buf, byte) ELSE <<>>
  IN [header_seen |-> seen, len_buf |-> len,
      body_remaining |-> IF seen = HeaderLen THEN uint(len) ELSE 0,
      over |-> seen = HeaderLen /\ uint(len) > max]

\* A header whose message is over, or was empty, is forgotten.
NextHeader(s) ==
  IF s.header_seen = HeaderLen /\ s.body_remaining = 0 THEN NoLimitYet ELSE s

InspectByte(s, byte, max) ==
  LET t == NextHeader(s) IN
  IF s.over THEN s
  ELSE IF t.header_seen < HeaderLen THEN InspectHeader(t, byte, max)
  ELSE NextHeader([t EXCEPT !.body_remaining = @ - 1])

InspectBytes(s, bytes, max) ==
  LET after[k \in 0..Len(bytes)] ==
        IF k = 0 THEN s ELSE InspectByte(after[k - 1], bytes[k], max)
  IN after[Len(bytes)]

\* Mutant of inspect: every chunk is taken to start with a header.
InspectAfresh(s, chunk, max) == InspectBytes(NoLimitYet, chunk, max)

inspect(s, chunk, max) == InspectBytes(s, chunk, max)

\* The same, said of the whole stream: where its headers are, and what they declare.
HeaderStarts(b) ==
  LET upto[o \in 0..Len(b)] ==
        IF o = 0 THEN {0}
        ELSE upto[o - 1] \cup
               {q \in {o} : \E p \in upto[o - 1] :
                              p + HeaderLen <= Len(b) /\ q = p + HeaderLen + Declared(b, p)}
  IN upto[Len(b)]
DeclaresOver(b, max) ==
  \E o \in HeaderStarts(b) : o + HeaderLen <= Len(b) /\ Declared(b, o) > max
=============================================================================
