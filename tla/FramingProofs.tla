---------------------------- MODULE FramingProofs ----------------------------
(***************************************************************************)
(* What the pure operators of Framing compute, for every width of a length *)
(* prefix and every sequence of bytes. The induction theorems of the       *)
(* library take an operator, which the provers cannot instantiate; every   *)
(* induction here is one over a set of numbers (Inductions), and the       *)
(* recursive functions are first shown to exist.                           *)
(***************************************************************************)
EXTENDS Framing, Inductions, SequenceTheorems

-----------------------------------------------------------------------------
(* Numbers in bytes                                                        *)

\* The elements of a sequence of bytes.
LEMMA BytesAreNats ==
  ASSUME NEW b \in Bytes
  PROVE  Len(b) \in Nat /\ \A k \in 1..Len(b) : b[k] \in Byte /\ b[k] \in Nat
<1>1. Byte \subseteq Nat
  BY DEF Byte
<1>2. \A k \in 1..Len(b) : b[k] \in Byte
  BY ElementOfSeq DEF Bytes
<1>3. Len(b) \in Nat
  BY DEF Bytes
<1> QED BY <1>1, <1>2, <1>3

\* uint in terms of its recursive function, which is known by its equations.
LEMMA UintIs ==
  ASSUME NEW b \in Bytes
  PROVE  \E v \in [0..Len(b) -> Nat] :
           /\ v[0] = 0
           /\ \A k \in 1..Len(b) : v[k] = 256 * v[k - 1] + b[k]
           /\ uint(b) = v[Len(b)]
<1> DEFINE v == CHOOSE v : v = [k \in 0..Len(b) |-> IF k = 0 THEN 0 ELSE 256 * v[k - 1] + b[k]]
           digit(k) == IF k \in 1..Len(b) THEN b[k] ELSE 0
           step == [k \in Nat |-> [n \in Nat |-> 256 * n + digit(k)]]
<1>1. Len(b) \in Nat /\ \A k \in 1..Len(b) : b[k] \in Nat
  BY BytesAreNats
<1>2. step \in [Nat -> [Nat -> Nat]]
  BY <1>1
<1>3. PICK f \in [0..Len(b) -> Nat] : f[0] = 0 /\ \A k \in 1..Len(b) : f[k] = step[k][f[k - 1]]
  <2> HIDE DEF step
  <2>1. 0 \in Nat /\ Len(b) \in Nat
    BY <1>1
  <2>2. Defined(Nat, 0, step, Len(b))
    BY <2>1, <1>2, Recursion
  <2> QED BY <2>2 DEF Defined
<1>4. ASSUME NEW k \in 1..Len(b) PROVE f[k] = 256 * f[k - 1] + b[k]
  <2>1. k \in Nat /\ f[k - 1] \in Nat /\ digit(k) = b[k]
    BY <1>1
  <2>2. step[k][f[k - 1]] = 256 * f[k - 1] + b[k]
    BY <2>1
  <2> QED BY <1>3, <2>2
<1>5. f = [k \in 0..Len(b) |-> IF k = 0 THEN 0 ELSE 256 * f[k - 1] + b[k]]
  <2> HIDE DEF step
  <2>1. \A k \in 0..Len(b) : f[k] = IF k = 0 THEN 0 ELSE 256 * f[k - 1] + b[k]
    BY <1>1, <1>3, <1>4
  <2> QED BY <2>1
<1>6. v = [k \in 0..Len(b) |-> IF k = 0 THEN 0 ELSE 256 * v[k - 1] + b[k]]
  BY ZenonT(60), <1>5
<1>7. uint(b) = v[Len(b)]
  BY DEF uint
<1> HIDE DEF v
<1>8. /\ v[0] = 0
      /\ \A k \in 1..Len(b) : v[k] = 256 * v[k - 1] + b[k]
  BY <1>1, <1>6
<1>9. \A k \in 0..Len(b) : v[k] \in Nat
  <2>1. v[0] \in Nat
    BY <1>8
  <2>2. \A k \in 1..Len(b) : v[k - 1] \in Nat => v[k] \in Nat
    BY <1>1, <1>8
  <2> QED BY <1>1, <2>1, <2>2, HandedOn
<1>10. v \in [0..Len(b) -> Nat]
  BY <1>6, <1>9
<1> QED BY <1>7, <1>8, <1>10

\* uint of a sequence of bytes is a number.
LEMMA UintIsNat ==
  ASSUME NEW b \in Bytes
  PROVE  uint(b) \in Nat
BY UintIs, BytesAreNats

\* The numbers be takes its bytes from: n divided again and again.
LEMMA BeIs ==
  ASSUME NEW n \in Nat
  PROVE  \E f \in [0..LenBytes -> Nat] :
           /\ f[0] = n
           /\ \A k \in 1..LenBytes : f[k] = f[k - 1] \div 256
           /\ be(n) = [k \in 1..LenBytes |-> f[LenBytes - k] % 256]
<1> DEFINE v == CHOOSE v : v = [k \in 0..LenBytes |-> IF k = 0 THEN n ELSE v[k - 1] \div 256]
           step == [k \in Nat |-> [m \in Nat |-> m \div 256]]
<1>1. LenBytes \in Nat
  BY FramingAssumption
<1>2. step \in [Nat -> [Nat -> Nat]]
  OBVIOUS
<1>3. PICK f \in [0..LenBytes -> Nat] :
         f[0] = n /\ \A k \in 1..LenBytes : f[k] = step[k][f[k - 1]]
  <2> HIDE DEF step
  <2>1. Defined(Nat, n, step, LenBytes)
    BY <1>1, <1>2, Recursion
  <2> QED BY <2>1 DEF Defined
<1>4. ASSUME NEW k \in 1..LenBytes PROVE f[k] = f[k - 1] \div 256
  <2>1. k \in Nat /\ f[k - 1] \in Nat
    BY <1>1
  <2> QED BY <1>3, <2>1
<1>5. f = [k \in 0..LenBytes |-> IF k = 0 THEN n ELSE f[k - 1] \div 256]
  <2> HIDE DEF step
  <2>1. \A k \in 0..LenBytes : f[k] = IF k = 0 THEN n ELSE f[k - 1] \div 256
    BY <1>1, <1>3, <1>4
  <2> QED BY <2>1
<1>6. v = [k \in 0..LenBytes |-> IF k = 0 THEN n ELSE v[k - 1] \div 256]
  BY ZenonT(60), <1>5
<1>7. be(n) = [k \in 1..LenBytes |-> v[LenBytes - k] % 256]
  BY DEF be
<1> HIDE DEF v
<1>8. /\ v[0] = n
      /\ \A k \in 1..LenBytes : v[k] = v[k - 1] \div 256
  BY <1>1, <1>6
<1>9. \A k \in 0..LenBytes : v[k] \in Nat
  <2>1. \A k \in 1..LenBytes : v[k - 1] \in Nat => v[k] \in Nat
    BY <1>1, <1>8
  <2> QED BY <1>1, <1>8, <2>1, HandedOn
<1>10. v \in [0..LenBytes -> Nat]
  BY <1>6, <1>9
<1> QED BY <1>7, <1>8, <1>10

\* The powers of 256 that Fits compares with.
LEMMA FitsIs ==
  ASSUME NEW n \in Nat
  PROVE  \E f \in [0..LenBytes -> Nat] :
           /\ f[0] = 1
           /\ \A k \in 1..LenBytes : f[k] = 256 * f[k - 1]
           /\ Fits(n) <=> n < f[LenBytes]
<1> DEFINE v == CHOOSE v : v = [k \in 0..LenBytes |-> IF k = 0 THEN 1 ELSE 256 * v[k - 1]]
           step == [k \in Nat |-> [m \in Nat |-> 256 * m]]
<1>1. LenBytes \in Nat
  BY FramingAssumption
<1>2. step \in [Nat -> [Nat -> Nat]]
  OBVIOUS
<1>3. PICK f \in [0..LenBytes -> Nat] :
         f[0] = 1 /\ \A k \in 1..LenBytes : f[k] = step[k][f[k - 1]]
  <2> HIDE DEF step
  <2>1. Defined(Nat, 1, step, LenBytes)
    BY <1>1, <1>2, Recursion
  <2> QED BY <2>1 DEF Defined
<1>4. ASSUME NEW k \in 1..LenBytes PROVE f[k] = 256 * f[k - 1]
  <2>1. k \in Nat /\ f[k - 1] \in Nat
    BY <1>1
  <2> QED BY <1>3, <2>1
<1>5. f = [k \in 0..LenBytes |-> IF k = 0 THEN 1 ELSE 256 * f[k - 1]]
  <2> HIDE DEF step
  <2>1. \A k \in 0..LenBytes : f[k] = IF k = 0 THEN 1 ELSE 256 * f[k - 1]
    BY <1>1, <1>3, <1>4
  <2> QED BY <2>1
<1>6. v = [k \in 0..LenBytes |-> IF k = 0 THEN 1 ELSE 256 * v[k - 1]]
  BY ZenonT(60), <1>5
<1>7. Fits(n) <=> n < v[LenBytes]
  BY DEF Fits
<1> HIDE DEF v
<1>8. /\ v[0] = 1
      /\ \A k \in 1..LenBytes : v[k] = 256 * v[k - 1]
  BY <1>1, <1>6
<1>9. \A k \in 0..LenBytes : v[k] \in Nat
  <2>1. v[0] \in Nat
    BY <1>8
  <2>2. \A k \in 1..LenBytes : v[k - 1] \in Nat => v[k] \in Nat
    BY <1>1, <1>8
  <2> QED BY <1>1, <2>1, <2>2, HandedOn
<1>10. v \in [0..LenBytes -> Nat]
  BY <1>6, <1>9
<1> QED BY <1>7, <1>8, <1>10

\* A length that fits its prefix is read back from it: what one side frames, the
\* other side takes for what it is (encode_request_body, take_block, inspect).
LEMMA LengthRoundTrip ==
  ASSUME NEW n \in Nat, Fits(n)
  PROVE  be(n) \in Bytes /\ Len(be(n)) = LenBytes /\ uint(be(n)) = n
<1>1. LenBytes \in Nat
  BY FramingAssumption
<1>2. PICK f \in [0..LenBytes -> Nat] :
         /\ f[0] = n
         /\ \A k \in 1..LenBytes : f[k] = f[k - 1] \div 256
         /\ be(n) = [k \in 1..LenBytes |-> f[LenBytes - k] % 256]
  BY BeIs
<1>3. be(n) \in Bytes /\ Len(be(n)) = LenBytes
  <2>1. ASSUME NEW k \in 1..LenBytes PROVE f[LenBytes - k] % 256 \in Byte
    <3>1. f[LenBytes - k] \in Nat
      BY <1>1
    <3>2. \A x \in Nat : x % 256 \in 0..255
      OBVIOUS
    <3> QED BY <3>1, <3>2 DEF Byte
  <2>2. be(n) \in [1..LenBytes -> Byte]
    BY <1>2, <2>1
  <2> QED BY <1>1, <2>2 DEF Bytes
<1>4. f[LenBytes] = 0
  <2>1. PICK p \in [0..LenBytes -> Nat] :
           /\ p[0] = 1
           /\ \A k \in 1..LenBytes : p[k] = 256 * p[k - 1]
           /\ Fits(n) <=> n < p[LenBytes]
    BY FitsIs
  <2> DEFINE S == {k \in Nat : k <= LenBytes => f[k] < p[LenBytes - k]}
  <2>2. ASSUME NEW k \in Nat, \A m \in 0..(k - 1) : m \in S
        PROVE  k \in S
    <3>1. CASE k = 0
      BY <3>1, <1>1, <1>2, <2>1
    <3>2. CASE k \in 1..LenBytes
      <4>1. k - 1 \in S
        BY <2>2, <3>2
      <4>2. f[k - 1] < p[LenBytes - (k - 1)]
        BY <4>1, <3>2, <1>1
      <4>3. p[LenBytes - (k - 1)] = 256 * p[LenBytes - k]
        BY <2>1, <1>1, <3>2
      <4>4. f[k] = f[k - 1] \div 256 /\ f[k - 1] \in Nat /\ p[LenBytes - k] \in Nat
        BY <1>1, <1>2, <3>2
      <4>5. f[k] < p[LenBytes - k]
        BY <4>2, <4>3, <4>4
      <4> QED BY <4>5
    <3>3. CASE k > LenBytes
      BY <3>3, <1>1
    <3> QED BY <3>1, <3>2, <3>3, <1>1
  <2> HIDE DEF S
  <2>3. \A k \in Nat : k \in S
    BY <2>2, Induction
  <2>4. f[LenBytes] < 1 /\ f[LenBytes] \in Nat
    BY <2>3, <2>1, <1>1, <1>2 DEF S
  <2> QED BY <2>4
<1>5. PICK v \in [0..Len(be(n)) -> Nat] :
         /\ v[0] = 0
         /\ \A k \in 1..Len(be(n)) : v[k] = 256 * v[k - 1] + be(n)[k]
         /\ uint(be(n)) = v[Len(be(n))]
  BY <1>3, UintIs
<1> DEFINE S == {k \in Nat : k <= LenBytes => v[k] = f[LenBytes - k]}
<1>6. ASSUME NEW k \in Nat, \A m \in 0..(k - 1) : m \in S
      PROVE  k \in S
  <2>1. CASE k = 0
    BY <2>1, <1>1, <1>4, <1>5
  <2>2. CASE k \in 1..LenBytes
    <3>1. k - 1 \in S
      BY <1>6, <2>2
    <3>2. v[k - 1] = f[LenBytes - (k - 1)]
      BY <3>1, <2>2
    <3>3. f[LenBytes - (k - 1)] = f[LenBytes - k] \div 256 /\ f[LenBytes - k] \in Nat
      BY <1>1, <1>2, <2>2
    <3>4. v[k] = 256 * v[k - 1] + (f[LenBytes - k] % 256)
      <4>1. v[k] = 256 * v[k - 1] + be(n)[k]
        BY <1>3, <1>5, <2>2
      <4> QED BY <4>1, <1>2, <2>2
    <3>5. v[k] = f[LenBytes - k]
      BY <3>2, <3>3, <3>4
    <3> QED BY <3>5
  <2>3. CASE k > LenBytes
    BY <2>3, <1>1
  <2> QED BY <2>1, <2>2, <2>3, <1>1
<1> HIDE DEF S
<1>7. \A k \in Nat : k \in S
  BY <1>6, Induction
<1>8. v[LenBytes] = f[0]
  BY <1>1, <1>7 DEF S
<1> QED BY <1>2, <1>3, <1>5, <1>8

-----------------------------------------------------------------------------
(* The size limit, byte by byte                                            *)

\* One byte keeps the walker's state in range.
LEMMA InspectByteType ==
  ASSUME NEW s \in LimitState, NEW byte \in Byte, NEW max \in Int
  PROVE  InspectByte(s, byte, max) \in LimitState
<1>1. HeaderLen \in Nat /\ HeaderLen >= 2 /\ <<>> \in Bytes
  BY FramingAssumption DEF HeaderLen, Bytes
<1>2. NoLimitYet \in LimitState
  BY <1>1 DEF NoLimitYet, LimitState
<1>3. ASSUME NEW t \in LimitState PROVE NextHeader(t) \in LimitState
  BY <1>2, <1>3 DEF NextHeader
<1>4. ASSUME NEW t \in LimitState, t.header_seen < HeaderLen
      PROVE  InspectHeader(t, byte, max) \in LimitState
  <2> DEFINE len == IF t.header_seen >= 1 THEN Append(t.len_buf, byte) ELSE <<>>
  <2>1. len \in Bytes
    BY <1>1 DEF LimitState, Bytes
  <2>2. uint(len) \in Nat
    BY <2>1, UintIsNat
  <2>3. t.header_seen \in Nat
    BY <1>1 DEF LimitState
  <2> HIDE DEF len
  <2>4. [header_seen |-> t.header_seen + 1, len_buf |-> len,
         body_remaining |-> IF t.header_seen + 1 = HeaderLen THEN uint(len) ELSE 0,
         over |-> t.header_seen + 1 = HeaderLen /\ uint(len) > max] \in LimitState
    BY <2>1, <2>2, <2>3, <1>1, <1>4 DEF LimitState
  <2> QED BY <2>4 DEF InspectHeader, len
<1>5. ASSUME NEW t \in LimitState, t.header_seen = HeaderLen, t.body_remaining > 0
      PROVE  [t EXCEPT !.body_remaining = @ - 1] \in LimitState
  BY <1>5 DEF LimitState
<1>6. CASE s.over
  BY <1>6 DEF InspectByte
<1>7. CASE ~s.over
  <2> DEFINE t == NextHeader(s)
  <2>1. t \in LimitState
    BY <1>3
  <2>2. t.header_seen = HeaderLen => t.body_remaining > 0
    BY <1>1 DEF NextHeader, NoLimitYet, LimitState
  <2>3. t.header_seen < HeaderLen \/ t.header_seen = HeaderLen
    BY <1>1, <2>1 DEF LimitState
  <2> HIDE DEF t
  <2>4. InspectByte(s, byte, max) =
          IF t.header_seen < HeaderLen THEN InspectHeader(t, byte, max)
          ELSE NextHeader([t EXCEPT !.body_remaining = @ - 1])
    BY <1>7 DEF InspectByte, t
  <2>5. CASE t.header_seen < HeaderLen
    BY <2>5, <2>1, <2>4, <1>4
  <2>6. CASE t.header_seen = HeaderLen
    <3>1. [t EXCEPT !.body_remaining = @ - 1] \in LimitState
      BY <2>6, <2>1, <2>2, <1>5
    <3> QED BY <3>1, <2>6, <2>4, <1>1, <1>3
  <2> QED BY <2>3, <2>5, <2>6
<1> QED BY <1>6, <1>7

\* inspect in terms of its recursive function, which is known by its equations.
LEMMA InspectIs ==
  ASSUME NEW s \in LimitState, NEW b \in Bytes, NEW max \in Int
  PROVE  \E v \in [0..Len(b) -> LimitState] :
           /\ v[0] = s
           /\ \A k \in 1..Len(b) : v[k] = InspectByte(v[k - 1], b[k], max)
           /\ inspect(s, b, max) = v[Len(b)]
<1> DEFINE v == CHOOSE v : v = [k \in 0..Len(b) |-> IF k = 0 THEN s ELSE InspectByte(v[k - 1], b[k], max)]
           byte(k) == IF k \in 1..Len(b) THEN b[k] ELSE 0
           step == [k \in Nat |-> [t \in LimitState |-> InspectByte(t, byte(k), max)]]
<1>1. Len(b) \in Nat /\ \A k \in Nat : byte(k) \in Byte
  BY BytesAreNats DEF Byte
<1>2. step \in [Nat -> [LimitState -> LimitState]]
  <2> HIDE DEF byte
  <2>1. ASSUME NEW k \in Nat, NEW t \in LimitState
        PROVE  InspectByte(t, byte(k), max) \in LimitState
    BY <1>1, InspectByteType
  <2> QED BY <2>1
<1>3. PICK f \in [0..Len(b) -> LimitState] :
         f[0] = s /\ \A k \in 1..Len(b) : f[k] = step[k][f[k - 1]]
  <2> HIDE DEF step
  <2>1. Defined(LimitState, s, step, Len(b))
    BY <1>1, <1>2, Recursion
  <2> QED BY <2>1 DEF Defined
<1>4. ASSUME NEW k \in 1..Len(b) PROVE f[k] = InspectByte(f[k - 1], b[k], max)
  <2>1. k \in Nat /\ f[k - 1] \in LimitState /\ byte(k) = b[k]
    BY <1>1
  <2> HIDE DEF byte
  <2>2. step[k][f[k - 1]] = InspectByte(f[k - 1], byte(k), max)
    BY <2>1
  <2> QED BY <1>3, <2>1, <2>2
<1>5. f = [k \in 0..Len(b) |-> IF k = 0 THEN s ELSE InspectByte(f[k - 1], b[k], max)]
  <2> HIDE DEF step
  <2>1. \A k \in 0..Len(b) : f[k] = IF k = 0 THEN s ELSE InspectByte(f[k - 1], b[k], max)
    BY <1>1, <1>3, <1>4
  <2> QED BY <2>1
<1>6. v = [k \in 0..Len(b) |-> IF k = 0 THEN s ELSE InspectByte(v[k - 1], b[k], max)]
  BY <1>5
<1>7. inspect(s, b, max) = v[Len(b)]
  BY DEF inspect, InspectBytes
<1> HIDE DEF v
<1>8. /\ v[0] = s
      /\ \A k \in 1..Len(b) : v[k] = InspectByte(v[k - 1], b[k], max)
  BY <1>1, <1>6
<1>9. \A k \in 0..Len(b) : v[k] \in LimitState
  <2>1. ASSUME NEW k \in 1..Len(b), v[k - 1] \in LimitState PROVE v[k] \in LimitState
    <3>1. b[k] \in Byte
      BY BytesAreNats
    <3> QED BY <2>1, <3>1, <1>8, InspectByteType
  <2>2. v[0] \in LimitState
    BY <1>8
  <2> QED BY <1>1, <2>1, <2>2, HandedOn
<1>10. v \in [0..Len(b) -> LimitState]
  BY <1>6, <1>9
<1> QED BY <1>7, <1>8, <1>10

\* The walker does not care how a request is cut into chunks (h2ts.rs poll_frame).
LEMMA InspectInChunks ==
  ASSUME NEW s \in LimitState, NEW a \in Bytes, NEW b \in Bytes, NEW max \in Int
  PROVE  /\ inspect(s, a, max) \in LimitState
         /\ inspect(s, a \o b, max) = inspect(inspect(s, a, max), b, max)
<1>1. /\ a \o b \in Bytes
      /\ Len(a) \in Nat /\ Len(b) \in Nat /\ Len(a \o b) = Len(a) + Len(b)
      /\ \A k \in 1..Len(a) : (a \o b)[k] = a[k]
      /\ \A k \in 1..Len(b) : (a \o b)[Len(a) + k] = b[k]
  BY DEF Bytes
<1>2. PICK u \in [0..Len(a) -> LimitState] :
         /\ u[0] = s
         /\ \A k \in 1..Len(a) : u[k] = InspectByte(u[k - 1], a[k], max)
         /\ inspect(s, a, max) = u[Len(a)]
  BY InspectIs
<1>3. inspect(s, a, max) \in LimitState
  BY <1>1, <1>2
<1>4. PICK v \in [0..Len(a \o b) -> LimitState] :
         /\ v[0] = s
         /\ \A k \in 1..Len(a \o b) : v[k] = InspectByte(v[k - 1], (a \o b)[k], max)
         /\ inspect(s, a \o b, max) = v[Len(a \o b)]
  BY ZenonT(60), <1>1, InspectIs
<1>5. PICK w \in [0..Len(b) -> LimitState] :
         /\ w[0] = inspect(s, a, max)
         /\ \A k \in 1..Len(b) : w[k] = InspectByte(w[k - 1], b[k], max)
         /\ inspect(inspect(s, a, max), b, max) = w[Len(b)]
  BY <1>3, InspectIs
<1> DEFINE S == {k \in Nat : k <= Len(a) => v[k] = u[k]}
           T == {k \in Nat : k <= Len(b) => v[Len(a) + k] = w[k]}
<1>6. ASSUME NEW k \in Nat, \A m \in 0..(k - 1) : m \in S
      PROVE  k \in S
  <2>1. CASE k = 0
    BY <2>1, <1>2, <1>4
  <2>2. CASE k \in 1..Len(a)
    <3>1. k - 1 \in S
      BY <1>6, <2>2
    <3>2. v[k - 1] = u[k - 1] /\ k \in 1..Len(a \o b)
      BY <3>1, <2>2, <1>1
    <3>3. v[k] = u[k]
      BY <3>2, <2>2, <1>1, <1>2, <1>4
    <3> QED BY <3>3
  <2>3. CASE k > Len(a)
    BY <2>3, <1>1
  <2> QED BY <2>1, <2>2, <2>3, <1>1
<1>7. \A k \in Nat : k \in S
  <2> HIDE DEF S
  <2> QED BY <1>6, Induction
<1>8. v[Len(a)] = u[Len(a)]
  BY <1>1, <1>7
<1>9. ASSUME NEW k \in Nat, \A m \in 0..(k - 1) : m \in T
      PROVE  k \in T
  <2>1. CASE k = 0
    BY <2>1, <1>1, <1>2, <1>5, <1>8
  <2>2. CASE k \in 1..Len(b)
    <3>1. k - 1 \in T
      BY <1>9, <2>2
    <3>2. v[Len(a) + (k - 1)] = w[k - 1]
      BY <3>1, <2>2, <1>1
    <3>3. Len(a) + k \in 1..Len(a \o b) /\ (Len(a) + k) - 1 = Len(a) + (k - 1)
      BY <2>2, <1>1
    <3>4. v[Len(a) + k] = InspectByte(v[Len(a) + (k - 1)], b[k], max)
      BY <3>3, <2>2, <1>1, <1>4
    <3>5. v[Len(a) + k] = w[k]
      BY <3>2, <3>4, <2>2, <1>5
    <3> QED BY <3>5
  <2>3. CASE k > Len(b)
    BY <2>3, <1>1
  <2> QED BY <2>1, <2>2, <2>3, <1>1
<1>10. \A k \in Nat : k \in T
  <2> HIDE DEF T
  <2> QED BY <1>9, Induction
<1>11. v[Len(a) + Len(b)] = w[Len(b)]
  BY <1>1, <1>10
<1> QED BY <1>1, <1>3, <1>4, <1>5, <1>11

\* The walker on nothing, and on one byte more.
LEMMA InspectNext ==
  ASSUME NEW s \in LimitState, NEW a \in Bytes, NEW x \in Byte, NEW max \in Int
  PROVE  /\ inspect(s, <<>>, max) = s
         /\ inspect(s, Append(a, x), max) = InspectByte(inspect(s, a, max), x, max)
<1>1. <<>> \in Bytes /\ <<x>> \in Bytes /\ Len(<<x>>) = 1 /\ <<x>>[1] = x
      /\ Append(a, x) = a \o <<x>>
  BY DEF Bytes
<1>2. inspect(s, <<>>, max) = s
  BY <1>1, InspectIs
<1>3. inspect(s, a, max) \in LimitState
  BY <1>1, InspectInChunks
<1>4. \A t \in LimitState : inspect(t, <<x>>, max) = InspectByte(t, x, max)
  <2> TAKE t \in LimitState
  <2>1. PICK v \in [0..Len(<<x>>) -> LimitState] :
           /\ v[0] = t
           /\ \A k \in 1..Len(<<x>>) : v[k] = InspectByte(v[k - 1], <<x>>[k], max)
           /\ inspect(t, <<x>>, max) = v[Len(<<x>>)]
    BY ZenonT(60), <1>1, InspectIs
  <2>2. v[1] = InspectByte(v[0], <<x>>[1], max)
    BY <1>1, <2>1
  <2> QED BY <1>1, <2>1, <2>2
<1>5. inspect(s, a \o <<x>>, max) = inspect(inspect(s, a, max), <<x>>, max)
  BY <1>1, InspectInChunks
<1> QED BY <1>1, <1>2, <1>3, <1>4, <1>5

-----------------------------------------------------------------------------
(* Where the headers of a stream are                                       *)

\* Adding one place to those found before it.
Found(b, o, H) ==
  H \cup {q \in {o} : \E p \in H : p + HeaderLen <= Len(b) /\ q = p + HeaderLen + Declared(b, p)}

\* A length that has arrived is a number.
LEMMA DeclaredIsNat ==
  ASSUME NEW b \in Bytes, NEW p \in Nat, p + HeaderLen <= Len(b)
  PROVE  Declared(b, p) \in Nat
<1>1. HeaderLen \in Nat /\ HeaderLen >= 2
  BY FramingAssumption DEF HeaderLen
<1>2. SubSeq(b, p + 2, p + HeaderLen) \in Bytes
  BY <1>1 DEF Bytes
<1> QED BY <1>2, UintIsNat DEF Declared

\* A header starts where the stream does, and where the message of an earlier one ends.
LEMMA HeaderStartsIs ==
  ASSUME NEW b \in Bytes
  PROVE  /\ HeaderStarts(b) \subseteq 0..Len(b) /\ 0 \in HeaderStarts(b)
         /\ \A o \in 1..Len(b) :
              o \in HeaderStarts(b) <=>
                \E p \in HeaderStarts(b) :
                  p < o /\ p + HeaderLen <= Len(b) /\ o = p + HeaderLen + Declared(b, p)
<1> DEFINE v == CHOOSE v : v = [o \in 0..Len(b) |->
                   IF o = 0 THEN {0}
                   ELSE v[o - 1] \cup
                          {q \in {o} : \E p \in v[o - 1] :
                             p + HeaderLen <= Len(b) /\ q = p + HeaderLen + Declared(b, p)}]
           step == [o \in Nat |-> [H \in SUBSET Nat |-> Found(b, o, H)]]
<1>1. Len(b) \in Nat
  BY BytesAreNats
<1>2. step \in [Nat -> [SUBSET Nat -> SUBSET Nat]]
  BY DEF Found
<1>3. PICK f \in [0..Len(b) -> SUBSET Nat] :
         f[0] = {0} /\ \A k \in 1..Len(b) : f[k] = step[k][f[k - 1]]
  <2> HIDE DEF step
  <2>1. Defined(SUBSET Nat, {0}, step, Len(b))
    BY <1>1, <1>2, Recursion
  <2> QED BY <2>1 DEF Defined
<1>4. ASSUME NEW k \in 1..Len(b) PROVE f[k] = Found(b, k, f[k - 1])
  <2>1. k \in Nat /\ f[k - 1] \in SUBSET Nat
    BY <1>1
  <2> QED BY <1>3, <2>1
<1>5. f = [o \in 0..Len(b) |-> IF o = 0 THEN {0} ELSE Found(b, o, f[o - 1])]
  <2> HIDE DEF step
  <2>1. \A o \in 0..Len(b) : f[o] = IF o = 0 THEN {0} ELSE Found(b, o, f[o - 1])
    BY <1>1, <1>3, <1>4
  <2> QED BY <2>1
<1>6. v = [o \in 0..Len(b) |->
             IF o = 0 THEN {0}
             ELSE v[o - 1] \cup
                    {q \in {o} : \E p \in v[o - 1] :
                       p + HeaderLen <= Len(b) /\ q = p + HeaderLen + Declared(b, p)}]
  BY <1>5 DEF Found
<1>7. HeaderStarts(b) = v[Len(b)]
  BY DEF HeaderStarts
<1> HIDE DEF v
<1>8. v[0] = {0} /\ \A k \in 1..Len(b) : v[k] = Found(b, k, v[k - 1])
  BY SMTT(60), <1>1, <1>6 DEF Found
<1> DEFINE Step(p, o) == p + HeaderLen <= Len(b) /\ o = p + HeaderLen + Declared(b, p)
           Good(k) == /\ v[k] \subseteq 0..k /\ 0 \in v[k]
                      /\ \A o \in 1..k : o \in v[k] <=> \E p \in v[k] : p < o /\ Step(p, o)
           S == {k \in Nat : k <= Len(b) => Good(k)}
<1>9. ASSUME NEW k \in Nat, \A m \in 0..(k - 1) : m \in S
      PROVE  k \in S
  <2>1. CASE k = 0
    BY <2>1, <1>8
  <2>2. CASE k \in 1..Len(b)
    <3>1. Good(k - 1)
      BY <1>9, <2>2
    <3> HIDE DEF Step
    <3>2. \A q : q \in v[k] <=> (q \in v[k - 1] \/ (q = k /\ \E p \in v[k - 1] : Step(p, q)))
      BY <1>8, <2>2 DEF Found, Step
    <3>3. v[k] \subseteq 0..k /\ 0 \in v[k] /\ \A p \in v[k] : p < k <=> p \in v[k - 1]
      BY <3>1, <3>2, <2>2
    <3>4. ASSUME NEW o \in 1..k
          PROVE  o \in v[k] <=> \E p \in v[k] : p < o /\ Step(p, o)
      <4>1. CASE o = k
        <5>1. k \notin v[k - 1]
          BY <3>1, <2>2
        <5> QED BY <5>1, <4>1, <3>2, <3>3
      <4>2. CASE o # k
        <5>1. o \in 1..(k - 1)
          BY <4>2, <2>2
        <5>2. o \in v[k] <=> o \in v[k - 1]
          BY <4>2, <3>2
        <5>3. \A p : (p \in v[k] /\ p < o) <=> (p \in v[k - 1] /\ p < o)
          BY <3>2, <3>3, <5>1, <2>2
        <5> QED BY <5>1, <5>2, <5>3, <3>1
      <4> QED BY <4>1, <4>2
    <3>5. Good(k)
      BY <3>3, <3>4
    <3> QED BY <3>5
  <2>3. CASE k > Len(b)
    BY <2>3, <1>1
  <2> QED BY <2>1, <2>2, <2>3, <1>1
<1>10. \A k \in Nat : k \in S
  <2> HIDE DEF S
  <2> QED BY <1>9, Induction
<1>11. Good(Len(b))
  BY <1>1, <1>10
<1> QED BY <1>7, <1>11

\* Messages do not overlap: an earlier header's message is over where a later one starts.
LEMMA HeadersApart ==
  ASSUME NEW b \in Bytes, NEW p \in HeaderStarts(b), NEW o \in HeaderStarts(b), p < o
  PROVE  p + HeaderLen <= Len(b) /\ p + HeaderLen + Declared(b, p) <= o
<1> DEFINE H == HeaderStarts(b)
           Apart(x, y) == x + HeaderLen <= Len(b) /\ x + HeaderLen + Declared(b, x) <= y
           S == {n \in Nat : n \in H => \A q \in H : q < n => Apart(q, n)}
<1>1. /\ H \subseteq 0..Len(b)
      /\ \A n \in 1..Len(b) :
           n \in H <=> \E q \in H : q < n /\ q + HeaderLen <= Len(b) /\ n = q + HeaderLen + Declared(b, q)
  BY HeaderStartsIs
<1>2. Len(b) \in Nat /\ HeaderLen \in Nat
  BY BytesAreNats, FramingAssumption DEF HeaderLen
<1>3. \A q \in H : q + HeaderLen <= Len(b) => Declared(b, q) \in Nat
  BY <1>1, <1>2, DeclaredIsNat
<1> HIDE DEF H
<1>4. ASSUME NEW n \in Nat, \A m \in 0..(n - 1) : m \in S
      PROVE  n \in S
  <2> SUFFICES ASSUME n \in H, NEW q \in H, q < n PROVE Apart(q, n)
    OBVIOUS
  <2>1. n \in 1..Len(b) /\ q \in Nat
    BY <1>1, <1>2
  <2>2. PICK r \in H : r < n /\ r + HeaderLen <= Len(b) /\ n = r + HeaderLen + Declared(b, r)
    BY <1>1, <2>1
  <2>3. r \in Nat /\ Declared(b, r) \in Nat
    BY <1>1, <1>2, <1>3, <2>2
  <2>4. CASE q = r
    BY <2>2, <2>3, <2>4, <1>2
  <2>5. CASE q < r
    <3>1. r \in S
      BY <1>4, <2>2, <2>3, <2>1
    <3>2. Apart(q, r)
      BY <3>1, <2>5
    <3>3. Declared(b, q) \in Nat
      BY <3>2, <1>3
    <3> QED BY <3>2, <3>3, <2>1, <2>2, <2>3, <1>2
  <2>6. CASE q > r
    <3>1. q \in S
      BY <1>4, <2>1
    <3>2. Apart(r, q)
      BY <3>1, <2>6
    <3> QED BY <3>2, <2>1, <2>2, <2>3, <1>2
  <2> QED BY <2>1, <2>3, <2>4, <2>5, <2>6
<1>5. \A n \in Nat : n \in S
  <2> HIDE DEF S
  <2> QED BY <1>4, Induction
<1>6. o \in Nat
  BY <1>1, <1>2 DEF H
<1> QED BY <1>5, <1>6 DEF H

\* One byte more adds at most one place, where a message has just ended.
LEMMA HeaderStartsGrow ==
  ASSUME NEW a \in Bytes, NEW x \in Byte
  PROVE  LET b == Append(a, x) IN
         /\ b \in Bytes /\ Len(b) = Len(a) + 1
         /\ \A p \in Nat : p + HeaderLen <= Len(a) => Declared(b, p) = Declared(a, p)
         /\ \A o \in 0..Len(a) : o \in HeaderStarts(b) <=> o \in HeaderStarts(a)
         /\ Len(b) \in HeaderStarts(b) <=>
              \E p \in HeaderStarts(a) :
                p + HeaderLen <= Len(b) /\ Len(b) = p + HeaderLen + Declared(b, p)
<1> DEFINE b == Append(a, x)
           G == HeaderStarts(a)
           H == HeaderStarts(b)
           Before(q, n, c) == q < n /\ q + HeaderLen <= Len(c) /\ n = q + HeaderLen + Declared(c, q)
<1>1. b \in Bytes /\ Len(b) = Len(a) + 1 /\ Len(a) \in Nat
  BY DEF Bytes
<1>2. HeaderLen \in Nat /\ HeaderLen >= 2
  BY FramingAssumption DEF HeaderLen
<1>3. ASSUME NEW p \in Nat, p + HeaderLen <= Len(a)
      PROVE  Declared(b, p) = Declared(a, p)
  <2>1. SubSeq(b, p + 2, p + HeaderLen) = SubSeq(a, p + 2, p + HeaderLen)
    BY <1>2, <1>3 DEF Bytes
  <2> QED BY <2>1 DEF Declared
<1>4. /\ G \subseteq 0..Len(a) /\ 0 \in G
      /\ \A n \in 1..Len(a) : n \in G <=> \E q \in G : Before(q, n, a)
  BY HeaderStartsIs
<1>5. /\ H \subseteq 0..Len(b) /\ 0 \in H
      /\ \A n \in 1..Len(b) : n \in H <=> \E q \in H : Before(q, n, b)
  <2> HIDE DEF b
  <2> QED BY HeaderStartsIs, <1>1
<1>6. \A q \in Nat : q + HeaderLen <= Len(a) => Declared(a, q) \in Nat
  BY DeclaredIsNat
<1>7. \A q \in Nat : q + HeaderLen <= Len(b) => Declared(b, q) \in Nat
  <2> HIDE DEF b
  <2> QED BY DeclaredIsNat, <1>1
<1> HIDE DEF b, G, H
<1>8. ASSUME NEW q \in Nat, NEW n \in 1..Len(a)
      PROVE  Before(q, n, b) <=> Before(q, n, a)
  BY <1>1, <1>2, <1>3, <1>6, <1>7
<1> DEFINE S == {n \in Nat : n <= Len(a) => (n \in H <=> n \in G)}
<1>9. ASSUME NEW n \in Nat, \A m \in 0..(n - 1) : m \in S
      PROVE  n \in S
  <2>1. CASE n = 0
    BY <2>1, <1>4, <1>5
  <2>2. CASE n \in 1..Len(a)
    <3>1. n \in 1..Len(b)
      BY <2>2, <1>1
    <3>2. n \in H <=> \E q \in H : Before(q, n, b)
      BY <3>1, <1>5
    <3>3. n \in G <=> \E q \in G : Before(q, n, a)
      BY <2>2, <1>4
    <3>4. \A q : q \in H => q \in Nat
      BY <1>1, <1>5
    <3>5. \A q : q \in G => q \in Nat
      BY <1>1, <1>4
    <3>6. \A q \in Nat : q < n => (q \in H <=> q \in G)
      <4> TAKE q \in Nat
      <4> HAVE q < n
      <4>1. q \in S
        BY <1>9
      <4> QED BY <4>1, <2>2, <1>1
    <3>7. (\E q \in H : Before(q, n, b)) => (\E q \in G : Before(q, n, a))
      BY <3>4, <3>6, <1>8, <2>2
    <3>8. (\E q \in G : Before(q, n, a)) => (\E q \in H : Before(q, n, b))
      BY <3>5, <3>6, <1>8, <2>2
    <3> QED BY <3>2, <3>3, <3>7, <3>8
  <2>3. CASE n > Len(a)
    BY <2>3, <1>1
  <2> QED BY <2>1, <2>2, <2>3, <1>1
<1>10. \A n \in Nat : n \in S
  <2> HIDE DEF S
  <2> QED BY <1>9, Induction
<1>11. \A n \in 0..Len(a) : n \in H <=> n \in G
  BY <1>10, <1>1
<1>12. Len(b) \in H <=> \E p \in G : p + HeaderLen <= Len(b) /\ Len(b) = p + HeaderLen + Declared(b, p)
  <2>1. Len(b) \in H <=> \E q \in H : Before(q, Len(b), b)
    BY <1>1, <1>5
  <2>2. \A q \in H : q < Len(b) => q \in G
    <3>1. \A q \in H : q < Len(b) => q \in 0..Len(a)
      BY <1>1, <1>5
    <3> QED BY <3>1, <1>11
  <2>3. \A q \in G : q \in H /\ q < Len(b)
    BY <1>1, <1>4, <1>11
  <2> QED BY <2>1, <2>2, <2>3
<1> QED BY <1>1, <1>3, <1>11, <1>12 DEF b, G, H

-----------------------------------------------------------------------------
(* The size limit is exact                                                 *)

\* Where the walker is in what it has read: in the header that starts at o, or in
\* the message after it, o being the last place where a header starts.
InHeader(b, t, o) ==
  /\ t.header_seen < HeaderLen /\ o + t.header_seen = Len(b)
  /\ t.len_buf = SubSeq(b, o + 2, Len(b))
InMessage(b, t, o) ==
  /\ t.header_seen = HeaderLen /\ o + HeaderLen <= Len(b)
  /\ t.body_remaining > 0 /\ Len(b) + t.body_remaining = o + HeaderLen + Declared(b, o)
Placed(b, t) ==
  \E o \in HeaderStarts(b) :
    /\ \A p \in HeaderStarts(b) : p <= o
    /\ InHeader(b, t, o) \/ InMessage(b, t, o)
WalkInv(b, s, max) ==
  IF s.over THEN DeclaresOver(b, max)
  ELSE ~DeclaresOver(b, max) /\ Placed(b, NextHeader(s))

\* What DeclaresOver says after one byte more.
LEMMA DeclaresOverGrows ==
  ASSUME NEW a \in Bytes, NEW x \in Byte, NEW max \in Int
  PROVE  LET b == Append(a, x) IN
         DeclaresOver(b, max) <=>
           \/ DeclaresOver(a, max)
           \/ \E o \in HeaderStarts(a) : o + HeaderLen = Len(b) /\ Declared(b, o) > max
<1> DEFINE b == Append(a, x)
           G == HeaderStarts(a)
           H == HeaderStarts(b)
<1>1. /\ b \in Bytes /\ Len(b) = Len(a) + 1
      /\ \A p \in Nat : p + HeaderLen <= Len(a) => Declared(b, p) = Declared(a, p)
      /\ \A o \in 0..Len(a) : o \in H <=> o \in G
  BY HeaderStartsGrow
<1>2. G \subseteq 0..Len(a)
  BY HeaderStartsIs
<1>3. H \subseteq 0..Len(b)
  <2> HIDE DEF b
  <2> QED BY HeaderStartsIs, <1>1
<1>4. Len(a) \in Nat /\ HeaderLen \in Nat /\ HeaderLen >= 2
  BY BytesAreNats, FramingAssumption DEF HeaderLen
<1> HIDE DEF b
<1>5. ASSUME DeclaresOver(b, max)
      PROVE  \/ DeclaresOver(a, max)
             \/ \E o \in G : o + HeaderLen = Len(b) /\ Declared(b, o) > max
  <2>1. PICK o \in H : o + HeaderLen <= Len(b) /\ Declared(b, o) > max
    BY <1>5 DEF DeclaresOver
  <2> HIDE DEF G, H
  <2>2. o \in 0..Len(a) /\ o \in G
    BY <2>1, <1>1, <1>3, <1>4
  <2>3. CASE o + HeaderLen = Len(b)
    BY <2>1, <2>2, <2>3
  <2>4. CASE o + HeaderLen <= Len(a)
    <3>1. Declared(a, o) > max
      BY <2>1, <2>2, <2>4, <1>1
    <3> QED BY <3>1, <2>2, <2>4 DEF DeclaresOver, G
  <2>5. o + HeaderLen <= Len(a) \/ o + HeaderLen = Len(b)
    <3>1. Len(b) = Len(a) + 1 /\ o \in Nat
      BY <2>2, <1>1
    <3> QED BY <3>1, <2>1, <1>4
  <2> QED BY <2>3, <2>4, <2>5
<1>6. ASSUME DeclaresOver(a, max)
      PROVE  DeclaresOver(b, max)
  <2>1. PICK o \in G : o + HeaderLen <= Len(a) /\ Declared(a, o) > max
    BY <1>6 DEF DeclaresOver
  <2> HIDE DEF G, H
  <2>2. o \in H /\ o + HeaderLen <= Len(b) /\ Declared(b, o) > max
    BY <2>1, <1>1, <1>2, <1>4
  <2> QED BY <2>2 DEF DeclaresOver, H
<1>7. ASSUME NEW o \in G, o + HeaderLen = Len(b), Declared(b, o) > max
      PROVE  DeclaresOver(b, max)
  <2>1. o \in H /\ o + HeaderLen <= Len(b)
    <3> HIDE DEF G, H
    <3> QED BY <1>1, <1>2, <1>4, <1>7
  <2> QED BY <2>1, <1>7 DEF DeclaresOver
<1> QED BY <1>5, <1>6, <1>7 DEF b

\* The end of a sequence that has one element more.
LEMMA SubSeqOfAppend ==
  ASSUME NEW S, NEW a \in Seq(S), NEW x \in S, NEW i \in 1..(Len(a) + 1)
  PROVE  SubSeq(Append(a, x), i, Len(a) + 1) = Append(SubSeq(a, i, Len(a)), x)
<1> DEFINE l == SubSeq(Append(a, x), i, Len(a) + 1)
           r == Append(SubSeq(a, i, Len(a)), x)
<1>1. Len(a) \in Nat /\ Len(l) = Len(a) + 2 - i /\ Len(r) = Len(a) + 2 - i
  OBVIOUS
<1>2. l \in Seq(S) /\ r \in Seq(S)
  OBVIOUS
<1>3. ASSUME NEW k \in 1..(Len(a) + 2 - i) PROVE l[k] = r[k]
  OBVIOUS
<1> HIDE DEF l, r
<1>4. l = r
  BY <1>1, <1>2, <1>3, SeqEqual
<1> QED BY <1>4 DEF l, r

\* In a header: the byte is one more of it, or its last.
LEMMA HeaderByte ==
  ASSUME NEW a \in Bytes, NEW x \in Byte, NEW max \in Int, NEW t \in LimitState,
         ~DeclaresOver(a, max), ~t.over,
         NEW o \in HeaderStarts(a), \A p \in HeaderStarts(a) : p <= o, InHeader(a, t, o)
  PROVE  WalkInv(Append(a, x), InspectHeader(t, x, max), max)
<1> DEFINE b == Append(a, x)
           G == HeaderStarts(a)
           H == HeaderStarts(b)
           len == IF t.header_seen >= 1 THEN Append(t.len_buf, x) ELSE <<>>
           s == InspectHeader(t, x, max)
<1>1. /\ b \in Bytes /\ Len(b) = Len(a) + 1
      /\ \A p \in Nat : p + HeaderLen <= Len(a) => Declared(b, p) = Declared(a, p)
      /\ \A n \in 0..Len(a) : n \in H <=> n \in G
      /\ Len(b) \in H <=>
           \E p \in G : p + HeaderLen <= Len(b) /\ Len(b) = p + HeaderLen + Declared(b, p)
  BY HeaderStartsGrow
<1>2. G \subseteq 0..Len(a)
  BY HeaderStartsIs
<1>3. H \subseteq 0..Len(b)
  <2> HIDE DEF b
  <2> QED BY HeaderStartsIs, <1>1
<1>4. Len(a) \in Nat /\ HeaderLen \in Nat /\ HeaderLen >= 2
  BY BytesAreNats, FramingAssumption DEF HeaderLen
<1>5. o \in 0..Len(a) /\ t.header_seen \in Nat /\ Len(b) = o + t.header_seen + 1
  BY <1>1, <1>2, <1>4 DEF InHeader, LimitState
<1>6. len = SubSeq(b, o + 2, Len(b)) /\ len \in Bytes
  <2>1. t.len_buf = SubSeq(a, o + 2, Len(a)) /\ o + t.header_seen = Len(a)
    BY DEF InHeader
  <2>2. CASE t.header_seen = 0
    <3>1. SubSeq(b, o + 2, Len(b)) = <<>>
      BY <2>2, <1>1, <1>4, <1>5 DEF Bytes
    <3>2. len = <<>> /\ <<>> \in Bytes
      BY <2>2 DEF Bytes
    <3> QED BY <3>1, <3>2
  <2>3. CASE t.header_seen >= 1
    <3>1. SubSeq(b, o + 2, Len(b)) = Append(SubSeq(a, o + 2, Len(a)), x)
      <4>1. o + 2 \in 1..(Len(a) + 1) /\ Len(b) = Len(a) + 1
        BY <2>1, <2>3, <1>1, <1>4, <1>5
      <4>2. a \in Seq(Byte)
        BY DEF Bytes
      <4>3. SubSeq(Append(a, x), o + 2, Len(a) + 1) = Append(SubSeq(a, o + 2, Len(a)), x)
        BY <4>1, <4>2, SubSeqOfAppend
      <4> QED BY <4>1, <4>3
    <3>2. Append(SubSeq(a, o + 2, Len(a)), x) \in Bytes
      BY <1>4, <1>5 DEF Bytes
    <3>3. len = Append(t.len_buf, x)
      BY <2>3
    <3> QED BY <3>1, <3>2, <3>3, <2>1
  <2>4. t.header_seen = 0 \/ t.header_seen >= 1
    BY <1>5
  <2> QED BY <2>2, <2>3, <2>4
<1>7. /\ s.header_seen = t.header_seen + 1 /\ s.len_buf = len
      /\ s.body_remaining = IF s.header_seen = HeaderLen THEN uint(len) ELSE 0
      /\ s.over <=> (s.header_seen = HeaderLen /\ uint(len) > max)
  BY DEF InspectHeader
<1> HIDE DEF s, len
<1>8. \A p \in G : p # o => p + HeaderLen + Declared(a, p) <= o /\ p + HeaderLen <= Len(a)
  <2> TAKE p \in G
  <2> HAVE p # o
  <2>1. p < o
    BY <1>2, <1>5
  <2> QED BY <2>1, HeadersApart
<1>9. \A p \in G : p # o => p + HeaderLen < Len(b) /\ Len(b) # p + HeaderLen + Declared(b, p)
  <2> TAKE p \in G
  <2> HAVE p # o
  <2>1. p \in Nat /\ p + HeaderLen + Declared(a, p) <= o /\ p + HeaderLen <= Len(a)
    BY <1>2, <1>8
  <2>2. Declared(b, p) = Declared(a, p) /\ Declared(a, p) \in Nat
    BY <2>1, <1>1, DeclaredIsNat
  <2> QED BY <2>1, <2>2, <1>1, <1>4, <1>5
<1>10. DeclaresOver(b, max) <=> \E p \in G : p + HeaderLen = Len(b) /\ Declared(b, p) > max
  BY DeclaresOverGrows
<1>11. CASE t.header_seen + 1 < HeaderLen
  <2>1. ~s.over
    BY <1>5, <1>7, <1>11, <1>4
  <2>2. ~DeclaresOver(b, max) /\ Len(b) \notin H
    <3>1. \A p \in G : ~(p + HeaderLen <= Len(b) /\ (p + HeaderLen = Len(b) \/ Len(b) = p + HeaderLen + Declared(b, p)))
      BY <1>5, <1>9, <1>11, <1>4
    <3> HIDE DEF G, H, b
    <3> QED BY <3>1, <1>1, <1>10, <1>2, <1>4
  <2>3. NextHeader(s) = s
    BY <1>5, <1>7, <1>11, <1>4 DEF NextHeader
  <2>4. InHeader(b, s, o)
    BY <1>5, <1>6, <1>7, <1>11, <1>1, <1>4 DEF InHeader
  <2>5. o \in H /\ \A p \in H : p <= o
    <3> HIDE DEF G, H, b
    <3>1. \A p \in H : p \in G
      BY <2>2, <1>1, <1>3, <1>4
    <3> QED BY <3>1, <1>1, <1>5 DEF G
  <2>6. Placed(b, s)
    BY <2>4, <2>5 DEF Placed
  <2> QED BY <2>1, <2>2, <2>3, <2>6 DEF WalkInv, b, s
<1>12. CASE t.header_seen + 1 = HeaderLen
  <2>1. o + HeaderLen = Len(b) /\ uint(len) = Declared(b, o) /\ Declared(b, o) \in Nat
    <3>1. o + HeaderLen = Len(b)
      BY <1>5, <1>12, <1>4
    <3>2. uint(len) = Declared(b, o)
      BY <3>1, <1>6 DEF Declared
    <3> QED BY <3>1, <3>2, <1>6, UintIsNat
  <2>2. DeclaresOver(b, max) <=> Declared(b, o) > max
    <3> HIDE DEF H, b
    <3> QED BY <1>9, <1>10, <2>1, <1>2, <1>4
  <2>3. CASE s.over
    <3>1. DeclaresOver(b, max)
      BY <2>1, <2>2, <2>3, <1>7, <1>12
    <3> QED BY <3>1, <2>3 DEF WalkInv, b, s
  <2>4. CASE ~s.over
    <3>1. ~DeclaresOver(b, max)
      BY <2>1, <2>2, <2>4, <1>7, <1>12
    <3>2. s.body_remaining = Declared(b, o) /\ s.header_seen = HeaderLen
      BY <2>1, <1>7, <1>12
    <3>3. CASE Declared(b, o) = 0
      <4>1. NextHeader(s) = NoLimitYet
        BY <3>2, <3>3 DEF NextHeader
      <4>2. Len(b) \in H
        BY <1>1, <2>1, <3>3, <1>4
      <4>3. \A p \in H : p <= Len(b)
        BY <1>3, <1>1, <1>4
      <4>4. InHeader(b, NoLimitYet, Len(b))
        <5>1. SubSeq(b, Len(b) + 2, Len(b)) = <<>>
          BY <1>1 DEF Bytes
        <5> QED BY <5>1, <1>1, <1>4 DEF InHeader, NoLimitYet
      <4>5. Placed(b, NoLimitYet)
        BY <4>2, <4>3, <4>4 DEF Placed
      <4> QED BY <4>1, <4>5, <3>1, <2>4 DEF WalkInv, b, s
    <3>4. CASE Declared(b, o) # 0
      <4>1. NextHeader(s) = s
        BY <3>2, <3>4 DEF NextHeader
      <4>2. InMessage(b, s, o)
        BY <3>2, <3>4, <2>1, <1>1, <1>4, <1>5 DEF InMessage
      <4>3. Len(b) \notin H
        <5>1. Len(b) # o + HeaderLen + Declared(b, o)
          BY <2>1, <3>4, <1>5, <1>4
        <5> HIDE DEF H, b
        <5> QED BY <5>1, <1>1, <1>9
      <4>4. o \in H /\ \A p \in H : p <= o
        <5> HIDE DEF G, H, b
        <5>1. \A p \in H : p \in G
          BY <4>3, <1>1, <1>3, <1>4
        <5> QED BY <5>1, <1>1, <1>5 DEF G
      <4>5. Placed(b, s)
        BY <4>2, <4>4 DEF Placed
      <4> QED BY <4>1, <4>5, <3>1, <2>4 DEF WalkInv, b, s
    <3> QED BY <3>3, <3>4
  <2> QED BY <2>3, <2>4
<1>13. t.header_seen + 1 <= HeaderLen
  BY <1>4, <1>5 DEF InHeader
<1> QED BY <1>4, <1>5, <1>11, <1>12, <1>13

\* In a message: the byte is one more of it, or its last.
LEMMA MessageByte ==
  ASSUME NEW a \in Bytes, NEW x \in Byte, NEW max \in Int, NEW t \in LimitState,
         ~DeclaresOver(a, max), ~t.over,
         NEW o \in HeaderStarts(a), \A p \in HeaderStarts(a) : p <= o, InMessage(a, t, o)
  PROVE  WalkInv(Append(a, x), NextHeader([t EXCEPT !.body_remaining = @ - 1]), max)
<1> DEFINE b == Append(a, x)
           G == HeaderStarts(a)
           H == HeaderStarts(b)
           u == [t EXCEPT !.body_remaining = @ - 1]
           s == NextHeader(u)
<1>1. /\ b \in Bytes /\ Len(b) = Len(a) + 1
      /\ \A p \in Nat : p + HeaderLen <= Len(a) => Declared(b, p) = Declared(a, p)
      /\ \A n \in 0..Len(a) : n \in H <=> n \in G
      /\ Len(b) \in H <=>
           \E p \in G : p + HeaderLen <= Len(b) /\ Len(b) = p + HeaderLen + Declared(b, p)
  BY HeaderStartsGrow
<1>2. G \subseteq 0..Len(a)
  BY HeaderStartsIs
<1>3. H \subseteq 0..Len(b)
  <2> HIDE DEF b
  <2> QED BY HeaderStartsIs, <1>1
<1>4. Len(a) \in Nat /\ HeaderLen \in Nat /\ HeaderLen >= 2
  BY BytesAreNats, FramingAssumption DEF HeaderLen
<1>5. /\ o \in 0..Len(a) /\ o + HeaderLen <= Len(a) /\ t.body_remaining \in Nat
      /\ Declared(b, o) = Declared(a, o) /\ Declared(a, o) \in Nat
  <2>1. o \in 0..Len(a) /\ o + HeaderLen <= Len(a) /\ t.body_remaining \in Nat
    BY <1>2 DEF InMessage, LimitState
  <2> QED BY <2>1, <1>1, DeclaredIsNat
<1>6. /\ u.header_seen = HeaderLen /\ u.body_remaining = t.body_remaining - 1 /\ ~u.over
      /\ t.body_remaining > 0 /\ Len(a) + t.body_remaining = o + HeaderLen + Declared(a, o)
  BY DEF InMessage, LimitState
<1> HIDE DEF u
<1>7. \A p \in G : p # o => p + HeaderLen < Len(b) /\ Len(b) # p + HeaderLen + Declared(b, p)
  <2> TAKE p \in G
  <2> HAVE p # o
  <2>1. p < o /\ p \in Nat
    BY <1>2, <1>5
  <2>2. p + HeaderLen + Declared(a, p) <= o /\ p + HeaderLen <= Len(a)
    BY <2>1, HeadersApart
  <2>3. Declared(b, p) = Declared(a, p) /\ Declared(a, p) \in Nat
    BY <2>1, <2>2, <1>1, DeclaredIsNat
  <2> QED BY <2>1, <2>2, <2>3, <1>1, <1>4, <1>5
<1>8. ~DeclaresOver(b, max)
  <2>1. DeclaresOver(b, max) <=> \E p \in G : p + HeaderLen = Len(b) /\ Declared(b, p) > max
    BY DeclaresOverGrows
  <2>2. \A p \in G : p + HeaderLen # Len(b)
    <3>1. o + HeaderLen # Len(b)
      BY <1>1, <1>4, <1>5
    <3>2. \A p \in G : p # o => p + HeaderLen # Len(b)
      <4> TAKE p \in G
      <4> HAVE p # o
      <4>1. p + HeaderLen < Len(b) /\ p \in Nat /\ Len(b) \in Nat
        BY <1>1, <1>2, <1>4, <1>7
      <4> QED BY <4>1, <1>4
    <3> QED BY <3>1, <3>2
  <2> QED BY <2>1, <2>2
<1>9. CASE t.body_remaining = 1
  <2>1. s = NoLimitYet /\ NextHeader(s) = NoLimitYet /\ ~s.over
    BY <1>6, <1>9, <1>4 DEF NextHeader, NoLimitYet
  <2>2. Len(b) \in H
    BY <1>1, <1>4, <1>5, <1>6, <1>9
  <2>3. \A p \in H : p <= Len(b)
    BY <1>3, <1>1, <1>4
  <2>4. InHeader(b, NoLimitYet, Len(b))
    <3>1. SubSeq(b, Len(b) + 2, Len(b)) = <<>>
      BY <1>1 DEF Bytes
    <3> QED BY <3>1, <1>1, <1>4 DEF InHeader, NoLimitYet
  <2>5. Placed(b, NoLimitYet)
    BY <2>2, <2>3, <2>4 DEF Placed
  <2> HIDE DEF s
  <2>6. WalkInv(b, s, max)
    BY <2>1, <2>5, <1>8 DEF WalkInv
  <2> QED BY <2>6 DEF b, s, u
<1>10. CASE t.body_remaining > 1
  <2>1. s = u /\ NextHeader(s) = u /\ ~s.over
    BY <1>5, <1>6, <1>10 DEF NextHeader
  <2>2. InMessage(b, u, o)
    BY <1>1, <1>4, <1>5, <1>6, <1>10 DEF InMessage
  <2>3. Len(b) \notin H
    <3>1. Len(b) # o + HeaderLen + Declared(b, o)
      BY <1>1, <1>4, <1>5, <1>6, <1>10
    <3> HIDE DEF H, b
    <3> QED BY <3>1, <1>1, <1>7
  <2>4. o \in H /\ \A p \in H : p <= o
    <3> HIDE DEF G, H, b
    <3>1. \A p \in H : p \in G
      BY <2>3, <1>1, <1>3, <1>4
    <3> QED BY <3>1, <1>1, <1>5 DEF G
  <2>5. Placed(b, u)
    BY <2>2, <2>4 DEF Placed
  <2> HIDE DEF s
  <2>6. WalkInv(b, s, max)
    BY <2>1, <2>5, <1>8 DEF WalkInv
  <2> QED BY <2>6 DEF b, s, u
<1> QED BY <1>5, <1>6, <1>9, <1>10

\* One byte keeps the walker's account of what it has read.
LEMMA WalkStep ==
  ASSUME NEW a \in Bytes, NEW x \in Byte, NEW max \in Int, NEW s \in LimitState,
         WalkInv(a, s, max)
  PROVE  WalkInv(Append(a, x), InspectByte(s, x, max), max)
<1>1. CASE s.over
  <2>1. InspectByte(s, x, max) = s
    BY <1>1 DEF InspectByte
  <2>2. DeclaresOver(a, max)
    BY <1>1 DEF WalkInv
  <2>3. DeclaresOver(Append(a, x), max)
    BY <2>2, DeclaresOverGrows
  <2> QED BY <1>1, <2>1, <2>3 DEF WalkInv
<1>2. CASE ~s.over
  <2> DEFINE t == NextHeader(s)
  <2>1. t \in LimitState /\ ~t.over
    BY <1>2, FramingAssumption DEF NextHeader, NoLimitYet, LimitState, HeaderLen, Bytes
  <2>2. ~DeclaresOver(a, max) /\ Placed(a, t)
    BY <1>2 DEF WalkInv
  <2>3. InspectByte(s, x, max) =
          IF t.header_seen < HeaderLen THEN InspectHeader(t, x, max)
          ELSE NextHeader([t EXCEPT !.body_remaining = @ - 1])
    BY <1>2 DEF InspectByte
  <2> HIDE DEF t
  <2>4. PICK o \in HeaderStarts(a) :
          /\ \A p \in HeaderStarts(a) : p <= o
          /\ InHeader(a, t, o) \/ InMessage(a, t, o)
    BY <2>2 DEF Placed
  <2>5. CASE InHeader(a, t, o)
    <3>1. WalkInv(Append(a, x), InspectHeader(t, x, max), max)
      BY <2>1, <2>2, <2>4, <2>5, HeaderByte
    <3>2. t.header_seen < HeaderLen
      BY <2>5 DEF InHeader
    <3> QED BY <3>1, <3>2, <2>3
  <2>6. CASE InMessage(a, t, o)
    <3>1. WalkInv(Append(a, x), NextHeader([t EXCEPT !.body_remaining = @ - 1]), max)
      BY <2>1, <2>2, <2>4, <2>6, MessageByte
    <3>2. ~(t.header_seen < HeaderLen)
      BY <2>6, FramingAssumption DEF InMessage, HeaderLen
    <3> QED BY <3>1, <3>2, <2>3
  <2> QED BY <2>4, <2>5, <2>6
<1> QED BY <1>1, <1>2

\* The limit refuses a stream when, and only when, one of its headers declares more
\* than the maximum (h2ts.rs, GrpcSizeLimit::inspect): for every width of the length,
\* every maximum and every sequence of bytes.
THEOREM InspectIsExact ==
  ASSUME NEW b \in Bytes, NEW max \in Int
  PROVE  inspect(NoLimitYet, b, max).over <=> DeclaresOver(b, max)
<1>1. HeaderLen \in Nat /\ HeaderLen >= 2 /\ <<>> \in Bytes /\ Len(b) \in Nat
  BY BytesAreNats, FramingAssumption DEF HeaderLen, Bytes
<1>2. NoLimitYet \in LimitState
  BY <1>1 DEF NoLimitYet, LimitState
<1> DEFINE upTo(n) == SubSeq(b, 1, n)
           S == {n \in Nat : n <= Len(b) => WalkInv(upTo(n), inspect(NoLimitYet, upTo(n), max), max)}
<1>3. ASSUME NEW n \in Nat, \A m \in 0..(n - 1) : m \in S
      PROVE  n \in S
  <2>1. CASE n = 0
    <3>1. upTo(0) = <<>>
      BY DEF Bytes
    <3>2. inspect(NoLimitYet, <<>>, max) = NoLimitYet
      <4>1. 0 \in Byte
        BY DEF Byte
      <4> QED BY <4>1, <1>1, <1>2, InspectNext
    <3>3. HeaderStarts(<<>>) = {0}
      BY <1>1, HeaderStartsIs
    <3>4. ~DeclaresOver(<<>>, max)
      BY <3>3, <1>1 DEF DeclaresOver
    <3>5. NextHeader(NoLimitYet) = NoLimitYet /\ ~NoLimitYet.over
      BY <1>1 DEF NextHeader, NoLimitYet
    <3>6. InHeader(<<>>, NoLimitYet, 0)
      BY <1>1 DEF InHeader, NoLimitYet
    <3>7. WalkInv(<<>>, NoLimitYet, max)
      BY <3>3, <3>4, <3>5, <3>6 DEF WalkInv, Placed
    <3> QED BY <2>1, <3>1, <3>2, <3>7
  <2>2. CASE n \in 1..Len(b)
    <3>1. n - 1 \in S
      BY <1>3, <2>2
    <3>2. upTo(n - 1) \in Bytes /\ b[n] \in Byte
      BY <2>2, <1>1, BytesAreNats DEF Bytes
    <3>3. upTo(n) = Append(upTo(n - 1), b[n])
      BY <2>2, <1>1, SubSeqRecursiveSecond DEF Bytes
    <3> HIDE DEF upTo
    <3>4. inspect(NoLimitYet, upTo(n - 1), max) \in LimitState
      BY <3>2, <1>1, <1>2, InspectInChunks
    <3>5. WalkInv(upTo(n - 1), inspect(NoLimitYet, upTo(n - 1), max), max)
      BY <3>1, <2>2, <1>1
    <3>6. inspect(NoLimitYet, upTo(n), max) =
            InspectByte(inspect(NoLimitYet, upTo(n - 1), max), b[n], max)
      BY <3>2, <3>3, <1>2, InspectNext
    <3>7. WalkInv(upTo(n), inspect(NoLimitYet, upTo(n), max), max)
      BY <3>2, <3>3, <3>4, <3>5, <3>6, WalkStep
    <3> QED BY <3>7
  <2>3. CASE n > Len(b)
    BY <2>3, <1>1
  <2> QED BY <2>1, <2>2, <2>3, <1>1
<1>4. \A n \in Nat : n \in S
  <2> HIDE DEF S
  <2> QED BY <1>3, Induction
<1>5. upTo(Len(b)) = b
  BY DEF Bytes
<1>6. WalkInv(b, inspect(NoLimitYet, b, max), max)
  <2> HIDE DEF upTo
  <2>1. WalkInv(upTo(Len(b)), inspect(NoLimitYet, upTo(Len(b)), max), max)
    BY <1>1, <1>4
  <2> QED BY <2>1, <1>5
<1> QED BY <1>6 DEF WalkInv

-----------------------------------------------------------------------------
(* Parsing messages                                                        *)

\* A complete message starts after the first o bytes of b, and where it ends.
Complete(b, o) == ~(Len(b) - o < HeaderLen \/ Len(b) - o - HeaderLen < Declared(b, o))
Ends(b, o) == o + HeaderLen + Declared(b, o)
MessageAt(b, o) == SubSeq(b, o + HeaderLen + 1, Ends(b, o))

\* What is parsed from o on, given what is parsed from later places on.
ParsedFrom(b, o, f) ==
  IF ~Complete(b, o) THEN [messages |-> <<>>, used |-> o]
  ELSE [messages |-> <<MessageAt(b, o)>> \o f[Ends(b, o)].messages,
        used |-> f[Ends(b, o)].used]
Parsed == [messages : Seq(Bytes), used : Nat]
ParserOver(b, n, f) ==
  /\ f \in [n..Len(b) -> Parsed]
  /\ \A o \in n..Len(b) : f[o] = ParsedFrom(b, o, f) /\ f[o].used \in o..Len(b)

\* A complete message is made of bytes and ends within b.
LEMMA MessageInside ==
  ASSUME NEW b \in Bytes, NEW o \in 0..Len(b), Complete(b, o)
  PROVE  /\ Ends(b, o) \in (o + 1)..Len(b) /\ Declared(b, o) \in Nat
         /\ o + HeaderLen <= Len(b) /\ MessageAt(b, o) \in Bytes
<1>1. Len(b) \in Nat /\ o \in Nat /\ HeaderLen \in Nat /\ HeaderLen >= 2
  BY BytesAreNats, FramingAssumption DEF HeaderLen
<1>2. o + HeaderLen <= Len(b)
  BY <1>1 DEF Complete
<1>3. Declared(b, o) \in Nat
  BY <1>1, <1>2, DeclaredIsNat
<1>4. Ends(b, o) \in (o + 1)..Len(b)
  BY <1>1, <1>2, <1>3 DEF Complete, Ends
<1>5. MessageAt(b, o) \in Bytes
  BY <1>1, <1>4 DEF MessageAt, Bytes
<1> QED BY <1>2, <1>3, <1>4, <1>5

\* The recursive function that deframe reads exists.
LEMMA ParserExists ==
  ASSUME NEW b \in Bytes
  PROVE  \E f : ParserOver(b, 0, f)
<1>1. Len(b) \in Nat /\ HeaderLen \in Nat /\ HeaderLen >= 2
  BY BytesAreNats, FramingAssumption DEF HeaderLen
<1> DEFINE S == {d \in Nat : d <= Len(b) => \E f : ParserOver(b, Len(b) - d, f)}
<1>2. ASSUME NEW d \in Nat, \A m \in 0..(d - 1) : m \in S
      PROVE  d \in S
  <2> DEFINE o == Len(b) - d
  <2>1. CASE d = 0
    <3> DEFINE f == [k \in Len(b)..Len(b) |-> [messages |-> <<>>, used |-> Len(b)]]
    <3>1. ~Complete(b, Len(b))
      BY <1>1 DEF Complete
    <3>2. <<>> \in Seq(Bytes)
      OBVIOUS
    <3>3. ParserOver(b, Len(b), f)
      BY <1>1, <3>1, <3>2 DEF ParserOver, ParsedFrom, Parsed
    <3> QED BY <2>1, <3>3, <1>1
  <2>2. CASE d \in 1..Len(b)
    <3>1. o \in 0..(Len(b) - 1)
      BY <2>2, <1>1
    <3>2. PICK f : ParserOver(b, o + 1, f)
      <4>1. d - 1 \in S /\ d - 1 <= Len(b)
        BY <1>2, <2>2, <1>1
      <4>2. Len(b) - (d - 1) = o + 1
        BY <2>2, <1>1
      <4> QED BY <4>1, <4>2
    <3> DEFINE r == ParsedFrom(b, o, f)
               g == [k \in o..Len(b) |-> IF k = o THEN r ELSE f[k]]
    <3> HIDE DEF o
    <3>3. r \in Parsed /\ r.used \in o..Len(b)
      <4>1. CASE ~Complete(b, o)
        BY <4>1, <3>1, <1>1 DEF ParsedFrom, Parsed
      <4>2. CASE Complete(b, o)
        <5>1. Ends(b, o) \in (o + 1)..Len(b) /\ MessageAt(b, o) \in Bytes
          BY <4>2, <3>1, <1>1, MessageInside
        <5>2. f[Ends(b, o)] \in Parsed /\ f[Ends(b, o)].used \in Ends(b, o)..Len(b)
          BY <5>1, <3>2 DEF ParserOver
        <5>3. <<MessageAt(b, o)>> \o f[Ends(b, o)].messages \in Seq(Bytes)
          BY <5>1, <5>2 DEF Parsed
        <5>4. r = [messages |-> <<MessageAt(b, o)>> \o f[Ends(b, o)].messages,
                   used |-> f[Ends(b, o)].used]
          BY <4>2 DEF ParsedFrom
        <5> QED BY <5>1, <5>2, <5>3, <5>4, <3>1, <1>1 DEF Parsed
      <4> QED BY <4>1, <4>2
    <3> HIDE DEF r
    <3>4. \A k \in (o + 1)..Len(b) : f[k] \in Parsed
      BY <3>2 DEF ParserOver
    <3>5. g \in [o..Len(b) -> Parsed]
      BY <3>1, <3>3, <3>4, <1>1
    <3>6. ASSUME NEW k \in o..Len(b)
          PROVE  g[k] = ParsedFrom(b, k, g) /\ g[k].used \in k..Len(b)
      <4>1. k \in 0..Len(b)
        BY <3>1, <1>1
      <4>2. Complete(b, k) => Ends(b, k) \in (k + 1)..Len(b)
        BY <4>1, MessageInside
      <4>3. Complete(b, k) => g[Ends(b, k)] = f[Ends(b, k)]
        BY <4>2, <3>1, <1>1
      <4>4. ParsedFrom(b, k, g) = ParsedFrom(b, k, f)
        BY <4>3 DEF ParsedFrom
      <4>5. CASE k = o
        BY <4>4, <4>5, <3>3 DEF r
      <4>6. CASE k # o
        <5>1. k \in (o + 1)..Len(b) /\ g[k] = f[k]
          BY <4>6, <3>1, <1>1
        <5> QED BY <5>1, <4>4, <3>2 DEF ParserOver
      <4> QED BY <4>5, <4>6
    <3>7. ParserOver(b, o, g)
      BY <3>5, <3>6 DEF ParserOver
    <3> QED BY <3>7 DEF o
  <2>3. CASE d > Len(b)
    BY <2>3, <1>1
  <2> QED BY <2>1, <2>2, <2>3, <1>1
<1>3. \A d \in Nat : d \in S
  <2> HIDE DEF S
  <2> QED BY <1>2, Induction
<1>4. \E f : ParserOver(b, Len(b) - Len(b), f)
  BY <1>1, <1>3
<1> QED BY <1>1, <1>4

\* deframe in terms of its recursive function, which is known by its equations.
LEMMA DeframeIs ==
  ASSUME NEW b \in Bytes
  PROVE  \E f : ParserOver(b, 0, f) /\ deframe(b) = f[0]
<1> DEFINE v == CHOOSE v : v = [o \in 0..Len(b) |->
                  IF Len(b) - o < HeaderLen \/ Len(b) - o - HeaderLen < Declared(b, o)
                  THEN [messages |-> <<>>, used |-> o]
                  ELSE LET next == o + HeaderLen + Declared(b, o) IN
                       [messages |-> <<SubSeq(b, o + HeaderLen + 1, next)>> \o v[next].messages,
                        used |-> v[next].used]]
<1>1. Len(b) \in Nat
  BY BytesAreNats
<1>2. PICK f : ParserOver(b, 0, f)
  BY ParserExists
<1>3. f = [o \in 0..Len(b) |->
             IF Len(b) - o < HeaderLen \/ Len(b) - o - HeaderLen < Declared(b, o)
             THEN [messages |-> <<>>, used |-> o]
             ELSE LET next == o + HeaderLen + Declared(b, o) IN
                  [messages |-> <<SubSeq(b, o + HeaderLen + 1, next)>> \o f[next].messages,
                   used |-> f[next].used]]
  <2>1. f = [o \in 0..Len(b) |-> ParsedFrom(b, o, f)]
    BY <1>2 DEF ParserOver
  <2> QED BY <2>1 DEF ParsedFrom, Complete, Ends, MessageAt
<1>4. v = [o \in 0..Len(b) |->
             IF Len(b) - o < HeaderLen \/ Len(b) - o - HeaderLen < Declared(b, o)
             THEN [messages |-> <<>>, used |-> o]
             ELSE LET next == o + HeaderLen + Declared(b, o) IN
                  [messages |-> <<SubSeq(b, o + HeaderLen + 1, next)>> \o v[next].messages,
                   used |-> v[next].used]]
  BY <1>3
<1>5. deframe(b) = v[0]
  BY DEF deframe
<1> HIDE DEF v
<1>6. v = [o \in 0..Len(b) |-> ParsedFrom(b, o, v)]
  BY <1>4 DEF ParsedFrom, Complete, Ends, MessageAt
<1> DEFINE S == {d \in Nat : d <= Len(b) => v[Len(b) - d] = f[Len(b) - d]}
<1>7. ASSUME NEW d \in Nat, \A m \in 0..(d - 1) : m \in S
      PROVE  d \in S
  <2> DEFINE o == Len(b) - d
  <2> SUFFICES ASSUME d <= Len(b) PROVE v[o] = f[o]
    OBVIOUS
  <2>1. o \in 0..Len(b)
    BY <1>1
  <2>2. v[o] = ParsedFrom(b, o, v) /\ f[o] = ParsedFrom(b, o, f)
    BY <2>1, <1>2, <1>6 DEF ParserOver
  <2>3. CASE Complete(b, o)
    <3>1. Ends(b, o) \in (o + 1)..Len(b)
      BY <2>1, <2>3, MessageInside
    <3>2. Len(b) - Ends(b, o) \in 0..(d - 1) /\ Len(b) - (Len(b) - Ends(b, o)) = Ends(b, o)
      BY <3>1, <2>1, <1>1
    <3>3. v[Ends(b, o)] = f[Ends(b, o)]
      <4>1. Len(b) - Ends(b, o) \in S /\ Len(b) - Ends(b, o) <= Len(b)
        BY <3>2, <1>7, <1>1
      <4> QED BY <4>1, <3>2
    <3> QED BY <3>3, <2>2, <2>3 DEF ParsedFrom
  <2>4. CASE ~Complete(b, o)
    BY <2>2, <2>4 DEF ParsedFrom
  <2> QED BY <2>3, <2>4
<1>8. \A d \in Nat : d \in S
  <2> HIDE DEF S
  <2> QED BY <1>7, Induction
<1>9. v[Len(b) - Len(b)] = f[Len(b) - Len(b)]
  BY <1>1, <1>8
<1> QED BY <1>1, <1>2, <1>5, <1>9

\* What deframe returns.
LEMMA DeframeType ==
  ASSUME NEW b \in Bytes
  PROVE  /\ deframe(b).messages \in Seq(Bytes) /\ deframe_all(b) \in Seq(Bytes)
         /\ deframe(b).used \in 0..Len(b)
<1>1. Len(b) \in Nat
  BY BytesAreNats
<1>2. PICK f : ParserOver(b, 0, f) /\ deframe(b) = f[0]
  BY DeframeIs
<1>3. f[0] \in Parsed /\ f[0].used \in 0..Len(b)
  BY <1>1, <1>2 DEF ParserOver
<1> QED BY <1>2, <1>3 DEF Parsed, deframe_all

\* A parser of b from u on does what a parser of s does, u bytes later; a parser of
\* more than a does what a parser of a does, and goes on where it stops.
Shifted(f, h, s, u) ==
  \A o \in 0..Len(s) : f[u + o].messages = h[o].messages /\ f[u + o].used = u + h[o].used
Continued(f, g, a) ==
  \A o \in 0..Len(a) : /\ f[o].messages = g[o].messages \o f[g[o].used].messages
                       /\ f[o].used = f[g[o].used].used

\* The parser at a place does not see what came before it.
LEMMA ParserSeesWhatIsAfter ==
  ASSUME NEW b \in Bytes, NEW u \in 0..Len(b), NEW f, ParserOver(b, 0, f),
         NEW s \in Bytes, s = SubSeq(b, u + 1, Len(b)), NEW h, ParserOver(s, 0, h)
  PROVE  Shifted(f, h, s, u)
<1>1. Len(b) \in Nat /\ u \in Nat /\ HeaderLen \in Nat /\ HeaderLen >= 2
  BY BytesAreNats, FramingAssumption DEF HeaderLen
<1>2. Len(s) = Len(b) - u /\ Len(s) \in Nat
  BY <1>1 DEF Bytes
<1>3. ASSUME NEW i \in Nat \ {0}, NEW j \in Nat, i <= j + 1, j <= Len(s)
      PROVE  SubSeq(s, i, j) = SubSeq(b, u + i, u + j)
  <2>1. SubSeq(SubSeq(b, u + 1, Len(b)), i, j) = SubSeq(b, (u + 1) + i - 1, (u + 1) + j - 1)
    <3>1. b \in Seq(Byte) /\ u + 1 \in 1..(Len(b) + 1) /\ Len(b) \in u..Len(b)
      BY <1>1 DEF Bytes
    <3>2. Len(SubSeq(b, u + 1, Len(b))) = Len(s)
      OBVIOUS
    <3> QED BY <3>1, <1>1, <1>2, <1>3 DEF Bytes
  <2>2. (u + 1) + i - 1 = u + i /\ (u + 1) + j - 1 = u + j
    BY <1>1
  <2> QED BY <2>1, <2>2
<1>4. ASSUME NEW o \in 0..Len(s)
      PROVE  /\ u + o \in 0..Len(b)
             /\ Complete(s, o) <=> Complete(b, u + o)
             /\ Complete(s, o) =>
                  Ends(b, u + o) = u + Ends(s, o) /\ MessageAt(b, u + o) = MessageAt(s, o)
  <2>1. u + o \in 0..Len(b) /\ Len(b) - (u + o) = Len(s) - o
    BY <1>1, <1>2
  <2>2. CASE o + HeaderLen > Len(s)
    <3>1. ~Complete(s, o) /\ ~Complete(b, u + o)
      BY <2>1, <2>2, <1>1, <1>2 DEF Complete
    <3> QED BY <3>1, <2>1
  <2>3. CASE o + HeaderLen <= Len(s)
    <3>1. SubSeq(s, o + 2, o + HeaderLen) = SubSeq(b, u + (o + 2), u + (o + HeaderLen))
      BY <2>3, <1>1, <1>2, <1>3
    <3>2. u + (o + 2) = (u + o) + 2 /\ u + (o + HeaderLen) = (u + o) + HeaderLen
      BY <1>1
    <3>3. Declared(s, o) = Declared(b, u + o)
      BY <3>1, <3>2 DEF Declared
    <3>4. Complete(s, o) <=> Complete(b, u + o)
      BY <3>3, <2>1 DEF Complete
    <3>5. ASSUME Complete(s, o)
          PROVE  Ends(b, u + o) = u + Ends(s, o) /\ MessageAt(b, u + o) = MessageAt(s, o)
      <4>1. Declared(s, o) \in Nat /\ Ends(s, o) \in (o + 1)..Len(s)
        BY <3>5, MessageInside
      <4>2. Ends(b, u + o) = u + Ends(s, o)
        BY <4>1, <3>3, <1>1 DEF Ends
      <4>3. SubSeq(s, o + HeaderLen + 1, Ends(s, o)) =
              SubSeq(b, u + (o + HeaderLen + 1), u + Ends(s, o))
        <5>1. o + HeaderLen + 1 \in Nat \ {0} /\ Ends(s, o) \in Nat /\ Ends(s, o) <= Len(s)
          BY <4>1, <1>1, <1>2
        <5>2. o + HeaderLen + 1 <= Ends(s, o) + 1
          BY <4>1, <1>1 DEF Ends
        <5> QED BY <5>1, <5>2, <1>3
      <4>4. u + (o + HeaderLen + 1) = (u + o) + HeaderLen + 1
        BY <1>1
      <4> QED BY <4>2, <4>3, <4>4 DEF MessageAt
    <3> QED BY <3>4, <3>5, <2>1
  <2> QED BY <2>2, <2>3, <1>1, <1>2
<1> DEFINE Same(o) == f[u + o].messages = h[o].messages /\ f[u + o].used = u + h[o].used
           S == {d \in Nat : d <= Len(s) => Same(Len(s) - d)}
<1>5. ASSUME NEW d \in Nat, \A m \in 0..(d - 1) : m \in S
      PROVE  d \in S
  <2> DEFINE o == Len(s) - d
  <2> SUFFICES ASSUME d <= Len(s) PROVE Same(o)
    OBVIOUS
  <2>1. o \in 0..Len(s)
    BY <1>2
  <2> HIDE DEF o
  <2>2. f[u + o] = ParsedFrom(b, u + o, f) /\ h[o] = ParsedFrom(s, o, h)
    BY <2>1, <1>4 DEF ParserOver
  <2>3. CASE Complete(s, o)
    <3>1. Ends(s, o) \in (o + 1)..Len(s)
      BY <2>1, <2>3, MessageInside
    <3>2. Same(Ends(s, o))
      <4>1. Len(s) - Ends(s, o) \in 0..(d - 1) /\ Len(s) - Ends(s, o) <= Len(s)
        BY <3>1, <2>1, <1>2 DEF o
      <4>2. Len(s) - (Len(s) - Ends(s, o)) = Ends(s, o)
        BY <3>1, <2>1, <1>2
      <4>3. Same(Len(s) - (Len(s) - Ends(s, o)))
        BY <4>1, <1>5
      <4> QED BY <4>2, <4>3
    <3>3. Complete(b, u + o) /\ Ends(b, u + o) = u + Ends(s, o) /\ MessageAt(b, u + o) = MessageAt(s, o)
      BY <2>1, <2>3, <1>4
    <3>4. /\ f[u + o].messages = <<MessageAt(s, o)>> \o f[u + Ends(s, o)].messages
          /\ f[u + o].used = f[u + Ends(s, o)].used
      <4> HIDE DEF Same
      <4> QED BY <3>3, <2>2 DEF ParsedFrom
    <3>5. /\ h[o].messages = <<MessageAt(s, o)>> \o h[Ends(s, o)].messages
          /\ h[o].used = h[Ends(s, o)].used
      <4> HIDE DEF Same, S
      <4>1. h[o] = ParsedFrom(s, o, h)
        BY <2>2
      <4> QED BY SMTT(60), <4>1, <2>3 DEF ParsedFrom
    <3> QED BY <3>2, <3>4, <3>5
  <2>4. CASE ~Complete(s, o)
    <3>1. ~Complete(b, u + o)
      BY <2>1, <2>4, <1>4
    <3> QED BY <3>1, <2>2, <2>4 DEF ParsedFrom
  <2> QED BY <2>3, <2>4
<1>6. \A d \in Nat : d \in S
  <2> HIDE DEF S
  <2> QED BY <1>5, Induction
<1>7. ASSUME NEW o \in 0..Len(s) PROVE Same(o)
  <2>1. Len(s) - o \in Nat /\ Len(s) - o <= Len(s) /\ Len(s) - (Len(s) - o) = o
    BY <1>2
  <2>2. Same(Len(s) - (Len(s) - o))
    BY <2>1, <1>6
  <2> QED BY <2>1, <2>2
<1> QED BY <1>7 DEF Shifted

\* What is parsed of a beginning stays parsed, whatever follows it.
LEMMA ParserGoesOn ==
  ASSUME NEW a \in Bytes, NEW c \in Bytes, NEW g, ParserOver(a, 0, g),
         NEW f, ParserOver(a \o c, 0, f)
  PROVE  Continued(f, g, a)
<1> DEFINE b == a \o c
           Goes(o) == /\ f[o].messages = g[o].messages \o f[g[o].used].messages
                      /\ f[o].used = f[g[o].used].used
           S == {d \in Nat : d <= Len(a) => Goes(Len(a) - d)}
<1>1. Len(a) \in Nat /\ HeaderLen \in Nat /\ HeaderLen >= 2
  BY BytesAreNats, FramingAssumption DEF HeaderLen
<1>2. b \in Bytes /\ Len(b) = Len(a) + Len(c) /\ Len(c) \in Nat
  BY DEF Bytes
<1>3. ASSUME NEW i \in Nat \ {0}, NEW j \in Nat, j <= Len(a)
      PROVE  SubSeq(b, i, j) = SubSeq(a, i, j)
  BY <1>1, <1>3 DEF Bytes
<1> HIDE DEF b
<1>4. ASSUME NEW o \in 0..Len(a), Complete(a, o)
      PROVE  Complete(b, o) /\ Ends(b, o) = Ends(a, o) /\ MessageAt(b, o) = MessageAt(a, o)
  <2>1. /\ Ends(a, o) \in (o + 1)..Len(a) /\ Declared(a, o) \in Nat
        /\ o + HeaderLen <= Len(a)
    BY <1>4, MessageInside
  <2>2. Declared(b, o) = Declared(a, o)
    <3>1. SubSeq(b, o + 2, o + HeaderLen) = SubSeq(a, o + 2, o + HeaderLen)
      BY <2>1, <1>1, <1>3
    <3> QED BY <3>1 DEF Declared
  <2>3. Ends(b, o) = Ends(a, o)
    BY <2>2 DEF Ends
  <2>4. Complete(b, o)
    BY <2>1, <2>2, <1>1, <1>2 DEF Complete, Ends
  <2>5. MessageAt(b, o) = MessageAt(a, o)
    <3>1. o + HeaderLen + 1 \in Nat \ {0} /\ Ends(a, o) \in Nat /\ Ends(a, o) <= Len(a)
      BY <2>1, <1>1
    <3>2. SubSeq(b, o + HeaderLen + 1, Ends(a, o)) = SubSeq(a, o + HeaderLen + 1, Ends(a, o))
      BY <3>1, <1>3
    <3> QED BY <3>2, <2>3 DEF MessageAt
  <2> QED BY <2>3, <2>4, <2>5
<1>5. ASSUME NEW d \in Nat, \A m \in 0..(d - 1) : m \in S
      PROVE  d \in S
  <2> DEFINE o == Len(a) - d
  <2> SUFFICES ASSUME d <= Len(a) PROVE Goes(o)
    OBVIOUS
  <2>1. o \in 0..Len(a) /\ o \in 0..Len(b)
    BY <1>1, <1>2
  <2> HIDE DEF o
  <2>2. f[o] = ParsedFrom(b, o, f) /\ g[o] = ParsedFrom(a, o, g) /\ f[o] \in Parsed
    BY <2>1 DEF ParserOver, b
  <2>3. CASE Complete(a, o)
    <3>1. Ends(a, o) \in (o + 1)..Len(a) /\ MessageAt(a, o) \in Bytes
      BY <2>1, <2>3, MessageInside
    <3>2. Goes(Ends(a, o))
      <4>1. Len(a) - Ends(a, o) \in 0..(d - 1) /\ Len(a) - Ends(a, o) <= Len(a)
        BY <3>1, <2>1, <1>1 DEF o
      <4>2. Len(a) - (Len(a) - Ends(a, o)) = Ends(a, o)
        BY <3>1, <2>1, <1>1
      <4>3. Goes(Len(a) - (Len(a) - Ends(a, o)))
        BY <4>1, <1>5
      <4> QED BY <4>2, <4>3
    <3>3. /\ f[o].messages = <<MessageAt(a, o)>> \o f[Ends(a, o)].messages
          /\ f[o].used = f[Ends(a, o)].used
      <4> HIDE DEF Goes
      <4> QED BY <2>1, <2>2, <2>3, <1>4 DEF ParsedFrom
    <3>4. /\ g[o].messages = <<MessageAt(a, o)>> \o g[Ends(a, o)].messages
          /\ g[o].used = g[Ends(a, o)].used
      <4> HIDE DEF Goes
      <4> QED BY <2>2, <2>3 DEF ParsedFrom
    <3>5. /\ g[Ends(a, o)].messages \in Seq(Bytes)
          /\ f[g[Ends(a, o)].used].messages \in Seq(Bytes)
      <4>1. Ends(a, o) \in 0..Len(a)
        BY <3>1, <2>1, <1>1
      <4>2. g[Ends(a, o)] \in Parsed /\ g[Ends(a, o)].used \in Ends(a, o)..Len(a)
        BY <4>1 DEF ParserOver
      <4>3. g[Ends(a, o)].used \in 0..Len(b)
        BY <4>1, <4>2, <1>1, <1>2
      <4>4. f[g[Ends(a, o)].used] \in Parsed
        BY <4>3 DEF ParserOver, b
      <4> QED BY <4>2, <4>4 DEF Parsed
    <3>6. (<<MessageAt(a, o)>> \o g[Ends(a, o)].messages) \o f[g[Ends(a, o)].used].messages =
            <<MessageAt(a, o)>> \o (g[Ends(a, o)].messages \o f[g[Ends(a, o)].used].messages)
      <4> DEFINE x == <<MessageAt(a, o)>>
                 y == g[Ends(a, o)].messages
                 z == f[g[Ends(a, o)].used].messages
      <4>1. x \in Seq(Bytes) /\ y \in Seq(Bytes) /\ z \in Seq(Bytes)
        BY <3>1, <3>5
      <4> HIDE DEF x, y, z, Goes
      <4>2. (x \o y) \o z = x \o (y \o z)
        BY <4>1, ConcatAssociative
      <4> QED BY <4>2 DEF x, y, z
    <3> QED BY <3>2, <3>3, <3>4, <3>6
  <2>4. CASE ~Complete(a, o)
    <3>1. g[o].messages = <<>> /\ g[o].used = o
      BY <2>2, <2>4 DEF ParsedFrom
    <3>2. f[o].messages \in Seq(Bytes)
      BY <2>2 DEF Parsed
    <3> QED BY <3>1, <3>2
  <2> QED BY <2>3, <2>4
<1>6. \A d \in Nat : d \in S
  <2> HIDE DEF S
  <2> QED BY <1>5, Induction
<1>7. ASSUME NEW o \in 0..Len(a) PROVE Goes(o)
  <2>1. Len(a) - o \in Nat /\ Len(a) - o <= Len(a) /\ Len(a) - (Len(a) - o) = o
    BY <1>1
  <2>2. Goes(Len(a) - (Len(a) - o))
    BY <2>1, <1>6
  <2> QED BY <2>1, <2>2
<1> QED BY <1>7 DEF Continued

\* What is left of b after its first u bytes, and what a parser has not used of b.
After(b, u) == SubSeq(b, u + 1, Len(b))
Unused(b) == After(b, deframe(b).used)

\* The elements of two sequences joined.
LEMMA JoinedIs ==
  ASSUME NEW S, NEW a \in Seq(S), NEW c \in Seq(S)
  PROVE  /\ a \o c \in Seq(S) /\ Len(a \o c) = Len(a) + Len(c)
         /\ \A i \in 1..Len(a) : (a \o c)[i] = a[i]
         /\ \A i \in 1..Len(c) : (a \o c)[Len(a) + i] = c[i]
<1>1. Len(a) \in Nat /\ Len(c) \in Nat
  OBVIOUS
<1>2. /\ a \o c \in Seq(S) /\ Len(a \o c) = Len(a) + Len(c)
      /\ \A i \in 1..(Len(a) + Len(c)) : (a \o c)[i] = IF i <= Len(a) THEN a[i] ELSE c[i - Len(a)]
  BY ConcatProperties
<1>3. ASSUME NEW i \in 1..Len(a) PROVE (a \o c)[i] = a[i]
  <2>1. i \in 1..(Len(a) + Len(c)) /\ i <= Len(a)
    BY <1>1
  <2> QED BY <2>1, <1>2
<1>4. ASSUME NEW i \in 1..Len(c) PROVE (a \o c)[Len(a) + i] = c[i]
  <2>1. /\ Len(a) + i \in 1..(Len(a) + Len(c)) /\ ~(Len(a) + i <= Len(a))
        /\ Len(a) + i - Len(a) = i
    BY <1>1
  <2> QED BY <2>1, <1>2
<1> QED BY <1>2, <1>3, <1>4

LEMMA AfterIs ==
  ASSUME NEW b \in Bytes, NEW u \in 0..Len(b)
  PROVE  /\ After(b, u) \in Bytes /\ Len(After(b, u)) = Len(b) - u
         /\ \A k \in 1..(Len(b) - u) : After(b, u)[k] = b[u + k]
<1>1. Len(b) \in Nat /\ u \in Nat /\ b \in Seq(Byte)
  BY DEF Bytes
<1>2. /\ u + 1 \in Int /\ Len(b) \in Int
      /\ \A i \in (u + 1)..Len(b) : b[i] \in Byte
  BY <1>1
<1>3. /\ After(b, u) \in Seq(Byte)
      /\ Len(After(b, u)) = IF u + 1 <= Len(b) THEN Len(b) - (u + 1) + 1 ELSE 0
      /\ \A k \in 1..(Len(b) - (u + 1) + 1) : After(b, u)[k] = b[u + 1 + k - 1]
  BY <1>2, SubSeqProperties DEF After
<1>4. Len(After(b, u)) = Len(b) - u /\ Len(b) - (u + 1) + 1 = Len(b) - u
  BY <1>1, <1>3
<1>5. ASSUME NEW k \in 1..(Len(b) - u) PROVE After(b, u)[k] = b[u + k]
  <2>1. u + 1 + k - 1 = u + k
    BY <1>1
  <2> QED BY <2>1, <1>3, <1>4
<1> QED BY <1>3, <1>4, <1>5 DEF Bytes

LEMMA AfterOfJoined ==
  ASSUME NEW a \in Bytes, NEW c \in Bytes, NEW u \in 0..Len(a)
  PROVE  After(a \o c, u) = After(a, u) \o c
<1> DEFINE b == a \o c
           l == After(b, u)
           r == After(a, u) \o c
<1>1. /\ b \in Bytes /\ Len(b) = Len(a) + Len(c) /\ Len(a) \in Nat /\ Len(c) \in Nat
      /\ \A i \in 1..(Len(a) + Len(c)) : b[i] = IF i <= Len(a) THEN a[i] ELSE c[i - Len(a)]
  BY ConcatProperties DEF Bytes
<1>2. u \in 0..Len(b)
  BY <1>1
<1> HIDE DEF b
<1>3. /\ l \in Bytes /\ Len(l) = Len(b) - u
      /\ \A k \in 1..(Len(b) - u) : l[k] = b[u + k]
  BY <1>1, <1>2, AfterIs
<1>4. /\ After(a, u) \in Bytes /\ Len(After(a, u)) = Len(a) - u
      /\ \A k \in 1..(Len(a) - u) : After(a, u)[k] = a[u + k]
  BY AfterIs
<1>5. /\ r \in Bytes /\ Len(r) = Len(a) - u + Len(c)
      /\ \A k \in 1..(Len(a) - u + Len(c)) :
           r[k] = IF k <= Len(a) - u THEN After(a, u)[k] ELSE c[k - (Len(a) - u)]
  <2> DEFINE x == After(a, u)
  <2>1. x \in Seq(Byte) /\ c \in Seq(Byte) /\ Len(x) = Len(a) - u
    BY <1>4 DEF Bytes
  <2> HIDE DEF x
  <2>2. /\ x \o c \in Seq(Byte) /\ Len(x \o c) = Len(x) + Len(c)
        /\ \A k \in 1..(Len(x) + Len(c)) : (x \o c)[k] = IF k <= Len(x) THEN x[k] ELSE c[k - Len(x)]
    BY <2>1, ConcatProperties
  <2> QED BY <2>1, <2>2 DEF x, Bytes
<1>6. ASSUME NEW k \in 1..Len(l) PROVE l[k] = r[k]
  <2>1. k \in 1..(Len(b) - u) /\ k \in 1..(Len(a) - u + Len(c)) /\ u + k \in 1..(Len(a) + Len(c))
    BY <1>1, <1>2, <1>3
  <2>2. l[k] = b[u + k]
    BY <2>1, <1>3
  <2>3. CASE k <= Len(a) - u
    <3>1. k \in 1..(Len(a) - u) /\ u + k <= Len(a)
      BY <2>1, <2>3, <1>1
    <3>2. b[u + k] = a[u + k]
      BY <2>1, <3>1, <1>1
    <3>3. r[k] = a[u + k]
      BY <2>1, <3>1, <1>4, <1>5
    <3> QED BY <2>2, <3>2, <3>3
  <2>4. CASE ~(k <= Len(a) - u)
    <3>1. ~(u + k <= Len(a)) /\ u + k - Len(a) = k - (Len(a) - u)
      BY <2>1, <2>4, <1>1
    <3>2. b[u + k] = c[u + k - Len(a)]
      BY <2>1, <3>1, <1>1
    <3>3. r[k] = c[k - (Len(a) - u)]
      BY <2>1, <2>4, <1>5
    <3> QED BY <2>2, <3>1, <3>2, <3>3
  <2> QED BY <2>3, <2>4
<1>7. Len(l) = Len(r) /\ l \in Seq(Byte) /\ r \in Seq(Byte)
  BY <1>1, <1>3, <1>5 DEF Bytes
<1>8. l = r
  <2> HIDE DEF l, r
  <2> QED BY <1>6, <1>7, SeqEqual
<1> QED BY <1>8 DEF b

LEMMA AfterTwice ==
  ASSUME NEW b \in Bytes, NEW u \in 0..Len(b), NEW w \in 0..(Len(b) - u)
  PROVE  After(After(b, u), w) = After(b, u + w)
<1> DEFINE l == After(After(b, u), w)
           r == After(b, u + w)
<1>1. Len(b) \in Nat /\ u + w \in 0..Len(b)
  BY BytesAreNats
<1>2. /\ After(b, u) \in Bytes /\ Len(After(b, u)) = Len(b) - u
      /\ \A k \in 1..(Len(b) - u) : After(b, u)[k] = b[u + k]
  BY AfterIs
<1>3. /\ r \in Bytes /\ Len(r) = Len(b) - (u + w)
      /\ \A k \in 1..(Len(b) - (u + w)) : r[k] = b[(u + w) + k]
  BY <1>1, AfterIs
<1>4. /\ l \in Bytes /\ Len(l) = Len(b) - u - w
      /\ \A k \in 1..(Len(b) - u - w) : l[k] = After(b, u)[w + k]
  BY <1>2, AfterIs
<1>5. ASSUME NEW k \in 1..Len(l) PROVE l[k] = r[k]
  <2>1. /\ k \in 1..(Len(b) - u - w) /\ k \in 1..(Len(b) - (u + w)) /\ w + k \in 1..(Len(b) - u)
        /\ u + (w + k) = (u + w) + k
    BY <1>1, <1>4
  <2>2. l[k] = b[u + (w + k)]
    BY <2>1, <1>2, <1>4
  <2>3. r[k] = b[(u + w) + k]
    BY <2>1, <1>3
  <2> QED BY <2>1, <2>2, <2>3
<1>6. Len(l) = Len(r) /\ l \in Seq(Byte) /\ r \in Seq(Byte)
  BY <1>1, <1>3, <1>4 DEF Bytes
<1> HIDE DEF l, r
<1>7. l = r
  BY <1>5, <1>6, SeqEqual
<1> QED BY <1>7 DEF l, r

\* A parser that keeps what it has not used parses a stream in chunks as it would
\* parse it whole (h2ts-transport.ts FrameParser.push): the same messages, in the
\* same order, whatever the chunks.
LEMMA ParseInChunks ==
  ASSUME NEW a \in Bytes, NEW c \in Bytes
  PROVE  /\ Unused(a) \in Bytes
         /\ deframe_all(a \o c) = deframe_all(a) \o push(Unused(a), c).messages
         /\ Unused(a \o c) = push(Unused(a), c).buf
         /\ push(Unused(a), c).messages \in Seq(Bytes) /\ push(Unused(a), c).buf \in Bytes
<1> DEFINE b == a \o c
           u == deframe(a).used
           s == Unused(a) \o c
<1>1. Len(a) \in Nat /\ Len(c) \in Nat /\ b \in Bytes /\ Len(b) = Len(a) + Len(c)
  BY DEF Bytes
<1>2. u \in 0..Len(a) /\ deframe(a).messages \in Seq(Bytes) /\ u \in 0..Len(b)
  BY <1>1, DeframeType
<1>3. Unused(a) \in Bytes
  BY <1>2, AfterIs DEF Unused
<1>4. s = After(b, u)
  BY <1>2, AfterOfJoined DEF Unused
<1>5. s \in Bytes /\ Len(s) = Len(b) - u
  <2> HIDE DEF s, b, u
  <2> QED BY <1>1, <1>2, <1>4, AfterIs
<1>6. PICK f : ParserOver(b, 0, f) /\ deframe(b) = f[0]
  BY <1>1, DeframeIs
<1>7. PICK g : ParserOver(a, 0, g) /\ deframe(a) = g[0]
  BY DeframeIs
<1>8. PICK h : ParserOver(s, 0, h) /\ deframe(s) = h[0]
  BY <1>5, DeframeIs
<1>9. f[0].messages = g[0].messages \o f[u].messages /\ f[0].used = f[u].used
  <2>1. Continued(f, g, a)
    BY <1>6, <1>7, ParserGoesOn
  <2>2. 0 \in 0..Len(a) /\ g[0].used = u
    BY <1>1, <1>7
  <2> HIDE DEF u
  <2> QED BY <2>1, <2>2 DEF Continued
<1>10. f[u].messages = h[0].messages /\ f[u].used = u + h[0].used
  <2>1. 0 \in 0..Len(s) /\ u + 0 = u
    BY <1>1, <1>2, <1>5
  <2>2. s = SubSeq(b, u + 1, Len(b))
    BY <1>4 DEF After
  <2> HIDE DEF u, b, s
  <2>3. Shifted(f, h, s, u)
    BY <2>2, <1>1, <1>2, <1>5, <1>6, <1>8, ParserSeesWhatIsAfter
  <2>4. f[u + 0].messages = h[0].messages /\ f[u + 0].used = u + h[0].used
    BY <2>1, <2>3 DEF Shifted
  <2> QED BY <2>1, <2>4
<1> HIDE DEF u, b, s
<1>11. deframe_all(b) = deframe_all(a) \o deframe_all(s)
  BY <1>6, <1>7, <1>8, <1>9, <1>10 DEF deframe_all
<1>12. deframe(b).used = u + deframe(s).used
  BY <1>6, <1>8, <1>9, <1>10
<1>13. deframe_all(s) \in Seq(Bytes) /\ deframe(s).used \in 0..Len(s)
  BY <1>5, DeframeType
<1>14. Unused(b) = After(s, deframe(s).used) /\ After(s, deframe(s).used) \in Bytes
  <2>1. deframe(s).used \in 0..(Len(b) - u)
    BY <1>5, <1>13
  <2>2. After(After(b, u), deframe(s).used) = After(b, u + deframe(s).used)
    BY <2>1, <1>1, <1>2, AfterTwice
  <2> QED BY <2>2, <1>4, <1>5, <1>12, <1>13, AfterIs DEF Unused
<1>15. push(Unused(a), c) = [messages |-> deframe_all(s), buf |-> After(s, deframe(s).used)]
  BY DEF push, deframe_all, s, After
<1> QED BY <1>3, <1>11, <1>13, <1>14, <1>15 DEF b

\* A message framed is bytes, and parses back to itself, whatever follows it.
LEMMA ParseFrame ==
  ASSUME NEW m \in Bytes, Fits(Len(m)), NEW c \in Bytes
  PROVE  /\ frame(m) \in Bytes /\ Len(frame(m)) = HeaderLen + Len(m)
         /\ deframe_all(frame(m) \o c) = <<m>> \o deframe_all(c)
         /\ Unused(frame(m) \o c) = Unused(c)
<1> DEFINE p == frame(m)
           b == p \o c
<1>1. /\ LenBytes \in Nat /\ LenBytes >= 1 /\ HeaderLen = 1 + LenBytes /\ HeaderLen \in Nat
      /\ Len(m) \in Nat /\ m \in Seq(Byte) /\ c \in Seq(Byte) /\ Len(c) \in Nat
  BY FramingAssumption DEF HeaderLen, Bytes
<1>2. be(Len(m)) \in Bytes /\ Len(be(Len(m))) = LenBytes /\ uint(be(Len(m))) = Len(m)
  BY <1>1, LengthRoundTrip
<1>3. /\ p \in Seq(Byte) /\ Len(p) = HeaderLen + Len(m)
      /\ \A i \in 1..LenBytes : p[i + 1] = be(Len(m))[i]
      /\ \A i \in 1..Len(m) : p[i + HeaderLen] = m[i]
  <2> DEFINE q == be(Len(m))
             r == q \o m
             z == <<0>>
  <2>1. q \in Seq(Byte) /\ Len(q) = LenBytes
    BY <1>2 DEF Bytes
  <2>2. z \in Seq(Byte) /\ Len(z) = 1 /\ p = z \o r
    BY DEF Byte, frame, block
  <2> HIDE DEF q, z, p
  <2>3. /\ r \in Seq(Byte) /\ Len(r) = LenBytes + Len(m)
        /\ \A i \in 1..LenBytes : r[i] = q[i]
        /\ \A i \in 1..Len(m) : r[LenBytes + i] = m[i]
    <3>1. q \in Seq(Byte) /\ m \in Seq(Byte)
      BY <2>1, <1>1
    <3>2. /\ q \o m \in Seq(Byte) /\ Len(q \o m) = Len(q) + Len(m)
          /\ \A i \in 1..Len(q) : (q \o m)[i] = q[i]
          /\ \A i \in 1..Len(m) : (q \o m)[Len(q) + i] = m[i]
      BY <3>1, JoinedIs
    <3> QED BY <3>2, <2>1
  <2> HIDE DEF r
  <2>4. /\ p \in Seq(Byte) /\ Len(p) = 1 + (LenBytes + Len(m))
        /\ \A i \in 1..(LenBytes + Len(m)) : p[1 + i] = r[i]
    <3>1. /\ z \o r \in Seq(Byte) /\ Len(z \o r) = Len(z) + Len(r)
          /\ \A i \in 1..Len(r) : (z \o r)[Len(z) + i] = r[i]
      <4>1. z \in Seq(Byte) /\ r \in Seq(Byte)
        BY <2>2, <2>3
      <4> QED BY <4>1, JoinedIs
    <3> QED BY <3>1, <2>2, <2>3
  <2>5. ASSUME NEW i \in 1..LenBytes PROVE p[i + 1] = q[i]
    <3>1. i \in 1..(LenBytes + Len(m)) /\ i + 1 = 1 + i
      BY <1>1
    <3> QED BY <3>1, <2>3, <2>4
  <2>6. ASSUME NEW i \in 1..Len(m) PROVE p[i + HeaderLen] = m[i]
    <3>1. LenBytes + i \in 1..(LenBytes + Len(m)) /\ i + HeaderLen = 1 + (LenBytes + i)
      BY <1>1
    <3>2. p[1 + (LenBytes + i)] = r[LenBytes + i]
      BY <3>1, <2>4
    <3> QED BY <3>1, <3>2, <2>3
  <2>7. 1 + (LenBytes + Len(m)) = HeaderLen + Len(m)
    BY <1>1
  <2> QED BY <2>4, <2>5, <2>6, <2>7 DEF q
<1> HIDE DEF p
<1>4. /\ b \in Seq(Byte) /\ Len(b) = Len(p) + Len(c)
      /\ \A i \in 1..Len(p) : b[i] = p[i]
      /\ \A i \in 1..Len(c) : b[Len(p) + i] = c[i]
  <2>1. p \in Seq(Byte) /\ c \in Seq(Byte)
    BY <1>1, <1>3
  <2> QED BY <2>1, JoinedIs
<1> HIDE DEF b
<1>5. b \in Bytes /\ p \in Bytes /\ 0 \in 0..Len(b) /\ Len(b) \in Nat
  BY <1>1, <1>3, <1>4 DEF Bytes
<1>6. Declared(b, 0) = Len(m)
  <2> DEFINE l == SubSeq(b, 2, HeaderLen)
             r == be(Len(m))
  <2>1. \A i \in 2..HeaderLen : b[i] \in Byte
    <3> SUFFICES ASSUME NEW i \in 2..HeaderLen PROVE b[i] \in Byte
      OBVIOUS
    <3>1. i \in 1..Len(b)
      BY <1>1, <1>3, <1>4
    <3> QED BY <3>1, <1>4
  <2>2. /\ l \in Seq(Byte) /\ Len(l) = IF 2 <= HeaderLen THEN HeaderLen - 2 + 1 ELSE 0
        /\ \A i \in 1..(HeaderLen - 2 + 1) : l[i] = b[2 + i - 1]
    BY <2>1, <1>1, SubSeqProperties
  <2>3. ASSUME NEW i \in 1..LenBytes PROVE l[i] = r[i]
    <3>1. /\ i \in 1..(HeaderLen - 2 + 1) /\ 2 + i - 1 = i + 1
          /\ i + 1 \in 1..Len(p)
      BY <1>1, <1>3
    <3> QED BY <3>1, <2>2, <1>3, <1>4
  <2>4. Len(l) = LenBytes /\ r \in Seq(Byte) /\ Len(r) = LenBytes
    BY <2>2, <1>1, <1>2 DEF Bytes
  <2> HIDE DEF l, r
  <2>5. l = r
    BY <2>2, <2>3, <2>4, SeqEqual
  <2>6. 0 + 2 = 2 /\ 0 + HeaderLen = HeaderLen
    BY <1>1
  <2> QED BY <2>5, <2>6, <1>2 DEF l, r, Declared
<1>7. Complete(b, 0) /\ Ends(b, 0) = Len(p)
  <2> DEFINE n == Declared(b, 0)
  <2> HIDE DEF n
  <2>1. n = Len(m) /\ Len(b) = HeaderLen + Len(m) + Len(c) /\ Len(p) = HeaderLen + Len(m)
    BY <1>6, <1>3, <1>4 DEF n
  <2>2. 0 + HeaderLen + n = Len(p) /\ ~(Len(b) - 0 < HeaderLen \/ Len(b) - 0 - HeaderLen < n)
    BY <2>1, <1>1
  <2> QED BY <2>2 DEF Complete, Ends, n
<1>8. MessageAt(b, 0) = m
  <2> DEFINE l == SubSeq(b, HeaderLen + 1, Len(p))
  <2>1. \A i \in (HeaderLen + 1)..Len(p) : b[i] \in Byte
    <3> SUFFICES ASSUME NEW i \in (HeaderLen + 1)..Len(p) PROVE b[i] \in Byte
      OBVIOUS
    <3>1. i \in 1..Len(b)
      BY <1>1, <1>3, <1>4
    <3> QED BY <3>1, <1>4
  <2>2. /\ l \in Seq(Byte)
        /\ Len(l) = IF HeaderLen + 1 <= Len(p) THEN Len(p) - (HeaderLen + 1) + 1 ELSE 0
        /\ \A i \in 1..(Len(p) - (HeaderLen + 1) + 1) : l[i] = b[HeaderLen + 1 + i - 1]
    <3>1. HeaderLen + 1 \in Int /\ Len(p) \in Int
      BY <1>1, <1>3
    <3> QED BY <2>1, <3>1, SubSeqProperties
  <2>3. ASSUME NEW i \in 1..Len(m) PROVE l[i] = m[i]
    <3>1. /\ i \in 1..(Len(p) - (HeaderLen + 1) + 1) /\ HeaderLen + 1 + i - 1 = i + HeaderLen
          /\ i + HeaderLen \in 1..Len(p)
      BY <1>1, <1>3
    <3> QED BY <3>1, <2>2, <1>3, <1>4
  <2>4. Len(l) = Len(m)
    BY <2>2, <1>1, <1>3
  <2> HIDE DEF l
  <2>5. l = m
    BY <2>2, <2>3, <2>4, <1>1, SeqEqual
  <2>6. 0 + HeaderLen + 1 = HeaderLen + 1
    BY <1>1
  <2> QED BY <2>5, <2>6, <1>7 DEF l, MessageAt
<1>9. PICK f : ParserOver(b, 0, f) /\ deframe(b) = f[0]
  BY <1>5, DeframeIs
<1>10. PICK h : ParserOver(c, 0, h) /\ deframe(c) = h[0]
  BY DeframeIs
<1>11. f[0] = ParsedFrom(b, 0, f)
  BY <1>5, <1>9 DEF ParserOver
<1>12. f[0].messages = <<m>> \o f[Len(p)].messages /\ f[0].used = f[Len(p)].used
  BY <1>7, <1>8, <1>11 DEF ParsedFrom
<1>13. c = After(b, Len(p))
  <2>1. Len(p) \in 0..Len(p) /\ Len(p) \in 0..Len(b) /\ Len(p) \in Nat
    BY <1>1, <1>3, <1>4
  <2>2. /\ After(b, Len(p)) \in Bytes /\ Len(After(b, Len(p))) = Len(b) - Len(p)
        /\ \A k \in 1..(Len(b) - Len(p)) : After(b, Len(p))[k] = b[Len(p) + k]
    BY <2>1, <1>5, AfterIs
  <2> DEFINE l == After(b, Len(p))
  <2> HIDE DEF l
  <2>3. Len(l) = Len(c) /\ l \in Seq(Byte)
    BY <2>1, <2>2, <1>1, <1>4 DEF l, Bytes
  <2>4. ASSUME NEW k \in 1..Len(l) PROVE l[k] = c[k]
    <3>1. k \in 1..(Len(b) - Len(p)) /\ k \in 1..Len(c)
      BY <2>1, <2>3, <1>1, <1>4
    <3>2. l[k] = b[Len(p) + k]
      BY <3>1, <2>2 DEF l
    <3> QED BY <3>1, <3>2, <1>4
  <2>5. l = c
    BY <2>3, <2>4, <1>1, SeqEqual
  <2> QED BY <2>5 DEF l
<1>14. /\ Len(p) \in 0..Len(b) /\ Len(p) \in Nat /\ 0 \in 0..Len(c) /\ Len(p) + 0 = Len(p)
       /\ Len(c) = Len(b) - Len(p)
  BY <1>1, <1>3, <1>4
<1>15. f[Len(p)].messages = h[0].messages /\ f[Len(p)].used = Len(p) + h[0].used
  <2> DEFINE u == Len(p)
  <2>1. c = SubSeq(b, u + 1, Len(b)) /\ u \in 0..Len(b) /\ u + 0 = u
    BY <1>13, <1>14 DEF After
  <2> HIDE DEF u
  <2>2. Shifted(f, h, c, u)
    BY <2>1, <1>5, <1>9, <1>10, ParserSeesWhatIsAfter
  <2>3. f[u + 0].messages = h[0].messages /\ f[u + 0].used = u + h[0].used
    BY <2>2, <1>14 DEF Shifted
  <2> QED BY <2>1, <2>3 DEF u
<1>16. deframe_all(b) = <<m>> \o deframe_all(c)
  BY <1>9, <1>10, <1>12, <1>15 DEF deframe_all
<1>17. deframe(b).used = Len(p) + deframe(c).used
  BY <1>9, <1>10, <1>12, <1>15
<1>18. Unused(b) = Unused(c)
  <2>1. deframe(c).used \in 0..(Len(b) - Len(p))
    BY <1>14, DeframeType
  <2>2. After(After(b, Len(p)), deframe(c).used) = After(b, Len(p) + deframe(c).used)
    BY <2>1, <1>5, <1>14, AfterTwice
  <2> QED BY <2>2, <1>13, <1>17 DEF Unused
<1> QED BY <1>3, <1>5, <1>16, <1>18 DEF p, b

\* Nothing parses to nothing.
LEMMA ParseNothing ==
  <<>> \in Bytes /\ deframe_all(<<>>) = <<>> /\ Unused(<<>>) = <<>>
<1>1. <<>> \in Bytes /\ Len(<<>>) = 0
  BY DEF Bytes
<1>2. PICK f : ParserOver(<<>>, 0, f) /\ deframe(<<>>) = f[0]
  BY <1>1, DeframeIs
<1>3. f[0] = ParsedFrom(<<>>, 0, f) /\ ~Complete(<<>>, 0)
  <2>1. f[0] = ParsedFrom(<<>>, 0, f)
    BY <1>1, <1>2 DEF ParserOver
  <2>2. HeaderLen \in Nat /\ HeaderLen >= 2
    BY FramingAssumption DEF HeaderLen
  <2> QED BY <2>1, <2>2, <1>1 DEF Complete
<1>4. deframe(<<>>) = [messages |-> <<>>, used |-> 0]
  BY <1>2, <1>3 DEF ParsedFrom
<1>5. Unused(<<>>) = SubSeq(<<>>, 1, 0)
  BY <1>1, <1>4 DEF Unused, After
<1> QED BY <1>1, <1>4, <1>5 DEF deframe_all
=============================================================================
