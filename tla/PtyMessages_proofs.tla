-------------------------- MODULE PtyMessages_proofs --------------------------
(***************************************************************************)
(* What the decoder returns, for every width of a byte: of a buffer that   *)
(* carries an encoding behind the cursor, the value that was encoded; of   *)
(* one that ends before the encoding does, an error, which stays. First    *)
(* the numbers, then texts, then the lists, whose loops are instances of   *)
(* Recursion, and the layouts put together from them.                      *)
(***************************************************************************)
EXTENDS PtyMessages, SequenceTheorems, WellFoundedInduction, TLAPS

-----------------------------------------------------------------------------
(* Numbers.                                                                *)

(* The widths, as numbers.                                                 *)
LEMMA Widths ==
  /\ BYTE \in Nat /\ BYTE >= 5
  /\ UINT16 \in Nat /\ UINT16 >= 25
  /\ UINT32 \in Nat /\ UINT32 >= 625
  /\ BYTE * UINT16 \in Nat /\ BYTE * UINT16 < UINT32 /\ BYTE < UINT16
<1> USE ByteAssumption
<1>1. UINT16 \in Nat /\ UINT16 >= 5 * BYTE
  BY DEF UINT16
<1>2. UINT32 \in Nat /\ UINT32 >= 25 * UINT16
  <2>1. \A n \in Nat : n >= 25 => n * n >= 25 * n /\ n * n \in Nat
    OBVIOUS
  <2> QED
    BY <1>1, <2>1 DEF UINT32
<1>3. BYTE * UINT16 \in Nat /\ BYTE * UINT16 < UINT32
  <2>1. \A b, n \in Nat : b < n => b * n \in Nat /\ b * n < n * n
    OBVIOUS
  <2> QED
    BY <1>1, <2>1 DEF UINT32
<1> QED
  BY <1>1, <1>2, <1>3

(* A number of two digits.                                                 *)
LEMMA Digits ==
  ASSUME NEW base \in Nat, base > 0, NEW n \in 0 .. (base * base) - 1
  PROVE  /\ n \div base \in 0 .. base - 1
         /\ n % base \in 0 .. base - 1
         /\ ((n \div base) * base) + (n % base) = n
<1>1. n \div base \in Nat /\ n % base \in 0 .. base - 1 /\ ((n \div base) * base) + (n % base) = n
  OBVIOUS
<1>2. n \div base < base
  <2> SUFFICES ASSUME n \div base >= base PROVE FALSE
    BY <1>1
  <2>1. (n \div base) * base >= base * base
    BY <1>1
  <2> QED
    BY <1>1, <2>1
<1> QED
  BY <1>1, <1>2

(* Two bytes hold a number of two bytes.                                   *)
LEMMA Uint16Bytes ==
  ASSUME NEW n \in 0 .. UINT16 - 1
  PROVE  /\ EncodeParameter_Uint16(n) \in Seq(Bytes)
         /\ Len(EncodeParameter_Uint16(n)) = 2
         /\ FromUint16(EncodeParameter_Uint16(n)) = n
<1>1. /\ n \div BYTE \in Bytes /\ n % BYTE \in Bytes
      /\ ((n \div BYTE) * BYTE) + (n % BYTE) = n
  BY Digits, Widths DEF UINT16, Bytes
<1> QED
  BY <1>1 DEF EncodeParameter_Uint16, FromUint16

(* Four bytes are the two numbers of two bytes they are made of.           *)
LEMMA JoinPairs ==
  ASSUME NEW s \in Seq(Bytes), NEW t \in Seq(Bytes), Len(s) = 2, Len(t) = 2
  PROVE  /\ s \o t \in Seq(Bytes) /\ Len(s \o t) = 4
         /\ (s \o t)[1] = s[1] /\ (s \o t)[2] = s[2]
         /\ (s \o t)[3] = t[1] /\ (s \o t)[4] = t[2]
<1>1. /\ s \o t \in Seq(Bytes) /\ Len(s \o t) = Len(s) + Len(t)
      /\ \A i \in 1 .. Len(s) + Len(t) :
           (s \o t)[i] = IF i <= Len(s) THEN s[i] ELSE t[i - Len(s)]
  BY ConcatProperties
<1> QED
  BY <1>1

(* Four bytes hold a number of four bytes.                                 *)
LEMMA Uint32Bytes ==
  ASSUME NEW n \in 0 .. UINT32 - 1
  PROVE  /\ EncodeParameter_Uint32(n) \in Seq(Bytes)
         /\ Len(EncodeParameter_Uint32(n)) = 4
         /\ FromUint32(EncodeParameter_Uint32(n)) = n
<1> DEFINE upper == n \div UINT16
           lower == n % UINT16
           u     == EncodeParameter_Uint16(upper)
           l     == EncodeParameter_Uint16(lower)
<1>1. upper \in 0 .. UINT16 - 1 /\ lower \in 0 .. UINT16 - 1 /\ (upper * UINT16) + lower = n
  BY Digits, Widths DEF UINT32
<1>2. EncodeParameter_Uint32(n) = u \o l
  BY DEF EncodeParameter_Uint32
<1> HIDE DEF upper, lower
<1>3. /\ u \in Seq(Bytes) /\ Len(u) = 2 /\ (u[1] * BYTE) + u[2] = upper
      /\ l \in Seq(Bytes) /\ Len(l) = 2 /\ (l[1] * BYTE) + l[2] = lower
  BY <1>1, Uint16Bytes DEF FromUint16
<1> HIDE DEF u, l
<1>4. /\ u \o l \in Seq(Bytes) /\ Len(u \o l) = 4
      /\ (u \o l)[1] = u[1] /\ (u \o l)[2] = u[2] /\ (u \o l)[3] = l[1] /\ (u \o l)[4] = l[2]
  BY <1>3, JoinPairs
<1>5. FromUint32(u \o l) = (((u[1] * BYTE) + u[2]) * UINT16) + ((l[1] * BYTE) + l[2])
  BY <1>4 DEF FromUint32
<1> QED
  BY <1>1, <1>2, <1>3, <1>4, <1>5

(* The conversion to uint32 is undone by the one to int32.                 *)
LEMMA Int32Wraps ==
  ASSUME NEW n \in Int, -UINT32 <= 2 * n, 2 * n < UINT32
  PROVE  /\ n % UINT32 \in 0 .. UINT32 - 1
         /\ n = IF 2 * (n % UINT32) >= UINT32 THEN (n % UINT32) - UINT32 ELSE n % UINT32
<1>1. CASE n >= 0
  BY <1>1, Widths
<1>2. CASE n < 0
  <2>1. n = (-1 * UINT32) + (n + UINT32) /\ n + UINT32 \in 0 .. UINT32 - 1
    BY <1>2, Widths
  <2>2. n % UINT32 = n + UINT32
    BY <2>1, Widths
  <2> QED
    BY <1>2, <2>2, Widths
<1> QED
  BY <1>1, <1>2

-----------------------------------------------------------------------------
(* What it means that a decoder decodes.                                   *)

(* A decoder without an error, its cursor inside the buffer.               *)
Good(d) ==
  /\ d.Error = FALSE
  /\ d.Buffer \in Seq(Bytes)
  /\ d.Cursor \in 0 .. Len(d.Buffer)

(* What the buffer holds from the cursor on is the bytes s, or as many of   *)
(* them as there is room for.                                              *)
Carries(d, s) ==
  \A i \in 1 .. Len(s) : d.Cursor + i <= Len(d.Buffer) => d.Buffer[d.Cursor + i] = s[i]

Whole(d, s) == d.Cursor + Len(s) <= Len(d.Buffer)

(* From d to r the bytes s have become x. Where they are cut short, or s is *)
(* not valid, there is an error.                                           *)
Decoded(d, r, s, x, valid) ==
  IF Whole(d, s) /\ valid
  THEN r = Decoder(d.Buffer, d.Cursor + Len(s), FALSE, x)
  ELSE r.Error

(* The fields of a decoder.                                                *)
LEMMA DecoderFields ==
  ASSUME NEW b, NEW c, NEW e, NEW x
  PROVE  /\ Decoder(b, c, e, x).Buffer = b /\ Decoder(b, c, e, x).Cursor = c
         /\ Decoder(b, c, e, x).Error = e /\ Decoder(b, c, e, x).value = x
BY DEF Decoder

(* The bytes behind the cursor are those that the buffer carries.          *)
LEMMA Peeked ==
  ASSUME NEW d, Good(d), NEW s \in Seq(Bytes), Carries(d, s), Whole(d, s)
  PROVE  SubSeq(d.Buffer, d.Cursor + 1, d.Cursor + Len(s)) = s
<1> DEFINE b == d.Buffer
           c == d.Cursor
           n == Len(s)
           t == SubSeq(b, c + 1, c + n)
<1>1. b \in Seq(Bytes) /\ c \in Nat /\ n \in Nat /\ c + n <= Len(b)
  BY DEF Good, Whole
<1>2. \A i \in 1 .. n : b[c + i] = s[i]
  BY <1>1 DEF Carries
<1> HIDE DEF b, c, n
<1>3. \A i \in c + 1 .. c + n : b[i] \in Bytes
  BY <1>1, ElementOfSeq
<1>4. /\ t \in Seq(Bytes)
      /\ Len(t) = IF c + 1 <= c + n THEN c + n - (c + 1) + 1 ELSE 0
      /\ \A i \in 1 .. c + n - (c + 1) + 1 : t[i] = b[c + 1 + i - 1]
  BY <1>1, <1>3, SubSeqProperties
<1> HIDE DEF t
<1>5. Len(t) = n /\ \A i \in 1 .. n : t[i] = s[i]
  BY <1>1, <1>2, <1>4
<1>6. t = s
  BY <1>4, <1>5, SeqEqual DEF n
<1> QED
  BY <1>6 DEF t, b, c, n

-----------------------------------------------------------------------------
(* The parameters.                                                         *)

(* An error stays.                                                         *)
LEMMA ErrorStays ==
  ASSUME NEW d, d.Error
  PROVE  /\ DecodeParameter_Uint8(d).Error
         /\ DecodeParameter_Uint16(d).Error
         /\ DecodeParameter_Uint32(d).Error
         /\ DecodeParameter_Int32(d).Error
         /\ DecodeParameter_String16(d).Error
         /\ DecodeParameter_TrailingBytes(d).Error
         /\ AssertEndOfPayload(d).Error
<1>1. DecodeParameter_Uint8(d).Error /\ DecodeParameter_Uint16(d).Error
      /\ DecodeParameter_Uint32(d).Error /\ DecodeParameter_TrailingBytes(d).Error
  BY DEF DecodeParameter_Uint8, DecodeParameter_Uint16, DecodeParameter_Uint32,
         DecodeParameter_TrailingBytes, DecodeBytes, CanDecodeParameter, Fail, Decoder
<1>2. DecodeParameter_Int32(d).Error
  BY <1>1 DEF DecodeParameter_Int32, Yield, Decoder
<1>3. DecodeParameter_String16(d).Error
  BY <1>1 DEF DecodeParameter_String16, DecodeBytes, CanDecodeParameter, Fail, Decoder
<1>4. AssertEndOfPayload(d).Error
  BY DEF AssertEndOfPayload, Fail, Decoder
<1> QED
  BY <1>1, <1>2, <1>3, <1>4

(* The decoder reads a byte that was encoded.                              *)
LEMMA Uint8Decodes ==
  ASSUME NEW d, Good(d), NEW n \in Bytes, Carries(d, EncodeParameter_Uint8(n))
  PROVE  Decoded(d, DecodeParameter_Uint8(d), EncodeParameter_Uint8(n), n, TRUE)
<1> DEFINE s == EncodeParameter_Uint8(n)
<1>1. s \in Seq(Bytes) /\ Len(s) = 1 /\ FromUint8(s) = n
  BY DEF EncodeParameter_Uint8, FromUint8
<1> HIDE DEF s
<1>2. CASE Whole(d, s)
  <2>1. SubSeq(d.Buffer, d.Cursor + 1, d.Cursor + 1) = s
    BY <1>1, <1>2, Peeked DEF s
  <2>2. CanDecodeParameter(d, 1)
    BY <1>1, <1>2 DEF CanDecodeParameter, Whole, Good
  <2>3. DecodeParameter_Uint8(d) = Decoder(d.Buffer, d.Cursor + 1, FALSE, n)
    BY <1>1, <2>1, <2>2 DEF DecodeParameter_Uint8, DecodeBytes
  <2> QED
    BY <1>1, <1>2, <2>3 DEF Decoded, s
<1>3. CASE ~Whole(d, s)
  <2>1. ~CanDecodeParameter(d, 1)
    BY <1>1, <1>3 DEF CanDecodeParameter, Whole, Good
  <2> QED
    BY <1>3, <2>1 DEF Decoded, DecodeParameter_Uint8, DecodeBytes, Fail, Decoder, s
<1> QED
  BY <1>2, <1>3

(* The decoder reads a number of two bytes that was encoded.               *)
LEMMA Uint16Decodes ==
  ASSUME NEW d, Good(d), NEW n \in 0 .. UINT16 - 1, Carries(d, EncodeParameter_Uint16(n))
  PROVE  Decoded(d, DecodeParameter_Uint16(d), EncodeParameter_Uint16(n), n, TRUE)
<1> DEFINE s == EncodeParameter_Uint16(n)
<1>1. s \in Seq(Bytes) /\ Len(s) = 2 /\ FromUint16(s) = n
  BY Uint16Bytes
<1> HIDE DEF s
<1>2. CASE Whole(d, s)
  <2>1. SubSeq(d.Buffer, d.Cursor + 1, d.Cursor + 2) = s
    BY <1>1, <1>2, Peeked DEF s
  <2>2. CanDecodeParameter(d, 2)
    BY <1>1, <1>2 DEF CanDecodeParameter, Whole, Good
  <2>3. DecodeParameter_Uint16(d) = Decoder(d.Buffer, d.Cursor + 2, FALSE, n)
    BY <1>1, <2>1, <2>2 DEF DecodeParameter_Uint16, DecodeBytes
  <2> QED
    BY <1>1, <1>2, <2>3 DEF Decoded, s
<1>3. CASE ~Whole(d, s)
  <2>1. ~CanDecodeParameter(d, 2)
    BY <1>1, <1>3 DEF CanDecodeParameter, Whole, Good
  <2> QED
    BY <1>3, <2>1 DEF Decoded, DecodeParameter_Uint16, DecodeBytes, Fail, Decoder, s
<1> QED
  BY <1>2, <1>3

(* The decoder reads a number of four bytes that was encoded.              *)
LEMMA Uint32Decodes ==
  ASSUME NEW d, Good(d), NEW n \in 0 .. UINT32 - 1, Carries(d, EncodeParameter_Uint32(n))
  PROVE  Decoded(d, DecodeParameter_Uint32(d), EncodeParameter_Uint32(n), n, TRUE)
<1> DEFINE s == EncodeParameter_Uint32(n)
<1>1. s \in Seq(Bytes) /\ Len(s) = 4 /\ FromUint32(s) = n
  BY Uint32Bytes
<1> HIDE DEF s
<1>2. CASE Whole(d, s)
  <2>1. SubSeq(d.Buffer, d.Cursor + 1, d.Cursor + 4) = s
    BY <1>1, <1>2, Peeked DEF s
  <2>2. CanDecodeParameter(d, 4)
    BY <1>1, <1>2 DEF CanDecodeParameter, Whole, Good
  <2>3. DecodeParameter_Uint32(d) = Decoder(d.Buffer, d.Cursor + 4, FALSE, n)
    BY <1>1, <2>1, <2>2 DEF DecodeParameter_Uint32, DecodeBytes
  <2> QED
    BY <1>1, <1>2, <2>3 DEF Decoded, s
<1>3. CASE ~Whole(d, s)
  <2>1. ~CanDecodeParameter(d, 4)
    BY <1>1, <1>3 DEF CanDecodeParameter, Whole, Good
  <2> QED
    BY <1>3, <2>1 DEF Decoded, DecodeParameter_Uint32, DecodeBytes, Fail, Decoder, s
<1> QED
  BY <1>2, <1>3

(* The decoder reads a signed number that was encoded.                     *)
LEMMA Int32Decodes ==
  ASSUME NEW d, Good(d), NEW n \in Int, -UINT32 <= 2 * n, 2 * n < UINT32,
         Carries(d, EncodeParameter_Int32(n))
  PROVE  Decoded(d, DecodeParameter_Int32(d), EncodeParameter_Int32(n), n, TRUE)
<1> DEFINE u == n % UINT32
           r == DecodeParameter_Uint32(d)
<1>1. u \in 0 .. UINT32 - 1 /\ n = IF 2 * u >= UINT32 THEN u - UINT32 ELSE u
  BY Int32Wraps
<1> HIDE DEF u
<1>2. EncodeParameter_Int32(n) = EncodeParameter_Uint32(u)
  BY DEF EncodeParameter_Int32, u
<1>3. Decoded(d, r, EncodeParameter_Uint32(u), u, TRUE)
  BY <1>1, <1>2, Uint32Decodes
<1>4. DecodeParameter_Int32(d)
        = Yield(r, IF 2 * r.value >= UINT32 THEN r.value - UINT32 ELSE r.value)
  BY DEF DecodeParameter_Int32
<1> HIDE DEF r
<1> DEFINE s == EncodeParameter_Uint32(u)
<1>5. CASE Whole(d, s)
  <2>1. r = Decoder(d.Buffer, d.Cursor + Len(s), FALSE, u)
    BY <1>3, <1>5 DEF Decoded
  <2> HIDE DEF s
  <2>2. r.value = u /\ r.Buffer = d.Buffer /\ r.Cursor = d.Cursor + Len(s) /\ r.Error = FALSE
    BY <2>1 DEF Decoder
  <2>3. DecodeParameter_Int32(d) = Yield(r, n)
    BY <1>1, <1>4, <2>2
  <2>4. DecodeParameter_Int32(d) = Decoder(d.Buffer, d.Cursor + Len(s), FALSE, n)
    BY <2>2, <2>3 DEF Yield
  <2> QED
    BY <1>2, <1>5, <2>4 DEF Decoded, s
<1>6. CASE ~Whole(d, s)
  <2>1. r.Error
    BY <1>3, <1>6 DEF Decoded
  <2>2. DecodeParameter_Int32(d).Error
    BY <1>4, <2>1 DEF Yield, Decoder
  <2> QED
    BY <1>2, <1>6, <2>2 DEF Decoded
<1> QED
  BY <1>5, <1>6

-----------------------------------------------------------------------------
(* Parameters one after the other.                                         *)

(* Two byte sequences in a row.                                            *)
LEMMA Concatenation ==
  ASSUME NEW s \in Seq(Bytes), NEW t \in Seq(Bytes)
  PROVE  /\ s \o t \in Seq(Bytes)
         /\ Len(s) \in Nat /\ Len(t) \in Nat /\ Len(s \o t) = Len(s) + Len(t)
         /\ \A i \in 1 .. Len(s) : (s \o t)[i] = s[i]
         /\ \A i \in 1 .. Len(t) : (s \o t)[Len(s) + i] = t[i]
<1>1. /\ s \o t \in Seq(Bytes) /\ Len(s \o t) = Len(s) + Len(t)
      /\ \A i \in 1 .. Len(s) + Len(t) :
           (s \o t)[i] = IF i <= Len(s) THEN s[i] ELSE t[i - Len(s)]
  BY ConcatProperties
<1>2. Len(s) \in Nat /\ Len(t) \in Nat
  OBVIOUS
<1> QED
  BY <1>1, <1>2

(* What carries both carries the first, and behind it the second.           *)
LEMMA FirstOfTwo ==
  ASSUME NEW d, Good(d), NEW s \in Seq(Bytes), NEW t \in Seq(Bytes)
  PROVE  /\ Carries(d, s \o t) => Carries(d, s)
         /\ Whole(d, s \o t) => Whole(d, s)
         /\ \A x : Carries(d, s \o t) /\ Whole(d, s) =>
              LET r == Decoder(d.Buffer, d.Cursor + Len(s), FALSE, x)
              IN Good(r) /\ Carries(r, t) /\ (Whole(r, t) <=> Whole(d, s \o t))
<1> DEFINE st == s \o t
<1>1. /\ Len(s) \in Nat /\ Len(t) \in Nat /\ Len(st) = Len(s) + Len(t)
      /\ \A i \in 1 .. Len(s) : st[i] = s[i]
      /\ \A i \in 1 .. Len(t) : st[Len(s) + i] = t[i]
  BY Concatenation
<1>2. d.Cursor \in Nat /\ Len(d.Buffer) \in Nat /\ d.Buffer \in Seq(Bytes)
  BY DEF Good
<1> HIDE DEF st
<1>3. Carries(d, st) => Carries(d, s)
  BY <1>1, <1>2 DEF Carries
<1>4. Whole(d, st) => Whole(d, s)
  BY <1>1, <1>2 DEF Whole
<1>5. ASSUME NEW x, Carries(d, st), Whole(d, s)
      PROVE  LET r == Decoder(d.Buffer, d.Cursor + Len(s), FALSE, x)
             IN Good(r) /\ Carries(r, t) /\ (Whole(r, t) <=> Whole(d, st))
  <2> DEFINE r == Decoder(d.Buffer, d.Cursor + Len(s), FALSE, x)
  <2>1. r.Buffer = d.Buffer /\ r.Cursor = d.Cursor + Len(s) /\ ~r.Error
    BY DEF Decoder
  <2> HIDE DEF r
  <2>2. Good(r)
    BY <1>1, <1>2, <1>5, <2>1 DEF Good, Whole
  <2>3. Carries(r, t)
    <3> SUFFICES ASSUME NEW i \in 1 .. Len(t), r.Cursor + i <= Len(r.Buffer)
                 PROVE  r.Buffer[r.Cursor + i] = t[i]
      BY DEF Carries
    <3>1. Len(s) + i \in 1 .. Len(st) /\ d.Cursor + (Len(s) + i) = r.Cursor + i
      BY <1>1, <1>2, <2>1
    <3> QED
      BY <1>1, <1>2, <1>5, <2>1, <3>1 DEF Carries
  <2>4. Whole(r, t) <=> Whole(d, st)
    BY <1>1, <1>2, <2>1 DEF Whole
  <2> QED
    BY <2>2, <2>3, <2>4 DEF r
<1> QED
  BY <1>3, <1>4, <1>5 DEF st

(* Two parameters in a row are one.                                        *)
LEMMA Chain ==
  ASSUME NEW d, NEW r1, NEW x1, NEW r2, NEW x2,
         NEW s \in Seq(Bytes), NEW t \in Seq(Bytes),
         NEW valid1 \in BOOLEAN, NEW valid2 \in BOOLEAN, NEW valid \in BOOLEAN,
         valid <=> valid1 /\ valid2,
         Good(d), Carries(d, s \o t), Decoded(d, r1, s, x1, valid1),
         Good(r1) /\ Carries(r1, t) /\ r1.value = x1 => Decoded(r1, r2, t, x2, valid2),
         r1.Error => r2.Error
  PROVE  Decoded(d, r2, s \o t, x2, valid)
<1>1. CASE Whole(d, s) /\ valid1
  <2>1. r1 = Decoder(d.Buffer, d.Cursor + Len(s), FALSE, x1)
    BY <1>1 DEF Decoded
  <2>2. Good(r1) /\ Carries(r1, t) /\ (Whole(r1, t) <=> Whole(d, s \o t))
    BY <1>1, <2>1, FirstOfTwo
  <2>3. r1.Buffer = d.Buffer /\ r1.Cursor = d.Cursor + Len(s) /\ r1.value = x1
    BY <2>1 DEF Decoder
  <2>4. Decoded(r1, r2, t, x2, valid2)
    BY <2>2, <2>3
  <2>5. (d.Cursor + Len(s)) + Len(t) = d.Cursor + Len(s \o t)
    BY Concatenation DEF Good
  <2>6. CASE Whole(r1, t) /\ valid2
    <3>1. r2 = Decoder(d.Buffer, d.Cursor + Len(s \o t), FALSE, x2)
      BY <2>3, <2>4, <2>5, <2>6 DEF Decoded
    <3> QED
      BY <1>1, <2>2, <2>6, <3>1 DEF Decoded
  <2>7. CASE ~(Whole(r1, t) /\ valid2)
    BY <2>2, <2>4, <2>7 DEF Decoded
  <2> QED
    BY <2>6, <2>7
<1>2. CASE ~(Whole(d, s) /\ valid1)
  <2>1. r2.Error
    BY <1>2 DEF Decoded
  <2>2. ~(Whole(d, s \o t) /\ valid)
    BY <1>2, FirstOfTwo
  <2> QED
    BY <2>1, <2>2 DEF Decoded
<1> QED
  BY <1>1, <1>2

(* A value that is made of the decoded ones.                               *)
LEMMA Yielded ==
  ASSUME NEW d, NEW r, NEW s, NEW x, NEW valid \in BOOLEAN, Decoded(d, r, s, x, valid),
         NEW y, NEW z, Whole(d, s) /\ valid => y = z
  PROVE  Decoded(d, Yield(r, y), s, z, valid)
<1>1. CASE Whole(d, s) /\ valid
  <2>1. r = Decoder(d.Buffer, d.Cursor + Len(s), FALSE, x)
    BY <1>1 DEF Decoded
  <2>2. Yield(r, y) = Decoder(d.Buffer, d.Cursor + Len(s), FALSE, y)
    BY <2>1 DEF Yield, Decoder
  <2> QED
    BY <1>1, <2>2 DEF Decoded
<1>2. CASE ~(Whole(d, s) /\ valid)
  BY <1>2 DEF Decoded, Yield, Decoder
<1> QED
  BY <1>1, <1>2

(* A text is its length and its bytes.                                     *)
LEMMA String16Decodes ==
  ASSUME NEW d, Good(d), NEW text \in Seq(Bytes), Len(text) < UINT16,
         Carries(d, EncodeParameter_Uint16(Len(text) % UINT16) \o text)
  PROVE  Decoded(d, DecodeParameter_String16(d),
                 EncodeParameter_Uint16(Len(text) % UINT16) \o text, text, TRUE)
<1> DEFINE s  == EncodeParameter_Uint16(Len(text) % UINT16)
           r1 == DecodeParameter_Uint16(d)
           r2 == DecodeParameter_String16(d)
<1>1. Len(text) \in 0 .. UINT16 - 1 /\ Len(text) % UINT16 = Len(text)
  BY Widths
<1>2. s \in Seq(Bytes) /\ s = EncodeParameter_Uint16(Len(text))
  BY <1>1, Uint16Bytes
<1>3. Decoded(d, r1, s, Len(text), TRUE)
  <2>1. Carries(d, s)
    BY <1>2, FirstOfTwo
  <2> QED
    BY <1>1, <1>2, <2>1, Uint16Decodes
<1>4. ASSUME Good(r1), Carries(r1, text), r1.value = Len(text)
      PROVE  Decoded(r1, r2, text, text, TRUE)
  <2> HIDE DEF r1
  <2>1. r2 = IF CanDecodeParameter(r1, Len(text))
             THEN Decoder(r1.Buffer, r1.Cursor + Len(text), FALSE,
                          SubSeq(r1.Buffer, r1.Cursor + 1, r1.Cursor + Len(text)))
             ELSE Fail(r1, <<>>)
    BY <1>4 DEF DecodeParameter_String16, DecodeBytes, r1
  <2>2. CanDecodeParameter(r1, Len(text)) <=> Whole(r1, text)
    BY <1>4 DEF CanDecodeParameter, Whole, Good
  <2> HIDE DEF r2
  <2>3. CASE Whole(r1, text)
    <3>1. SubSeq(r1.Buffer, r1.Cursor + 1, r1.Cursor + Len(text)) = text
      BY <1>4, <2>3, Peeked
    <3> QED
      BY <2>1, <2>2, <2>3, <3>1 DEF Decoded
  <2>4. CASE ~Whole(r1, text)
    BY <2>1, <2>2, <2>4 DEF Decoded, Fail, Decoder
  <2> QED
    BY <2>3, <2>4
<1>5. r1.Error => r2.Error
  BY DEF DecodeParameter_String16, DecodeBytes, CanDecodeParameter, Fail, Decoder
<1> HIDE DEF r1, r2, s
<1>6. Carries(d, s \o text)
  BY DEF s
<1>7. Decoded(d, r2, s \o text, text, TRUE)
  BY <1>2, <1>3, <1>4, <1>5, <1>6, Chain
<1> QED
  BY <1>7 DEF r2, s

-----------------------------------------------------------------------------
(* Lists.                                                                  *)

(* flat[i] is what the first i of the n pieces are together.                *)
Flat(flat, bytes, n) ==
  /\ bytes \in [1 .. n -> Seq(Bytes)]
  /\ flat \in [0 .. n -> Seq(Bytes)]
  /\ flat[0] = <<>>
  /\ \A i \in 1 .. n : flat[i] = flat[i - 1] \o bytes[i]

(* FlattenSeq, step by step.                                               *)
StepFlatten(seqs, i, before) == IF i = 1 THEN seqs[i] ELSE before \o seqs[i]

Flattening == INSTANCE Recursion WITH Step <- StepFlatten

(* FlattenSeq puts the sequences together one after the other.             *)
LEMMA Flattened ==
  ASSUME NEW n \in Nat, NEW seqs \in [1 .. n -> Seq(Bytes)]
  PROVE  \E flat : Flat(flat, seqs, n) /\ FlattenSeq(seqs) = flat[n]
<1>1. seqs \in Seq(Seq(Bytes)) /\ Len(seqs) = n
  OBVIOUS
<1>2. <<>> \in Seq(Bytes)
  OBVIOUS
<1>3. CASE n = 0
  <2> DEFINE flat == [i \in 0 .. n |-> <<>>]
  <2>1. flat \in [0 .. n -> Seq(Bytes)] /\ flat[0] = <<>> /\ flat[n] = <<>>
    BY <1>2
  <2>2. FlattenSeq(seqs) = <<>>
    BY <1>1, <1>3 DEF FlattenSeq
  <2>3. \A i \in 1 .. n : FALSE
    BY <1>3
  <2> HIDE DEF flat
  <2>4. Flat(flat, seqs, n)
    BY <2>1, <2>3 DEF Flat
  <2> QED
    BY <2>1, <2>2, <2>4
<1>4. CASE n # 0
  <2> DEFINE Loop(f) == f = [i \in 1 .. n |-> IF i = 1 THEN seqs[i] ELSE f[i - 1] \o seqs[i]]
             flatten == CHOOSE f : Loop(f)
  <2>1. \E f : Loop(f)
    <3>1. PICK h : Flattening!Loop(h, seqs, <<>>, n)
      BY Flattening!Exists
    <3> DEFINE f == [i \in 1 .. n |-> h[i]]
    <3>2. ASSUME NEW i \in 1 .. n PROVE f[i] = IF i = 1 THEN seqs[i] ELSE f[i - 1] \o seqs[i]
      <4>1. h[i] = IF i = 1 THEN seqs[i] ELSE h[i - 1] \o seqs[i]
        BY <3>1 DEF Flattening!Loop, StepFlatten
      <4>2. i # 1 => i - 1 \in 1 .. n
        OBVIOUS
      <4> QED
        BY <4>1, <4>2
    <3>3. f = [i \in 1 .. n |-> f[i]]
      OBVIOUS
    <3> HIDE DEF f
    <3>4. Loop(f)
      BY <3>2, <3>3
    <3> QED
      BY <3>4
  <2>2. Loop(flatten)
    BY <2>1
  <2>3. FlattenSeq(seqs) = flatten[n]
    BY <1>1, <1>4 DEF FlattenSeq
  <2> HIDE DEF flatten
  <2>4. \A i \in 1 .. n : flatten[i] = IF i = 1 THEN seqs[i] ELSE flatten[i - 1] \o seqs[i]
    BY <2>2
  <2> DEFINE flat == [i \in 0 .. n |-> IF i = 0 THEN <<>> ELSE flatten[i]]
             S == {i \in 0 .. n : flat[i] \in Seq(Bytes)}
  <2>5. flat[0] = <<>> /\ flat[n] = flatten[n]
    BY <1>4
  <2>6. 0 \in S
    BY <1>2
  <2>7. ASSUME NEW i \in 1 .. n, i - 1 \in S
        PROVE  flat[i] = flat[i - 1] \o seqs[i] /\ i \in S
    <3>1. flat[i] = flatten[i] /\ flat[i - 1] \in Seq(Bytes) /\ seqs[i] \in Seq(Bytes)
      BY <2>7
    <3>2. flat[i] = flat[i - 1] \o seqs[i]
      <4>1. CASE i = 1
        <5>1. flat[i - 1] = <<>> /\ flat[i] = seqs[i]
          BY <2>4, <4>1
        <5> QED
          BY <3>1, <5>1, ConcatEmptySeq
      <4>2. CASE i # 1
        <5>1. flat[i - 1] = flatten[i - 1]
          BY <4>2
        <5>2. flatten[i] = flatten[i - 1] \o seqs[i]
          BY <2>4, <4>2
        <5> QED
          BY <3>1, <5>1, <5>2
      <4> QED
        BY <4>1, <4>2
    <3>3. flat[i - 1] \o seqs[i] \in Seq(Bytes)
      BY <3>1, Concatenation
    <3> HIDE DEF flat
    <3>4. flat[i] \in Seq(Bytes)
      BY <3>2, <3>3
    <3>5. i \in S
      BY <3>4
    <3> QED
      BY <3>2, <3>5
  <2> HIDE DEF S, flat
  <2>8. \A i \in 0 .. n : i \in S
    BY <2>6, <2>7, Flattening!Induct
  <2>9. \A i \in 1 .. n : flat[i] = flat[i - 1] \o seqs[i]
    <3>1. \A i \in 1 .. n : i - 1 \in 0 .. n
      OBVIOUS
    <3> QED
      BY <2>7, <2>8, <3>1
  <2>10. flat \in [0 .. n -> Seq(Bytes)]
    BY <2>8 DEF S, flat
  <2>11. Flat(flat, seqs, n)
    BY <2>5, <2>9, <2>10 DEF Flat
  <2> QED
    BY <2>3, <2>5, <2>11
<1> QED
  BY <1>3, <1>4

(* A list one element longer.                                              *)
LEMMA AppendNext ==
  ASSUME NEW X, NEW n \in Nat, NEW xs \in [1 .. n -> X], NEW k \in 1 .. n
  PROVE  Append([i \in 1 .. k - 1 |-> xs[i]], xs[k]) = [i \in 1 .. k |-> xs[i]]
<1> DEFINE s == [i \in 1 .. k - 1 |-> xs[i]]
           t == [i \in 1 .. k |-> xs[i]]
<1>1. s \in Seq(X) /\ Len(s) = k - 1 /\ \A i \in 1 .. k - 1 : s[i] = xs[i]
  OBVIOUS
<1>2. t \in Seq(X) /\ Len(t) = k /\ \A i \in 1 .. k : t[i] = xs[i]
  OBVIOUS
<1>3. xs[k] \in X
  OBVIOUS
<1> HIDE DEF s, t
<1>4. /\ Append(s, xs[k]) \in Seq(X) /\ Len(Append(s, xs[k])) = Len(s) + 1
      /\ \A i \in 1 .. Len(s) + 1 : Append(s, xs[k])[i] = IF i = Len(s) + 1 THEN xs[k] ELSE s[i]
  BY <1>1, <1>3, AppendProperties
<1>5. Len(Append(s, xs[k])) = Len(t) /\ \A i \in 1 .. Len(t) : Append(s, xs[k])[i] = t[i]
  BY <1>1, <1>2, <1>4
<1>6. Append(s, xs[k]) = t
  BY <1>2, <1>4, <1>5, SeqEqual
<1> QED
  BY <1>6 DEF s, t

(* One sequence more.                                                      *)
LEMMA FlatStep ==
  ASSUME NEW flat, NEW bytes, NEW n \in Nat, NEW i \in 1 .. n, Flat(flat, bytes, n)
  PROVE  /\ i - 1 \in 0 .. n /\ i \in 0 .. n
         /\ flat[i - 1] \in Seq(Bytes) /\ bytes[i] \in Seq(Bytes)
         /\ flat[i] = flat[i - 1] \o bytes[i]
<1>1. i - 1 \in 0 .. n /\ i \in 0 .. n
  OBVIOUS
<1>2. flat[i - 1] \in Seq(Bytes) /\ bytes[i] \in Seq(Bytes)
  BY <1>1 DEF Flat
<1>3. flat[i] = flat[i - 1] \o bytes[i]
  BY DEF Flat
<1> QED
  BY <1>1, <1>2, <1>3

(* What carries a list carries its first elements.                         *)
LEMMA PrefixesCarried ==
  ASSUME NEW d, NEW flat, NEW bytes, NEW n \in Nat,
         Good(d), Flat(flat, bytes, n), Carries(d, flat[n])
  PROVE  \A i \in 0 .. n : Carries(d, flat[i])
<1> DEFINE S == {k \in 0 .. n : Carries(d, flat[n - k])}
<1>1. 0 \in S
  OBVIOUS
<1>2. ASSUME NEW k \in 1 .. n, k - 1 \in S PROVE k \in S
  <2> DEFINE m == n - (k - 1)
  <2>1. m \in 1 .. n /\ m - 1 = n - k /\ Carries(d, flat[m])
    BY <1>2
  <2> HIDE DEF m
  <2>2. /\ flat[m - 1] \in Seq(Bytes) /\ bytes[m] \in Seq(Bytes)
        /\ flat[m] = flat[m - 1] \o bytes[m]
    BY <2>1, FlatStep
  <2>3. Carries(d, flat[m - 1] \o bytes[m])
    BY <2>1, <2>2
  <2>4. Carries(d, flat[m - 1])
    BY <2>2, <2>3, FirstOfTwo
  <2> QED
    BY <2>1, <2>4
<1> HIDE DEF S
<1>3. \A k \in 0 .. n : k \in S
  BY <1>1, <1>2, Flattening!Induct
<1> SUFFICES ASSUME NEW i \in 0 .. n PROVE Carries(d, flat[i])
  OBVIOUS
<1>4. n - i \in S
  BY <1>3
<1>5. n - (n - i) = i
  OBVIOUS
<1> QED
  BY <1>4, <1>5 DEF S

(* One step of the loop of a slice.                                        *)
LEMMA LoopStep ==
  ASSUME NEW d, NEW r1, NEW e, NEW r2, NEW list, NEW x,
         NEW s \in Seq(Bytes), NEW t \in Seq(Bytes),
         NEW valid1 \in BOOLEAN, NEW valid2 \in BOOLEAN, NEW valid \in BOOLEAN,
         valid <=> valid1 /\ valid2,
         Good(d), Carries(d, s \o t), Decoded(d, r1, s, list, valid1),
         r2 = IF r1.Error THEN r1 ELSE Yield(e, Append(r1.value, e.value)),
         Good(r1) /\ Carries(r1, t) => Decoded(r1, e, t, x, valid2)
  PROVE  Decoded(d, r2, s \o t, Append(list, x), valid)
<1>1. ASSUME Good(r1), Carries(r1, t), r1.value = list
      PROVE  Decoded(r1, r2, t, Append(list, x), valid2)
  <2>1. Decoded(r1, e, t, x, valid2)
    BY <1>1
  <2>2. r2 = Yield(e, Append(list, e.value))
    BY <1>1 DEF Good
  <2>3. Whole(r1, t) /\ valid2 => e.value = x
    BY <2>1 DEF Decoded, Decoder
  <2>4. Whole(r1, t) /\ valid2 => Append(list, e.value) = Append(list, x)
    BY <2>3
  <2> QED
    BY <2>1, <2>2, <2>4, Yielded
<1>2. r1.Error => r2.Error
  OBVIOUS
<1> DEFINE z == Append(list, x)
<1> HIDE DEF z
<1>3. Good(r1) /\ Carries(r1, t) /\ r1.value = list => Decoded(r1, r2, t, z, valid2)
  BY <1>1 DEF z
<1>4. Decoded(d, r2, s \o t, z, valid)
  BY <1>2, <1>3, Chain
<1> QED
  BY <1>4 DEF z

All(valid, n) == \A i \in 1 .. n : valid[i]

(* One element more.                                                       *)
LEMMA OneMoreValid ==
  ASSUME NEW n \in Nat, NEW valid \in [1 .. n -> BOOLEAN], NEW k \in 1 .. n
  PROVE  /\ valid[k] \in BOOLEAN /\ All(valid, k - 1) \in BOOLEAN /\ All(valid, k) \in BOOLEAN
         /\ All(valid, k) <=> All(valid, k - 1) /\ valid[k]
<1>1. 1 .. k = (1 .. k - 1) \cup {k}
  OBVIOUS
<1> QED
  BY <1>1 DEF All

(* The loop of a slice from a decoder d behind the count: its states, the   *)
(* decoders behind the elements, and what the elements' bytes decode to.    *)
SliceLoop(slice, elements, d, n) ==
  /\ slice[0] = Yield(d, <<>>)
  /\ \A i \in 1 .. n :
       slice[i] = IF slice[i - 1].Error THEN slice[i - 1]
                  ELSE Yield(elements[i], Append(slice[i - 1].value, elements[i].value))

ElementsDecode(slice, elements, bytes, xs, valid, n) ==
  \A i \in 1 .. n :
    Good(slice[i - 1]) /\ Carries(slice[i - 1], bytes[i]) =>
      Decoded(slice[i - 1], elements[i], bytes[i], xs[i], valid[i])

(* The loop decodes the elements' bytes to the list of the elements.       *)
LEMMA LoopDecodes ==
  ASSUME NEW d, NEW flat, NEW bytes, NEW slice, NEW elements, NEW X, NEW n \in Nat,
         NEW xs \in [1 .. n -> X], NEW valid \in [1 .. n -> BOOLEAN],
         NEW all \in BOOLEAN, all <=> All(valid, n),
         Good(d), Flat(flat, bytes, n), Carries(d, flat[n]), SliceLoop(slice, elements, d, n),
         ElementsDecode(slice, elements, bytes, xs, valid, n)
  PROVE  Decoded(d, slice[n], flat[n], xs, all)
<1> DEFINE List(k) == [i \in 1 .. k |-> xs[i]]
           S == {k \in 0 .. n : Decoded(d, slice[k], flat[k], List(k), All(valid, k))}
<1>1. 0 \in S
  <2>1. Len(flat[0]) = 0 /\ List(0) = <<>> /\ All(valid, 0)
    BY DEF Flat, All
  <2>2. d.Cursor + Len(flat[0]) = d.Cursor /\ Whole(d, flat[0])
    BY <2>1 DEF Good, Whole
  <2>3. slice[0] = Decoder(d.Buffer, d.Cursor, FALSE, <<>>)
    BY DEF Yield, Good, SliceLoop, Decoder
  <2> HIDE DEF List
  <2>4. Decoded(d, slice[0], flat[0], List(0), All(valid, 0))
    BY <2>1, <2>2, <2>3 DEF Decoded
  <2> QED
    BY <2>4
<1>2. ASSUME NEW k \in 1 .. n, k - 1 \in S PROVE k \in S
  <2>1. /\ k - 1 \in 0 .. n /\ k \in 0 .. n
        /\ flat[k - 1] \in Seq(Bytes) /\ bytes[k] \in Seq(Bytes)
        /\ flat[k] = flat[k - 1] \o bytes[k]
    BY FlatStep
  <2>2. Decoded(d, slice[k - 1], flat[k - 1], List(k - 1), All(valid, k - 1))
    BY <1>2
  <2>3. Carries(d, flat[k])
    BY <2>1, PrefixesCarried
  <2>4. slice[k] = IF slice[k - 1].Error THEN slice[k - 1]
                   ELSE Yield(elements[k], Append(slice[k - 1].value, elements[k].value))
    BY DEF SliceLoop
  <2>5. Good(slice[k - 1]) /\ Carries(slice[k - 1], bytes[k]) =>
          Decoded(slice[k - 1], elements[k], bytes[k], xs[k], valid[k])
    BY DEF ElementsDecode
  <2>6. Append(List(k - 1), xs[k]) = List(k)
    BY AppendNext
  <2>7. /\ valid[k] \in BOOLEAN /\ All(valid, k - 1) \in BOOLEAN /\ All(valid, k) \in BOOLEAN
        /\ All(valid, k) <=> All(valid, k - 1) /\ valid[k]
    BY OneMoreValid
  <2> DEFINE v1 == All(valid, k - 1)
             v2 == valid[k]
             v  == All(valid, k)
             l1 == List(k - 1)
             x  == xs[k]
             s  == flat[k - 1]
             b  == bytes[k]
             r1 == slice[k - 1]
             e  == elements[k]
             r2 == slice[k]
  <2>9. v1 \in BOOLEAN /\ v2 \in BOOLEAN /\ v \in BOOLEAN /\ (v <=> v1 /\ v2)
    BY <2>7
  <2>10. s \in Seq(Bytes) /\ b \in Seq(Bytes) /\ flat[k] = s \o b /\ Carries(d, s \o b)
    BY <2>1, <2>3
  <2>11. Append(l1, x) = List(k)
    BY <2>6
  <2> HIDE DEF List, v1, v2, v, l1, x, s, b, r1, e, r2
  <2>12. Decoded(d, r1, s, l1, v1)
    BY <2>2 DEF l1, v1, r1, s
  <2>13. r2 = IF r1.Error THEN r1 ELSE Yield(e, Append(r1.value, e.value))
    BY <2>4 DEF r1, r2, e
  <2>14. Good(r1) /\ Carries(r1, b) => Decoded(r1, e, b, x, v2)
    BY <2>5 DEF r1, b, e, x, v2
  <2>15. Decoded(d, r2, s \o b, Append(l1, x), v)
    BY <2>9, <2>10, <2>12, <2>13, <2>14, LoopStep
  <2>16. Decoded(d, slice[k], flat[k], List(k), All(valid, k))
    BY <2>10, <2>11, <2>15 DEF r2, v
  <2> QED
    BY <2>1, <2>16
<1> HIDE DEF S
<1>3. \A k \in 0 .. n : k \in S
  BY <1>1, <1>2, Flattening!Induct
<1>4. n \in S
  BY <1>3
<1>5. List(n) = xs
  OBVIOUS
<1> HIDE DEF List
<1>6. Decoded(d, slice[n], flat[n], List(n), All(valid, n))
  BY <1>4 DEF S
<1>7. Decoded(d, slice[n], flat[n], xs, All(valid, n))
  BY <1>5, <1>6
<1> QED
  BY <1>7 DEF Decoded

(* r is what the loop of a slice makes of the decoder d behind the count,    *)
(* whatever the count is; if the count is n, the bytes decode to xs.        *)
SliceOf(d, r, bytes, xs, valid, n) ==
  \A m \in Nat : d.value = m =>
    \E slice, elements :
      /\ SliceLoop(slice, elements, d, m)
      /\ r = slice[m]
      /\ m = n => ElementsDecode(slice, elements, bytes, xs, valid, n)

(* From d to r the bytes s become x, if they are valid; errors stay.        *)
Reads(d, r, s, x, valid) ==
  /\ s \in Seq(Bytes)
  /\ Good(d) /\ Carries(d, s) => Decoded(d, r, s, x, valid)
  /\ d.Error => r.Error

(* A slice is its count and its elements, one after the other.              *)
LEMMA SliceReads ==
  ASSUME NEW d, NEW r, NEW X, NEW n \in Nat, NEW xs \in [1 .. n -> X],
         NEW bytes \in [1 .. n -> Seq(Bytes)], NEW valid \in [1 .. n -> BOOLEAN],
         NEW all \in BOOLEAN, all <=> All(valid, n),
         n < UINT16, SliceOf(DecodeParameter_Uint16(d), r, bytes, xs, valid, n)
  PROVE  Reads(d, r, EncodeParameter_Uint16(n) \o FlattenSeq(bytes), xs, all)
<1> DEFINE c  == EncodeParameter_Uint16(n)
           f  == FlattenSeq(bytes)
           r1 == DecodeParameter_Uint16(d)
<1>1. PICK flat : Flat(flat, bytes, n) /\ f = flat[n]
  BY Flattened, Widths
<1>2. n \in 0 .. UINT16 - 1 /\ c \in Seq(Bytes) /\ f \in Seq(Bytes)
  BY <1>1, Uint16Bytes, Widths DEF Flat
<1>3. (r1.Error => r1.value = 0) /\ (d.Error => r1.Error)
  BY DEF DecodeParameter_Uint16, DecodeBytes, CanDecodeParameter, Fail, Decoder
<1> HIDE DEF c, f, r1
<1>4. ASSUME Good(r1), Carries(r1, f), r1.value = n
      PROVE  Decoded(r1, r, f, xs, all)
  <2>1. PICK slice, elements : /\ SliceLoop(slice, elements, r1, n) /\ r = slice[n]
                               /\ ElementsDecode(slice, elements, bytes, xs, valid, n)
    BY <1>4 DEF SliceOf, r1
  <2>2. /\ Good(r1) /\ Flat(flat, bytes, n) /\ Carries(r1, flat[n])
        /\ SliceLoop(slice, elements, r1, n)
        /\ ElementsDecode(slice, elements, bytes, xs, valid, n)
    BY <1>1, <1>4, <2>1
  <2>3. Decoded(r1, slice[n], flat[n], xs, all)
    BY <2>2, LoopDecodes
  <2> QED
    BY <1>1, <2>1, <2>3
<1>5. r1.Error => r.Error
  <2> SUFFICES ASSUME r1.Error PROVE r.Error
    OBVIOUS
  <2>1. r1.value = 0
    BY <1>3
  <2>2. PICK slice, elements : SliceLoop(slice, elements, r1, 0) /\ r = slice[0]
    BY <2>1 DEF SliceOf, r1
  <2>3. r = Yield(r1, <<>>)
    BY <2>2 DEF SliceLoop
  <2> QED
    BY <2>3 DEF Yield, Decoder
<1>6. ASSUME Good(d), Carries(d, c \o f)
      PROVE  Decoded(d, r, c \o f, xs, all)
  <2>1. Decoded(d, r1, c, n, TRUE)
    <3>1. Carries(d, c)
      BY <1>2, <1>6, FirstOfTwo
    <3> QED
      BY <1>2, <1>6, <3>1, Uint16Decodes DEF c, r1
  <2>2. Good(r1) /\ Carries(r1, f) /\ r1.value = n => Decoded(r1, r, f, xs, all)
    BY <1>4
  <2> QED
    BY <1>2, <1>5, <1>6, <2>1, <2>2, Chain
<1>7. c \o f \in Seq(Bytes)
  BY <1>2, Concatenation
<1>8. Reads(d, r, c \o f, xs, all)
  BY <1>3, <1>5, <1>6, <1>7 DEF Reads
<1> QED
  BY <1>8 DEF c, f

-----------------------------------------------------------------------------
(* The slices of the messages. Each is the loop of its element's decoder.   *)

StepText(d, i, before) ==
  IF before.Error THEN before
  ELSE Yield(DecodeParameter_String16(before),
             Append(before.value, DecodeParameter_String16(before).value))

SlicingText == INSTANCE Recursion WITH Step <- StepText

(* DecodeParameter__Slice16_String16 is such a loop.                       *)
LEMMA TextSlice ==
  ASSUME NEW d, NEW bytes, NEW xs, NEW valid, NEW n \in Nat,
         \A e : \A i \in 1 .. n : Good(e) /\ Carries(e, bytes[i]) =>
           Decoded(e, DecodeParameter_String16(e), bytes[i], xs[i], valid[i])
  PROVE  SliceOf(DecodeParameter_Uint16(d), DecodeParameter__Slice16_String16(d), bytes, xs, valid, n)
<1> DEFINE count == DecodeParameter_Uint16(d)
           slice == CHOOSE f : SlicingText!Recursive(f, d, Yield(count, <<>>), count.value)
<1>1. DecodeParameter__Slice16_String16(d) = slice[count.value]
  BY DEF DecodeParameter__Slice16_String16, DecodeParameter__Slice16, StepText, SlicingText!Recursive
<1> HIDE DEF count
<1> SUFFICES ASSUME NEW m \in Nat, count.value = m
             PROVE  \E s, elements :
                      /\ SliceLoop(s, elements, count, m) /\ DecodeParameter__Slice16_String16(d) = s[m]
                      /\ m = n => ElementsDecode(s, elements, bytes, xs, valid, n)
  BY DEF SliceOf, count
<1>2. SlicingText!Loop(slice, d, Yield(count, <<>>), m)
  BY SlicingText!Defined
<1> HIDE DEF slice
<1> DEFINE elements == [i \in 1 .. m |-> DecodeParameter_String16(slice[i - 1])]
<1>3. \A i \in 1 .. m : elements[i] = DecodeParameter_String16(slice[i - 1])
  OBVIOUS
<1> HIDE DEF elements
<1>4. SliceLoop(slice, elements, count, m)
  BY <1>2, <1>3 DEF SliceLoop, SlicingText!Loop, StepText
<1>5. m = n => ElementsDecode(slice, elements, bytes, xs, valid, n)
  BY <1>3 DEF ElementsDecode
<1> QED
  BY <1>1, <1>4, <1>5

StepUint32(d, i, before) ==
  IF before.Error THEN before
  ELSE Yield(DecodeParameter_Uint32(before),
             Append(before.value, DecodeParameter_Uint32(before).value))

SlicingUint32 == INSTANCE Recursion WITH Step <- StepUint32

(* DecodeParameter__Slice16_Uint32 is such a loop.                         *)
LEMMA Uint32Slice ==
  ASSUME NEW d, NEW bytes, NEW xs, NEW valid, NEW n \in Nat,
         \A e : \A i \in 1 .. n : Good(e) /\ Carries(e, bytes[i]) =>
           Decoded(e, DecodeParameter_Uint32(e), bytes[i], xs[i], valid[i])
  PROVE  SliceOf(DecodeParameter_Uint16(d), DecodeParameter__Slice16_Uint32(d), bytes, xs, valid, n)
<1> DEFINE count == DecodeParameter_Uint16(d)
           slice == CHOOSE f : SlicingUint32!Recursive(f, d, Yield(count, <<>>), count.value)
<1>1. DecodeParameter__Slice16_Uint32(d) = slice[count.value]
  BY DEF DecodeParameter__Slice16_Uint32, DecodeParameter__Slice16, StepUint32, SlicingUint32!Recursive
<1> HIDE DEF count
<1> SUFFICES ASSUME NEW m \in Nat, count.value = m
             PROVE  \E s, elements :
                      /\ SliceLoop(s, elements, count, m) /\ DecodeParameter__Slice16_Uint32(d) = s[m]
                      /\ m = n => ElementsDecode(s, elements, bytes, xs, valid, n)
  BY DEF SliceOf, count
<1>2. SlicingUint32!Loop(slice, d, Yield(count, <<>>), m)
  BY SlicingUint32!Defined
<1> HIDE DEF slice
<1> DEFINE elements == [i \in 1 .. m |-> DecodeParameter_Uint32(slice[i - 1])]
<1>3. \A i \in 1 .. m : elements[i] = DecodeParameter_Uint32(slice[i - 1])
  OBVIOUS
<1> HIDE DEF elements
<1>4. SliceLoop(slice, elements, count, m)
  BY <1>2, <1>3 DEF SliceLoop, SlicingUint32!Loop, StepUint32
<1>5. m = n => ElementsDecode(slice, elements, bytes, xs, valid, n)
  BY <1>3 DEF ElementsDecode
<1> QED
  BY <1>1, <1>4, <1>5

StepOption(d, i, before) ==
  IF before.Error THEN before
  ELSE Yield(Option_PtyProxy(before), Append(before.value, Option_PtyProxy(before).value))

SlicingOption == INSTANCE Recursion WITH Step <- StepOption

(* OptionBatch_PtyProxy is such a loop.                                    *)
LEMMA OptionSlice ==
  ASSUME NEW d, NEW bytes, NEW xs, NEW valid, NEW n \in Nat,
         \A e : \A i \in 1 .. n : Good(e) /\ Carries(e, bytes[i]) =>
           Decoded(e, Option_PtyProxy(e), bytes[i], xs[i], valid[i])
  PROVE  SliceOf(DecodeParameter_Uint16(d), OptionBatch_PtyProxy(d), bytes, xs, valid, n)
<1> DEFINE count == DecodeParameter_Uint16(d)
           slice == CHOOSE f : SlicingOption!Recursive(f, d, Yield(count, <<>>), count.value)
<1>1. OptionBatch_PtyProxy(d) = slice[count.value]
  BY DEF OptionBatch_PtyProxy, DecodeParameter__Slice16, StepOption, SlicingOption!Recursive
<1> HIDE DEF count
<1> SUFFICES ASSUME NEW m \in Nat, count.value = m
             PROVE  \E s, elements :
                      /\ SliceLoop(s, elements, count, m) /\ OptionBatch_PtyProxy(d) = s[m]
                      /\ m = n => ElementsDecode(s, elements, bytes, xs, valid, n)
  BY DEF SliceOf, count
<1>2. SlicingOption!Loop(slice, d, Yield(count, <<>>), m)
  BY SlicingOption!Defined
<1> HIDE DEF slice
<1> DEFINE elements == [i \in 1 .. m |-> Option_PtyProxy(slice[i - 1])]
<1>3. \A i \in 1 .. m : elements[i] = Option_PtyProxy(slice[i - 1])
  OBVIOUS
<1> HIDE DEF elements
<1>4. SliceLoop(slice, elements, count, m)
  BY <1>2, <1>3 DEF SliceLoop, SlicingOption!Loop, StepOption
<1>5. m = n => ElementsDecode(slice, elements, bytes, xs, valid, n)
  BY <1>3 DEF ElementsDecode
<1> QED
  BY <1>1, <1>4, <1>5

DecodeParameter__Slice16_LayoutEntry(d) == DecodeParameter__Slice16(d, LayoutEntry)

StepEntry(d, i, before) ==
  IF before.Error THEN before
  ELSE Yield(LayoutEntry(before), Append(before.value, LayoutEntry(before).value))

SlicingEntry == INSTANCE Recursion WITH Step <- StepEntry

(* The slice of a layout's entries is such a loop.                         *)
LEMMA EntrySlice ==
  ASSUME NEW d, NEW bytes, NEW xs, NEW valid, NEW n \in Nat,
         \A e : \A i \in 1 .. n : Good(e) /\ Carries(e, bytes[i]) =>
           Decoded(e, LayoutEntry(e), bytes[i], xs[i], valid[i])
  PROVE  SliceOf(DecodeParameter_Uint16(d), DecodeParameter__Slice16_LayoutEntry(d), bytes, xs, valid, n)
<1> DEFINE count == DecodeParameter_Uint16(d)
           slice == CHOOSE f : SlicingEntry!Recursive(f, d, Yield(count, <<>>), count.value)
<1>1. DecodeParameter__Slice16_LayoutEntry(d) = slice[count.value]
  BY DEF DecodeParameter__Slice16_LayoutEntry, DecodeParameter__Slice16, StepEntry, SlicingEntry!Recursive
<1> HIDE DEF count
<1> SUFFICES ASSUME NEW m \in Nat, count.value = m
             PROVE  \E s, elements :
                      /\ SliceLoop(s, elements, count, m) /\ DecodeParameter__Slice16_LayoutEntry(d) = s[m]
                      /\ m = n => ElementsDecode(s, elements, bytes, xs, valid, n)
  BY DEF SliceOf, count
<1>2. SlicingEntry!Loop(slice, d, Yield(count, <<>>), m)
  BY SlicingEntry!Defined
<1> HIDE DEF slice
<1> DEFINE elements == [i \in 1 .. m |-> LayoutEntry(slice[i - 1])]
<1>3. \A i \in 1 .. m : elements[i] = LayoutEntry(slice[i - 1])
  OBVIOUS
<1> HIDE DEF elements
<1>4. SliceLoop(slice, elements, count, m)
  BY <1>2, <1>3 DEF SliceLoop, SlicingEntry!Loop, StepEntry
<1>5. m = n => ElementsDecode(slice, elements, bytes, xs, valid, n)
  BY <1>3 DEF ElementsDecode
<1> QED
  BY <1>1, <1>4, <1>5

-----------------------------------------------------------------------------
(* The elements of the slices.                                             *)

(* Two parameters, of which the second does not depend on the first.        *)
LEMMA InARow ==
  ASSUME NEW d, NEW r1, NEW r2, NEW x1, NEW x2,
         NEW s \in Seq(Bytes), NEW t \in Seq(Bytes), NEW valid \in BOOLEAN,
         Good(d), Carries(d, s \o t),
         Carries(d, s) => Decoded(d, r1, s, x1, TRUE),
         Good(r1) /\ Carries(r1, t) => Decoded(r1, r2, t, x2, valid),
         r1.Error => r2.Error
  PROVE  /\ Decoded(d, r2, s \o t, x2, valid)
         /\ Whole(d, s \o t) => r1.value = x1
<1>1. Decoded(d, r1, s, x1, TRUE)
  BY FirstOfTwo
<1>2. Decoded(d, r2, s \o t, x2, valid)
  BY <1>1, Chain
<1>3. Whole(d, s \o t) => r1.value = x1
  BY <1>1, FirstOfTwo DEF Decoded, Decoder
<1> QED
  BY <1>2, <1>3

(* An option is a code and a value; its code must be known.                 *)
LEMMA OptionDecodes ==
  ASSUME NEW d, NEW code \in 0 .. UINT16 - 1, NEW value \in 0 .. UINT32 - 1
  PROVE  /\ EncodeParameter_Uint16(code) \o EncodeParameter_Uint32(value) \in Seq(Bytes)
         /\ Good(d) /\ Carries(d, EncodeParameter_Uint16(code) \o EncodeParameter_Uint32(value)) =>
              Decoded(d, Option_PtyProxy(d),
                      EncodeParameter_Uint16(code) \o EncodeParameter_Uint32(value),
                      <<code, value>>, code \in OptionCodes)
         /\ d.Error => Option_PtyProxy(d).Error
<1> DEFINE s  == EncodeParameter_Uint16(code)
           t  == EncodeParameter_Uint32(value)
           r1 == DecodeParameter_Uint16(d)
           r2 == DecodeParameter_Uint32(r1)
           o  == Yield(r2, <<r1.value, r2.value>>)
           r  == Option_PtyProxy(d)
<1>1. s \in Seq(Bytes) /\ t \in Seq(Bytes) /\ s \o t \in Seq(Bytes)
  BY Uint16Bytes, Uint32Bytes, Concatenation
<1>2. r = IF r1.value \in OptionCodes THEN o ELSE Fail(o, o.value)
  BY DEF Option_PtyProxy
<1>3. (d.Error => r1.Error) /\ (r1.Error => r2.Error)
  BY ErrorStays
<1>4. Carries(d, s) /\ Good(d) => Decoded(d, r1, s, code, TRUE)
  BY Uint16Decodes
<1>5. Good(r1) /\ Carries(r1, t) => Decoded(r1, r2, t, value, TRUE)
  BY Uint32Decodes
<1> HIDE DEF s, t, r1, r2, r
<1>6. r2.Error => r.Error
  BY <1>2 DEF Fail, Yield, Decoder
<1>7. ASSUME Good(d), Carries(d, s \o t)
      PROVE  Decoded(d, r, s \o t, <<code, value>>, code \in OptionCodes)
  <2>1. Decoded(d, r2, s \o t, value, TRUE) /\ (Whole(d, s \o t) => r1.value = code)
    BY <1>1, <1>3, <1>4, <1>5, <1>7, InARow
  <2>2. CASE Whole(d, s \o t)
    <3>1. r2.value = value /\ r1.value = code
      BY <2>1, <2>2 DEF Decoded, Decoder
    <3>2. Decoded(d, o, s \o t, <<code, value>>, TRUE)
      BY <2>1, <3>1, Yielded
    <3> HIDE DEF o
    <3>3. r = IF code \in OptionCodes THEN o ELSE Fail(o, o.value)
      BY <1>2, <3>1
    <3> QED
      BY <3>2, <3>3 DEF Decoded, Fail, Decoder
  <2>3. CASE ~Whole(d, s \o t)
    BY <1>6, <2>1, <2>3 DEF Decoded
  <2> QED
    BY <2>2, <2>3
<1> QED
  BY <1>1, <1>3, <1>6, <1>7 DEF s, t, r

(* An entry of a layout is a key and a size.                                *)
LEMMA EntryDecodes ==
  ASSUME NEW d, NEW id \in 0 .. UINT32 - 1, NEW columns \in 0 .. UINT16 - 1,
         NEW rows \in 0 .. UINT16 - 1, NEW bytes,
         bytes = EncodeParameter_Uint32(id) \o EncodeParameter_Uint16(columns)
                   \o EncodeParameter_Uint16(rows)
  PROVE  /\ bytes \in Seq(Bytes)
         /\ Good(d) /\ Carries(d, bytes) =>
              Decoded(d, LayoutEntry(d), bytes, [key |-> id, value |-> <<columns, rows>>], TRUE)
         /\ d.Error => LayoutEntry(d).Error
<1> DEFINE s  == EncodeParameter_Uint32(id)
           t  == EncodeParameter_Uint16(columns)
           u  == EncodeParameter_Uint16(rows)
           r1 == DecodeParameter_Uint32(d)
           r2 == DecodeParameter_Uint16(r1)
           r3 == DecodeParameter_Uint16(r2)
           r  == LayoutEntry(d)
           x  == [key |-> id, value |-> <<columns, rows>>]
           y  == [key |-> r1.value, value |-> <<r2.value, r3.value>>]
<1>1. /\ s \in Seq(Bytes) /\ t \in Seq(Bytes) /\ u \in Seq(Bytes)
      /\ s \o t \in Seq(Bytes) /\ (s \o t) \o u \in Seq(Bytes)
  BY Uint16Bytes, Uint32Bytes, Concatenation
<1>2. bytes = (s \o t) \o u
  OBVIOUS
<1>3. r = Yield(r3, y)
  BY DEF LayoutEntry
<1>4. (d.Error => r1.Error) /\ (r1.Error => r2.Error) /\ (r2.Error => r3.Error)
  BY ErrorStays
<1>5. Good(d) /\ Carries(d, s) => Decoded(d, r1, s, id, TRUE)
  BY Uint32Decodes
<1>6. Good(r1) /\ Carries(r1, t) => Decoded(r1, r2, t, columns, TRUE)
  BY Uint16Decodes
<1>7. Good(r2) /\ Carries(r2, u) => Decoded(r2, r3, u, rows, TRUE)
  BY Uint16Decodes
<1> HIDE DEF s, t, u, r1, r2, r3, r
<1>8. ASSUME Good(d), Carries(d, (s \o t) \o u)
      PROVE  Decoded(d, r, (s \o t) \o u, x, TRUE)
  <2> DEFINE st == s \o t
  <2>1. Carries(d, st)
    BY <1>1, <1>8, FirstOfTwo
  <2>2. Decoded(d, r2, st, columns, TRUE) /\ (Whole(d, st) => r1.value = id)
    BY <1>1, <1>4, <1>5, <1>6, <1>8, <2>1, InARow
  <2>3. st \in Seq(Bytes) /\ Carries(d, st \o u)
    BY <1>1, <1>8
  <2> HIDE DEF st
  <2>4. Decoded(d, r3, st \o u, rows, TRUE) /\ (Whole(d, st \o u) => r2.value = columns)
    BY <1>1, <1>4, <1>7, <1>8, <2>2, <2>3, InARow
  <2>5. Whole(d, st \o u) => r1.value = id /\ r2.value = columns /\ r3.value = rows
    <3>1. Whole(d, st \o u) => Whole(d, st)
      BY <1>1, <1>8, <2>3, FirstOfTwo
    <3>2. Whole(d, st \o u) => r3.value = rows
      BY <2>4 DEF Decoded, Decoder
    <3> QED
      BY <2>2, <2>4, <3>1, <3>2
  <2>6. Whole(d, st \o u) => y = x
    BY <2>5
  <2> HIDE DEF x, y
  <2>7. Decoded(d, Yield(r3, y), st \o u, x, TRUE)
    BY <2>4, <2>6, Yielded
  <2> QED
    BY <1>3, <2>7 DEF st
<1>9. d.Error => r.Error
  BY <1>3, <1>4 DEF Yield, Decoder
<1> HIDE DEF x
<1> QED
  BY <1>1, <1>2, <1>8, <1>9 DEF r, x

-----------------------------------------------------------------------------
(* Layouts: maps made of entries.                                          *)

Keys(entries, n) == {entries[i].key : i \in 1 .. n}

(* Of the first n entries the map has the last one of every key.            *)
IsLayout(map, entries, n) ==
  /\ map = [key \in Keys(entries, n) |-> map[key]]
  /\ \A key \in Keys(entries, n) :
       \E i \in 1 .. n : /\ entries[i].key = key /\ map[key] = entries[i].value
                         /\ \A j \in 1 .. n : entries[j].key = key => j <= i

(* There is only one layout of given entries.                              *)
LEMMA OneLayout ==
  ASSUME NEW a, NEW b, NEW entries, NEW n \in Nat,
         IsLayout(a, entries, n), IsLayout(b, entries, n)
  PROVE  a = b
<1>1. ASSUME NEW key \in Keys(entries, n) PROVE a[key] = b[key]
  <2>1. PICK i \in 1 .. n : /\ entries[i].key = key /\ a[key] = entries[i].value
                            /\ \A k \in 1 .. n : entries[k].key = key => k <= i
    BY DEF IsLayout
  <2>2. PICK j \in 1 .. n : /\ entries[j].key = key /\ b[key] = entries[j].value
                            /\ \A k \in 1 .. n : entries[k].key = key => k <= j
    BY DEF IsLayout
  <2>3. i = j
    BY <2>1, <2>2
  <2> QED
    BY <2>1, <2>2, <2>3
<1>2. a = [key \in Keys(entries, n) |-> a[key]] /\ b = [key \in Keys(entries, n) |-> b[key]]
  BY DEF IsLayout
<1> QED
  BY <1>1, <1>2

(* Putting one entry more.                                                 *)
LEMMA PutStep ==
  ASSUME NEW map, NEW entries, NEW k \in Nat, k >= 1, IsLayout(map, entries, k - 1)
  PROVE  IsLayout(Put(map, entries[k]), entries, k)
<1> DEFINE e   == entries[k]
           put == Put(map, e)
<1>1. Keys(entries, k) = Keys(entries, k - 1) \cup {e.key}
  <2>1. 1 .. k = (1 .. k - 1) \cup {k}
    OBVIOUS
  <2> QED
    BY <2>1 DEF Keys
<1>2. DOMAIN map = Keys(entries, k - 1)
  BY DEF IsLayout
<1>3. put = [key \in Keys(entries, k) |-> IF key = e.key THEN e.value ELSE map[key]]
  BY <1>1, <1>2 DEF Put
<1> HIDE DEF put
<1>4. /\ put = [key \in Keys(entries, k) |-> put[key]]
      /\ \A key \in Keys(entries, k) : put[key] = IF key = e.key THEN e.value ELSE map[key]
  BY <1>3
<1>5. ASSUME NEW key \in Keys(entries, k)
      PROVE  \E i \in 1 .. k : /\ entries[i].key = key /\ put[key] = entries[i].value
                               /\ \A j \in 1 .. k : entries[j].key = key => j <= i
  <2>1. CASE key = e.key
    <3>1. /\ k \in 1 .. k /\ entries[k].key = key /\ put[key] = entries[k].value
          /\ \A j \in 1 .. k : entries[j].key = key => j <= k
      BY <1>4, <2>1
    <3> QED
      BY <3>1
  <2>2. CASE key # e.key
    <3>1. key \in Keys(entries, k - 1) /\ put[key] = map[key]
      BY <1>1, <1>4, <2>2
    <3>2. PICK i \in 1 .. k - 1 : /\ entries[i].key = key /\ map[key] = entries[i].value
                                  /\ \A j \in 1 .. k - 1 : entries[j].key = key => j <= i
      BY <3>1 DEF IsLayout
    <3>3. \A j \in 1 .. k : entries[j].key = key => j <= i
      <4>1. \A j \in 1 .. k : j \in 1 .. k - 1 \/ j = k
        OBVIOUS
      <4> QED
        BY <2>2, <3>2, <4>1
    <3>4. i \in 1 .. k
      OBVIOUS
    <3> QED
      BY <3>1, <3>2, <3>3, <3>4
  <2> QED
    BY <2>1, <2>2
<1>6. IsLayout(put, entries, k)
  BY <1>4, <1>5 DEF IsLayout
<1> QED
  BY <1>6 DEF put

StepPut(entries, i, before) == Put(before, entries[i])

Putting == INSTANCE Recursion WITH Step <- StepPut

EmptyMap == [key \in {} |-> 0]

(* The loop of the map makes the layout of all entries.                     *)
LEMMA PutAll ==
  ASSUME NEW map, NEW entries, NEW n \in Nat, Putting!Loop(map, entries, EmptyMap, n)
  PROVE  IsLayout(map[n], entries, n)
<1> DEFINE S == {k \in 0 .. n : IsLayout(map[k], entries, k)}
<1>1. 0 \in S
  <2>1. Keys(entries, 0) = {}
    BY DEF Keys
  <2>2. map[0] = EmptyMap
    BY DEF Putting!Loop
  <2>3. IsLayout(EmptyMap, entries, 0)
    BY <2>1 DEF IsLayout, EmptyMap
  <2> QED
    BY <2>2, <2>3
<1>2. ASSUME NEW k \in 1 .. n, k - 1 \in S PROVE k \in S
  <2>1. map[k] = Put(map[k - 1], entries[k])
    BY DEF Putting!Loop, StepPut
  <2>2. IsLayout(map[k - 1], entries, k - 1)
    BY <1>2
  <2>3. IsLayout(Put(map[k - 1], entries[k]), entries, k)
    BY <2>2, PutStep
  <2> QED
    BY <2>1, <2>3
<1> HIDE DEF S
<1>3. \A k \in 0 .. n : k \in S
  BY <1>1, <1>2, Putting!Induct
<1>4. n \in S
  BY <1>3
<1> QED
  BY <1>4 DEF S

(* A layout is decoded from its entries.                                   *)
LEMMA LayoutDecodes ==
  ASSUME NEW d, NEW s, NEW entries, NEW layout, NEW X, NEW n \in Nat,
         entries \in [1 .. n -> X], IsLayout(layout, entries, n),
         Decoded(d, DecodeParameter__Slice16_LayoutEntry(d), s, entries, TRUE)
  PROVE  Decoded(d, OrderBatch_LayoutUpdate(d), s, layout, TRUE)
<1> DEFINE r   == DecodeParameter__Slice16_LayoutEntry(d)
           map == CHOOSE f : Putting!Recursive(f, r.value, EmptyMap, Len(r.value))
           m   == map[Len(r.value)]
<1>1. OrderBatch_LayoutUpdate(d) = Yield(r, m)
  BY DEF OrderBatch_LayoutUpdate, DecodeParameter__Map16, DecodeParameter__Slice16_LayoutEntry,
         Putting!Recursive, StepPut, EmptyMap
<1> HIDE DEF r
<1>2. ASSUME Whole(d, s) PROVE m = layout
  <2>1. r.value = entries
    BY <1>2 DEF Decoded, Decoder, r
  <2>2. Len(r.value) = n
    BY <2>1
  <2>3. m = (CHOOSE f : Putting!Recursive(f, entries, EmptyMap, n))[n]
    BY <2>1, <2>2
  <2> HIDE DEF m
  <2>4. Putting!Loop(CHOOSE f : Putting!Recursive(f, entries, EmptyMap, n), entries, EmptyMap, n)
    BY Putting!Defined
  <2> DEFINE g == CHOOSE f : Putting!Recursive(f, entries, EmptyMap, n)
  <2> HIDE DEF g
  <2>5. IsLayout(g[n], entries, n)
    BY <2>4, PutAll DEF g
  <2>6. g[n] = layout
    BY <2>5, OneLayout
  <2> QED
    BY <2>3, <2>6 DEF g
<1> HIDE DEF m
<1>3. Decoded(d, Yield(r, m), s, layout, TRUE)
  BY <1>2, Yielded DEF r
<1> QED
  BY <1>1, <1>3

(* An error among the entries is one of the layout.                        *)
LEMMA LayoutErrorStays ==
  ASSUME NEW d, DecodeParameter__Slice16_LayoutEntry(d).Error
  PROVE  OrderBatch_LayoutUpdate(d).Error
<1> DEFINE r == DecodeParameter__Slice16_LayoutEntry(d)
<1>1. \E m : OrderBatch_LayoutUpdate(d) = Yield(r, m)
  BY DEF OrderBatch_LayoutUpdate, DecodeParameter__Map16, DecodeParameter__Slice16_LayoutEntry
<1> HIDE DEF r
<1> QED
  BY <1>1 DEF Yield, Decoder, r

-----------------------------------------------------------------------------
(* From decoder to decoder.                                                *)

(* DecodeParameter_Uint8 reads one byte.                                   *)
LEMMA Uint8Reads ==
  ASSUME NEW d, NEW n \in Bytes
  PROVE  Reads(d, DecodeParameter_Uint8(d), EncodeParameter_Uint8(n), n, TRUE)
<1>1. EncodeParameter_Uint8(n) \in Seq(Bytes)
  BY DEF EncodeParameter_Uint8
<1> QED
  BY <1>1, Uint8Decodes, ErrorStays DEF Reads

(* DecodeParameter_Uint16 reads a number of two bytes.                     *)
LEMMA Uint16Reads ==
  ASSUME NEW d, NEW n \in 0 .. UINT16 - 1
  PROVE  Reads(d, DecodeParameter_Uint16(d), EncodeParameter_Uint16(n), n, TRUE)
BY Uint16Bytes, Uint16Decodes, ErrorStays DEF Reads

(* DecodeParameter_Uint32 reads a number of four bytes.                    *)
LEMMA Uint32Reads ==
  ASSUME NEW d, NEW n \in 0 .. UINT32 - 1
  PROVE  Reads(d, DecodeParameter_Uint32(d), EncodeParameter_Uint32(n), n, TRUE)
BY Uint32Bytes, Uint32Decodes, ErrorStays DEF Reads

(* DecodeParameter_Int32 reads a signed number.                            *)
LEMMA Int32Reads ==
  ASSUME NEW d, NEW n \in Int, -UINT32 <= 2 * n, 2 * n < UINT32
  PROVE  Reads(d, DecodeParameter_Int32(d), EncodeParameter_Int32(n), n, TRUE)
<1>1. n % UINT32 \in 0 .. UINT32 - 1
  BY Int32Wraps
<1>2. EncodeParameter_Int32(n) \in Seq(Bytes)
  BY <1>1, Uint32Bytes DEF EncodeParameter_Int32
<1> QED
  BY <1>2, Int32Decodes, ErrorStays DEF Reads

(* DecodeParameter_String16 reads a text.                                  *)
LEMMA String16Reads ==
  ASSUME NEW d, NEW text \in Seq(Bytes), Len(text) < UINT16
  PROVE  Reads(d, DecodeParameter_String16(d),
               EncodeParameter_Uint16(Len(text) % UINT16) \o text, text, TRUE)
<1> DEFINE s == EncodeParameter_Uint16(Len(text) % UINT16)
<1>1. Len(text) \in 0 .. UINT16 - 1 /\ Len(text) % UINT16 = Len(text)
  BY Widths
<1>2. s \in Seq(Bytes)
  BY <1>1, Uint16Bytes
<1> HIDE DEF s
<1>3. s \o text \in Seq(Bytes)
  BY <1>2, Concatenation
<1>4. Good(d) /\ Carries(d, s \o text) =>
        Decoded(d, DecodeParameter_String16(d), s \o text, text, TRUE)
  BY String16Decodes DEF s
<1>5. d.Error => DecodeParameter_String16(d).Error
  BY ErrorStays
<1>6. Reads(d, DecodeParameter_String16(d), s \o text, text, TRUE)
  BY <1>3, <1>4, <1>5 DEF Reads
<1> QED
  BY <1>6 DEF s

(* One after the other.                                                    *)
LEMMA ReadsBoth ==
  ASSUME NEW d, NEW r1, NEW r2, NEW s, NEW t, NEW x1, NEW x2,
         NEW valid1 \in BOOLEAN, NEW valid2 \in BOOLEAN, NEW valid \in BOOLEAN,
         valid <=> valid1 /\ valid2,
         Reads(d, r1, s, x1, valid1), Reads(r1, r2, t, x2, valid2)
  PROVE  Reads(d, r2, s \o t, x2, valid)
<1>1. s \in Seq(Bytes) /\ t \in Seq(Bytes) /\ s \o t \in Seq(Bytes)
  BY Concatenation DEF Reads
<1>2. (d.Error => r1.Error) /\ (r1.Error => r2.Error)
  BY DEF Reads
<1>3. Good(r1) /\ Carries(r1, t) => Decoded(r1, r2, t, x2, valid2)
  BY DEF Reads
<1>4. ASSUME Good(d), Carries(d, s \o t) PROVE Decoded(d, r2, s \o t, x2, valid)
  <2>1. Carries(d, s)
    BY <1>1, <1>4, FirstOfTwo
  <2>2. Decoded(d, r1, s, x1, valid1)
    BY <1>4, <2>1 DEF Reads
  <2> QED
    BY <1>1, <1>2, <1>3, <1>4, <2>2, Chain
<1> QED
  BY <1>1, <1>2, <1>4 DEF Reads

(* What has been read before is what was sent, if there is room for all.    *)
LEMMA ReadBefore ==
  ASSUME NEW d, NEW r, NEW s, NEW t \in Seq(Bytes), NEW x, NEW valid \in BOOLEAN,
         Reads(d, r, s, x, valid), valid, Good(d), Carries(d, s \o t), Whole(d, s \o t)
  PROVE  Carries(d, s) /\ Whole(d, s) /\ r.value = x
<1>1. s \in Seq(Bytes)
  BY DEF Reads
<1>2. Carries(d, s) /\ Whole(d, s)
  BY <1>1, FirstOfTwo
<1>3. Decoded(d, r, s, x, valid)
  BY <1>2 DEF Reads
<1> QED
  BY <1>2, <1>3 DEF Decoded, Decoder
=============================================================================
