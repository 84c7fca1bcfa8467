-------------------------- MODULE Conversions_proofs --------------------------
(***************************************************************************)
(* Numbers in bytes and in texts.  What the helpers of packet.h write they *)
(* read back, for every number of values a byte may have, and no two       *)
(* counters share a nonce.  The buffers of main, for every MTU and buffer  *)
(* size that allow for each other, every size of packet and every number   *)
(* of packets.  Keys and addresses survive being printed and read.         *)
(***************************************************************************)
EXTENDS DataPath, Texts, WellFoundedInduction, TLAPS

(* The helpers. *)

\* A shift by one byte and the byte shifted out are quotient and remainder.
LEMMA ShrDigit ==
    ASSUME NEW v \in Nat
    PROVE  /\ Shr(v) \in Nat
           /\ Digit(v) \in 0..(BYTE - 1)
           /\ v = Digit(v) + BYTE * Shr(v)
BY ByteAssumption, SMTT(30) DEF Shr, Digit

\* A number below BYTE * m is below m after the shift.
LEMMA ShrBound ==
    ASSUME NEW v \in Nat, NEW m \in Nat, v < BYTE * m
    PROVE  Shr(v) < m
<1>1. /\ Shr(v) \in Nat
      /\ Digit(v) \in 0..(BYTE - 1)
      /\ v = Digit(v) + BYTE * Shr(v)
  BY ShrDigit, Zenon
<1>2. SUFFICES ASSUME m <= Shr(v) PROVE FALSE
  BY <1>1
<1>3. PICK r \in Nat : Shr(v) = m + r
  <2>1. Shr(v) - m \in Nat
    BY <1>1, <1>2
  <2> QED
    BY <2>1, <1>1
<1>4. BYTE * Shr(v) = BYTE * m + BYTE * r
  BY <1>3, ByteAssumption
<1>5. BYTE * r \in Nat /\ BYTE * m \in Nat
  BY <1>3, ByteAssumption
<1> QED
  BY <1>1, <1>4, <1>5

\* Multiplication distributes over a number with a tail.
LEMMA Scale ==
    ASSUME NEW k \in Nat, NEW x \in Nat, NEW y \in Nat, NEW z \in Nat, NEW w,
           w = x + y * z
    PROVE  k * w = k * x + (k * y) * z
<1>1. k * (x + y * z) = k * x + k * (y * z)
  <2>1. \A s \in Nat : k * (x + s) = k * x + k * s
    OBVIOUS
  <2>2. y * z \in Nat
    OBVIOUS
  <2> QED
    BY <2>1, <2>2, Zenon
<1>2. k * (y * z) = (k * y) * z
  OBVIOUS
<1> QED
  BY <1>1, <1>2, Zenon

\* Four bytes put together again are what they were taken from, but for the
\* part above them.
LEMMA FourDigits ==
    ASSUME NEW v \in Nat
    PROVE  LET high == Shr(Shr(Shr(Shr(v))))
           IN  /\ high \in Nat
               /\ Number4(Low4(v)[1], Low4(v)[2], Low4(v)[3], Low4(v)[4]) \in Nat
               /\ v = Number4(Low4(v)[1], Low4(v)[2], Low4(v)[3], Low4(v)[4])
                          + Word32 * high
<1> DEFINE a == Shr(v)
           b == Shr(a)
           c == Shr(b)
           d == Shr(c)
<1>1. a \in Nat /\ b \in Nat /\ c \in Nat /\ d \in Nat
  BY ShrDigit, Zenon
<1>2. /\ Digit(v) \in Nat /\ Digit(a) \in Nat /\ Digit(b) \in Nat /\ Digit(c) \in Nat
  BY <1>1, ShrDigit, ByteAssumption
<1>3. /\ v = Digit(v) + BYTE * a
      /\ a = Digit(a) + BYTE * b
      /\ b = Digit(b) + BYTE * c
      /\ c = Digit(c) + BYTE * d
  BY <1>1, ShrDigit, Zenon
<1>4. Low4(v)[1] = Digit(v) /\ Low4(v)[2] = Digit(a) /\ Low4(v)[3] = Digit(b)
          /\ Low4(v)[4] = Digit(c)
  BY Zenon DEF Low4
<1> HIDE DEF a, b, c, d
<1> DEFINE B2 == BYTE * BYTE
           B3 == BYTE * B2
           B4 == BYTE * B3
           c0 == Digit(c)
           b0 == Digit(b) + BYTE * c0
           a0 == Digit(a) + BYTE * b0
<1>5. B2 \in Nat /\ B3 \in Nat /\ BYTE \in Nat
  BY ByteAssumption
<1>6. c0 \in Nat /\ b0 \in Nat /\ a0 \in Nat
  BY <1>2, <1>5
<1>7. c = c0 + BYTE * d
  BY <1>3, Zenon
<1>8. b = b0 + B2 * d
  <2>1. BYTE * c = BYTE * c0 + B2 * d
    BY <1>1, <1>5, <1>6, <1>7, Scale
  <2> QED
    BY <2>1, <1>1, <1>2, <1>3, <1>5, <1>6
<1>9. a = a0 + B3 * d
  <2>1. BYTE * b = BYTE * b0 + B3 * d
    <3> HIDE DEF b0, B2
    <3> QED
      BY <1>1, <1>5, <1>6, <1>8, Scale
  <2>2. BYTE * b0 \in Nat /\ B3 * d \in Nat
    <3> HIDE DEF b0, B3
    <3> QED
      BY <1>1, <1>5, <1>6
  <2> HIDE DEF b0, B3
  <2> QED
    BY <2>1, <2>2, <1>2, <1>3 DEF a0
<1>10. v = Digit(v) + BYTE * a0 + B4 * d
  <2>1. BYTE * a = BYTE * a0 + B4 * d
    <3> HIDE DEF a0, B3
    <3> QED
      BY <1>1, <1>5, <1>6, <1>9, Scale
  <2>2. BYTE * a0 \in Nat /\ B4 * d \in Nat
    <3> HIDE DEF a0, B3
    <3>1. B4 \in Nat
      BY <1>5
    <3> HIDE DEF B4
    <3> QED
      BY <1>1, <1>5, <1>6, <3>1
  <2> HIDE DEF a0, B4
  <2> QED
    BY <2>1, <2>2, <1>2, <1>3
<1>11. Number4(Low4(v)[1], Low4(v)[2], Low4(v)[3], Low4(v)[4]) = Digit(v) + BYTE * a0
  BY <1>4, Zenon DEF Number4
<1>12. B4 = Word32
  BY ByteAssumption DEF Word32
<1>13. Digit(v) + BYTE * a0 \in Nat
  <2> HIDE DEF a0
  <2> QED
    BY <1>2, <1>5, <1>6
<1>14. v = Number4(Low4(v)[1], Low4(v)[2], Low4(v)[3], Low4(v)[4]) + Word32 * d
  <2> HIDE DEF a0, B4
  <2> QED
    BY <1>10, <1>11, <1>12, Zenon
<1> QED
  BY <1>1, <1>11, <1>13, <1>14, Zenon DEF a, b, c, d

\* Nothing is left of a number below Word32 * m but a number below m when four
\* bytes are gone.
LEMMA HighBound ==
    ASSUME NEW v \in Nat, NEW m \in Nat, v < Word32 * m
    PROVE  Shr(Shr(Shr(Shr(v)))) < m
<1>1. /\ Shr(v) \in Nat /\ Shr(Shr(v)) \in Nat /\ Shr(Shr(Shr(v))) \in Nat
  BY ShrDigit, Zenon
<1>2. /\ BYTE * m \in Nat /\ BYTE * (BYTE * m) \in Nat /\ BYTE * (BYTE * (BYTE * m)) \in Nat
  BY ByteAssumption
<1>3. Word32 * m = BYTE * (BYTE * (BYTE * (BYTE * m)))
  BY ByteAssumption DEF Word32
<1>4. Shr(v) < BYTE * (BYTE * (BYTE * m))
  BY <1>2, <1>3, ShrBound, Zenon
<1>5. Shr(Shr(v)) < BYTE * (BYTE * m)
  BY <1>1, <1>2, <1>4, ShrBound, Zenon
<1>6. Shr(Shr(Shr(v))) < BYTE * m
  BY <1>1, <1>2, <1>5, ShrBound, Zenon
<1> QED
  BY <1>1, <1>6, ShrBound, Zenon

\* A number of four bytes is put together again from them.
LEMMA Low4Exact ==
    ASSUME NEW v \in 0..(Word32 - 1)
    PROVE  Number4(Low4(v)[1], Low4(v)[2], Low4(v)[3], Low4(v)[4]) = v
<1>1. Word32 \in Nat
  BY ByteAssumption DEF Word32
<1>2. v \in Nat /\ v < Word32 * 1
  BY <1>1
<1>3. Shr(Shr(Shr(Shr(v)))) \in Nat /\ Shr(Shr(Shr(Shr(v)))) < 1
  BY <1>2, HighBound, FourDigits, Zenon
<1>4. v = Number4(Low4(v)[1], Low4(v)[2], Low4(v)[3], Low4(v)[4]) + Word32 * 0
  <2>1. Shr(Shr(Shr(Shr(v)))) = 0
    BY <1>3
  <2> QED
    BY <2>1, <1>2, FourDigits, Zenon
<1>5. Number4(Low4(v)[1], Low4(v)[2], Low4(v)[3], Low4(v)[4]) \in Nat
  BY <1>2, FourDigits, Zenon
<1> QED
  BY <1>1, <1>4, <1>5

\* le32_read of the bytes that le32_write wrote is the number written.
THEOREM Le32RoundTrip ==
    ASSUME NEW o, NEW v \in 0..(Word32 - 1)
    PROVE  le32_read(le32_write(o, v)) = v
<1>1. \A k \in 0..3 : Value(le32_write(o, v)[k]) = Low4(v)[k + 1]
  BY Zenon DEF le32_write, Value
<1>2. le32_read(le32_write(o, v)) = Number4(Low4(v)[1], Low4(v)[2], Low4(v)[3], Low4(v)[4])
  BY <1>1 DEF le32_read
<1> QED
  BY <1>2, Low4Exact, Zenon

\* le64_read of the bytes that le64_write wrote is the number written.
THEOREM Le64RoundTrip ==
    ASSUME NEW o, NEW v \in 0..(Word64 - 1)
    PROVE  le64_read(le64_write(o, v)) = v
<1> DEFINE p == le64_write(o, v)
           h == Shr(Shr(Shr(Shr(v))))
<1>1. Word32 \in Nat /\ Word64 = Word32 * Word32 /\ Word64 \in Nat
  <2>1. Word32 \in Nat
    BY ByteAssumption DEF Word32
  <2> QED
    BY <2>1 DEF Word64
<1>2. v \in Nat /\ v < Word32 * Word32
  BY <1>1
<1>3. h \in 0..(Word32 - 1)
  BY <1>1, <1>2, HighBound, FourDigits
<1>4. /\ \A k \in 0..3 : Value(p[k]) = Low4(v)[k + 1]
      /\ \A k \in 0..3 : Value(p[k + 4]) = High4(v)[k + 1]
  BY DEF le64_write, Value
<1>5. le32_read(p) = Number4(Low4(v)[1], Low4(v)[2], Low4(v)[3], Low4(v)[4])
  BY <1>4 DEF le32_read
<1>6. le32_read(At(p, 4, 4)) = Number4(Low4(h)[1], Low4(h)[2], Low4(h)[3], Low4(h)[4])
  <2>1. \A k \in 0..3 : Value(At(p, 4, 4)[k]) = Low4(h)[k + 1]
    BY <1>4 DEF At, High4
  <2> HIDE DEF p, h
  <2> QED
    BY <2>1 DEF le32_read
<1>7. le32_read(At(p, 4, 4)) = h
  BY <1>3, <1>6, Low4Exact, Zenon
<1>8. v = le32_read(p) + Word32 * h
  BY <1>2, <1>5, FourDigits, Zenon
<1> QED
  BY <1>7, <1>8, Zenon DEF le64_read

\* vpn_crypto_format_nonce gives no two counters the same nonce.
THEOREM NonceInjective ==
    ASSUME NEW c \in 0..(Word64 - 1), NEW d \in 0..(Word64 - 1),
           vpn_crypto_format_nonce(c) = vpn_crypto_format_nonce(d)
    PROVE  c = d
<1>1. \A v : \A k \in 0..7 : vpn_crypto_format_nonce(v)[4 + k] = le64_write(0, v)[k]
  <2>1. ASSUME NEW v, NEW k \in 0..7
        PROVE  vpn_crypto_format_nonce(v)[4 + k] = le64_write(0, v)[k]
    <3>1. DOMAIN le64_write(0, v) = 0..7
      BY Zenon DEF le64_write
    <3>2. DOMAIN ZeroNonce = 0..11
      BY Zenon DEF ZeroNonce
    <3> QED
      BY <3>1, <3>2 DEF vpn_crypto_format_nonce, memcpy
  <2> QED
    BY <2>1, Zenon
<1>2. \A k \in 0..7 : le64_write(0, c)[k] = le64_write(0, d)[k]
  BY <1>1, Zenon
<1>3. le64_write(0, c) = le64_write(0, d)
  BY <1>2, Zenon DEF le64_write
<1> QED
  BY <1>3, Le64RoundTrip, Zenon
-----------------------------------------------------------------------------
(* The buffers. *)

\* l bytes written for packet o, and a buffer whose first l bytes are.
Source(src, o, l) ==
    /\ DOMAIN src = 0..(l - 1)
    /\ \A k \in 0..(l - 1) : Owner(src[k]) = o
Owned(buf, o, l) ==
    \A i \in 0..(l - 1) : i \in DOMAIN buf /\ Owner(buf[i]) = o

\* A write that ends inside the buffer leaves its extent alone.
LEMMA MemcpyInside ==
    ASSUME NEW m \in Nat, NEW o, NEW l \in Nat, NEW offset \in Nat, NEW buf, NEW src,
           DOMAIN buf = 0..(m - 1), Source(src, o, l), offset + l <= m
    PROVE  DOMAIN memcpy(buf, offset, src) = 0..(m - 1)
<1>1. \A k \in 0..(l - 1) : offset + k \in 0..(m - 1)
  OBVIOUS
<1> QED
  BY <1>1, Zenon DEF memcpy, Source

\* A write for packet o into a buffer whose first bytes o owns, and the same
\* where it starts no later than those end.
LEMMA MemcpyByte ==
    ASSUME NEW o, NEW l \in Nat, NEW s \in Nat, NEW offset \in Nat, NEW buf, NEW src,
           Owned(buf, o, l), Source(src, o, s),
           NEW i \in Nat, i < l \/ i - offset \in 0..(s - 1)
    PROVE  i \in DOMAIN memcpy(buf, offset, src) /\ Owner(memcpy(buf, offset, src)[i]) = o
<1> DEFINE new == memcpy(buf, offset, src)
<1>1. CASE i - offset \in 0..(s - 1)
  <2>1. i \in {offset + k : k \in DOMAIN src}
    <3>1. i = offset + (i - offset)
      OBVIOUS
    <3> QED
      BY <1>1, <3>1, Zenon DEF Source
  <2>2. i \in DOMAIN new /\ new[i] = src[i - offset]
    BY <1>1, <2>1, Zenon DEF memcpy, Source
  <2> QED
    BY <1>1, <2>2, Zenon DEF Source
<1>2. CASE i - offset \notin 0..(s - 1)
  <2>1. i \in 0..(l - 1)
    BY <1>2
  <2>2. i \in DOMAIN new /\ new[i] = buf[i]
    BY <1>2, <2>1, Zenon DEF memcpy, Source, Owned
  <2> QED
    BY <2>1, <2>2, Zenon DEF Owned
<1> QED
  BY <1>1, <1>2, Zenon

\* A write for packet o takes nothing from what o owns.
LEMMA MemcpyOwned ==
    ASSUME NEW o, NEW l \in Nat, NEW s \in Nat, NEW offset \in Nat, NEW buf, NEW src,
           Owned(buf, o, l), Source(src, o, s)
    PROVE  Owned(memcpy(buf, offset, src), o, l)
<1>1. ASSUME NEW i \in 0..(l - 1)
      PROVE  i \in DOMAIN memcpy(buf, offset, src) /\ Owner(memcpy(buf, offset, src)[i]) = o
  <2>1. i \in Nat /\ i < l
    OBVIOUS
  <2> QED
    BY <2>1, MemcpyByte
<1> QED
  BY <1>1, Zenon DEF Owned

\* A write for packet o just behind what o owns adds to it.
LEMMA MemcpyExtends ==
    ASSUME NEW o, NEW l \in Nat, NEW s \in Nat, NEW buf, NEW src,
           Owned(buf, o, l), Source(src, o, s)
    PROVE  Owned(memcpy(buf, l, src), o, l + s)
<1>1. ASSUME NEW i \in 0..(l + s - 1)
      PROVE  i \in DOMAIN memcpy(buf, l, src) /\ Owner(memcpy(buf, l, src)[i]) = o
  <2>1. i \in Nat /\ (i < l \/ i - l \in 0..(s - 1))
    OBVIOUS
  <2> QED
    BY <2>1, MemcpyByte
<1> QED
  BY <1>1 DEF Owned

\* A write at the start of any buffer.
LEMMA MemcpyStart ==
    ASSUME NEW o, NEW s \in Nat, NEW buf, NEW src, Source(src, o, s)
    PROVE  Owned(memcpy(buf, 0, src), o, s)
<1>1. Owned(buf, o, 0)
  BY DEF Owned
<1>2. Owned(memcpy(buf, 0, src), o, 0 + s)
  BY <1>1, MemcpyExtends, Zenon
<1> QED
  BY <1>2

\* The sources the program copies from belong to the packet they were made for.
LEMMA Sources ==
    ASSUME NEW o, NEW l \in Nat, NEW name, NEW v, NEW type
    PROVE  /\ Source(Field(o, name, l), o, l)
           /\ Source([k \in 0..(l - 1) |-> <<o, "zero", 0>>], o, l)
           /\ Source(le32_write(o, v), o, 4)
           /\ Source(le64_write(o, v), o, 8)
           /\ Source([k \in {0} |-> <<o, "number", TypeByte[type]>>], o, 1)
BY DEF Source, Owner, Field, le32_write, le64_write

\* A part of what is owned is a source.
LEMMA PartOwned ==
    ASSUME NEW o, NEW l \in Nat, NEW offset \in Nat, NEW s \in Nat, NEW buf,
           Owned(buf, o, l), offset + s <= l
    PROVE  Source(At(buf, offset, s), o, s)
<1>1. \A k \in 0..(s - 1) : offset + k \in 0..(l - 1)
  OBVIOUS
<1> QED
  BY <1>1, Zenon DEF At, Source, Owned
-----------------------------------------------------------------------------
\* packet_serialize_data writes every byte of the packet it returns the length
\* of, from bytes of the same packet, and none behind it.
LEMMA SerialisedData ==
    ASSUME NEW o, NEW buf, NEW index, NEW counter, NEW cipher, NEW size \in Nat, NEW tag,
           Owned(cipher, o, size), Source(tag, o, 16)
    PROVE  LET net == packet_serialize_data(buf, o, index, counter, cipher, size, tag)
           IN  /\ Owned(net, o, size + 32)
               /\ DOMAIN buf = Offsets /\ size + 32 <= VPN_MAX_PACKET_SIZE
                      => DOMAIN net = Offsets
<1> DEFINE t == IF size = 0 THEN "KEEPALIVE" ELSE "DATA"
           s0 == [k \in 0..(16 - 1) |-> <<o, "zero", 0>>]
           s1 == [k \in {0} |-> <<o, "number", TypeByte[t]>>]
           s4 == At(cipher, 0, size)
           b0 == memcpy(buf, 0, s0)
           b1 == memcpy(b0, 0, s1)
           b2 == memcpy(b1, 4, le32_write(o, index))
           b3 == memcpy(b2, 8, le64_write(o, counter))
           b4 == memcpy(b3, 16, s4)
           b5 == memcpy(b4, 16 + size, tag)
<1>1. b5 = packet_serialize_data(buf, o, index, counter, cipher, size, tag)
  BY Zenon DEF packet_serialize_data, memset, PutType, P!PACKET_DATA_HEADER_LEN
<1>2. /\ Source(s0, o, 16) /\ Source(s1, o, 1)
      /\ Source(le32_write(o, index), o, 4) /\ Source(le64_write(o, counter), o, 8)
  BY Sources, Zenon
<1>3. Source(s4, o, size)
  BY PartOwned
<1> HIDE DEF s0, s1, s4
<1>4. Owned(b5, o, size + 32)
  <2>1. Owned(b0, o, 16)
    BY <1>2, MemcpyStart, Zenon
  <2> HIDE DEF b0
  <2>2. Owned(b1, o, 16)
    BY <2>1, <1>2, MemcpyOwned, Zenon
  <2> HIDE DEF b1
  <2>3. Owned(b2, o, 16)
    BY <2>2, <1>2, MemcpyOwned, Zenon
  <2> HIDE DEF b2
  <2>4. Owned(b3, o, 16)
    BY <2>3, <1>2, MemcpyOwned, Zenon
  <2> HIDE DEF b3
  <2>5. Owned(b4, o, 16 + size)
    BY <2>4, <1>3, MemcpyExtends, Zenon
  <2> HIDE DEF b4
  <2>6. Owned(b5, o, (16 + size) + 16)
    <3>1. 16 + size \in Nat
      OBVIOUS
    <3> QED
      BY <2>5, <3>1, MemcpyExtends, Zenon
  <2> QED
    BY <2>6
<1>5. ASSUME DOMAIN buf = Offsets, size + 32 <= VPN_MAX_PACKET_SIZE
      PROVE  DOMAIN b5 = Offsets
  <2> DEFINE m == VPN_MAX_PACKET_SIZE
  <2>0. m \in Nat /\ Offsets = 0..(m - 1) /\ 32 <= m
    BY <1>5, WireAssumption DEF Offsets
  <2> HIDE DEF m
  <2>1. DOMAIN b0 = 0..(m - 1)
    <3>1. DOMAIN buf = 0..(m - 1)
      BY <1>5, <2>0, Zenon
    <3> QED
      BY <1>2, <2>0, <3>1, MemcpyInside
  <2> HIDE DEF b0
  <2>2. DOMAIN b1 = 0..(m - 1)
    BY <2>1, <1>2, <2>0, MemcpyInside
  <2> HIDE DEF b1
  <2>3. DOMAIN b2 = 0..(m - 1)
    BY <2>2, <1>2, <2>0, MemcpyInside
  <2> HIDE DEF b2
  <2>4. DOMAIN b3 = 0..(m - 1)
    BY <2>3, <1>2, <2>0, MemcpyInside
  <2> HIDE DEF b3
  <2>5. DOMAIN b4 = 0..(m - 1)
    <3>1. 16 + size <= m
      BY <1>5, <2>0 DEF m
    <3> QED
      BY <2>4, <1>3, <2>0, <3>1, MemcpyInside
  <2> HIDE DEF b4
  <2>6. DOMAIN b5 = 0..(m - 1)
    <3>1. (16 + size) + 16 <= m /\ 16 + size \in Nat
      BY <1>5, <2>0 DEF m
    <3> QED
      BY <2>5, <2>0, <3>1, MemcpyInside
  <2> QED
    BY <2>0, <2>6, Zenon
<1> QED
  BY <1>1, <1>4, <1>5, Zenon

\* packet_serialize_handshake_resp writes every byte of a response.
LEMMA SerialisedResp ==
    ASSUME NEW o, NEW buf, NEW index, NEW receiver
    PROVE  Owned(packet_serialize_handshake_resp(buf, o, RespMessage(o, index, receiver)), o, 92)
<1> DEFINE s0 == [k \in 0..(92 - 1) |-> <<o, "zero", 0>>]
           s1 == [k \in {0} |-> <<o, "number", TypeByte["HANDSHAKE_RESP"]>>]
           b0 == memcpy(buf, 0, s0)
           b1 == memcpy(b0, 0, s1)
           b2 == memcpy(b1, 4, le32_write(o, index))
           b3 == memcpy(b2, 8, le32_write(o, receiver))
           b4 == memcpy(b3, 12, Field(o, "ephemeral", 32))
           b5 == memcpy(b4, 44, Field(o, "nothing", 16))
           b6 == memcpy(b5, 60, Field(o, "mac1", 16))
           b7 == memcpy(b6, 76, Field(o, "mac2", 16))
<1>1. b7 = packet_serialize_handshake_resp(buf, o, RespMessage(o, index, receiver))
  BY Zenon DEF packet_serialize_handshake_resp, memset, PutType, RespMessage, P!PACKET_HANDSHAKE_RESP_LEN
<1>2. /\ Source(s0, o, 92) /\ Source(s1, o, 1)
      /\ Source(le32_write(o, index), o, 4) /\ Source(le32_write(o, receiver), o, 4)
      /\ Source(Field(o, "ephemeral", 32), o, 32) /\ Source(Field(o, "nothing", 16), o, 16)
      /\ Source(Field(o, "mac1", 16), o, 16) /\ Source(Field(o, "mac2", 16), o, 16)
  BY Sources, Zenon
<1> HIDE DEF s0, s1
<1>3. Owned(b0, o, 92)
  BY <1>2, MemcpyStart, Zenon
<1> HIDE DEF b0
<1>4. Owned(b1, o, 92)
  BY <1>2, <1>3, MemcpyOwned, Zenon
<1> HIDE DEF b1
<1>5. Owned(b2, o, 92)
  BY <1>2, <1>4, MemcpyOwned, Zenon
<1> HIDE DEF b2
<1>6. Owned(b3, o, 92)
  BY <1>2, <1>5, MemcpyOwned, Zenon
<1> HIDE DEF b3
<1>7. Owned(b4, o, 92)
  BY <1>2, <1>6, MemcpyOwned, Zenon
<1> HIDE DEF b4
<1>8. Owned(b5, o, 92)
  BY <1>2, <1>7, MemcpyOwned, Zenon
<1> HIDE DEF b5
<1>9. Owned(b6, o, 92)
  BY <1>2, <1>8, MemcpyOwned, Zenon
<1> HIDE DEF b6
<1>10. Owned(b7, o, 92)
  BY <1>2, <1>9, MemcpyOwned, Zenon
<1> QED
  BY <1>1, <1>10, Zenon
-----------------------------------------------------------------------------
\* What the proof needs of a datagram: a length, and bytes of its own packet in
\* the ciphertext its sender made.
Wellformed(d, o) ==
    /\ d.length \in Nat
    /\ "counter" \in DOMAIN d.msg =>
           \A k \in DOMAIN d.msg.ciphertext : Owner(d.msg.ciphertext[k]) = o

NonceRecord ==
    \A p \in nonces : p[1] \in 0..(Word64 - 1) /\ p[2] = vpn_crypto_format_nonce(p[1])

\* A datagram of any length leaves net_buf as large as it is.
LEMMA ArrivalFits ==
    ASSUME WritesInside, NEW d, d.length \in Nat
    PROVE  DOMAIN NetBuf(d) = Offsets
<1>1. Received(d) \in Nat /\ Received(d) <= VPN_MAX_PACKET_SIZE
  BY WireAssumption DEF Received
<1> DEFINE src == At(d.bytes, 0, Received(d))
<1>2. DOMAIN src = 0..(Received(d) - 1)
  BY Zenon DEF At
<1>3. \A k \in 0..(Received(d) - 1) : 0 + k \in Offsets
  BY <1>1, WireAssumption DEF Offsets
<1> QED
  BY <1>2, <1>3, Zenon DEF NetBuf, memcpy, WritesInside

\* What packet_parse_data accepts is no longer than plain_buf.
LEMMA ParsedFits ==
    ASSUME NEW buf, NEW len \in Nat, packet_parse_data(buf, len).ok
    PROVE  LET parsed == packet_parse_data(buf, len)
           IN  /\ parsed.ciphertext_len \in 0..VPN_DEFAULT_INNER_MTU
               /\ DOMAIN parsed.ciphertext = 0..(parsed.ciphertext_len - 1)
               /\ parsed.ciphertext_len < VPN_MAX_PACKET_SIZE
<1>1. DataFits(len)
  BY Zenon DEF packet_parse_data, Refused
<1>2. /\ len - 32 \in 0..VPN_DEFAULT_INNER_MTU
      /\ len - 32 < VPN_MAX_PACKET_SIZE
  BY <1>1, WireAssumption DEF DataFits, P!PACKET_DATA_MIN_LEN, P!PACKET_DATA_MAX_LEN,
     P!PACKET_DATA_HEADER_LEN, P!VPN_AUTH_TAG_LEN
<1>3. /\ packet_parse_data(buf, len).ciphertext_len = len - 32
      /\ packet_parse_data(buf, len).ciphertext = At(buf, 16, len - 32)
  BY <1>1 DEF packet_parse_data, Refused, P!PACKET_DATA_MIN_LEN,
     P!PACKET_DATA_HEADER_LEN, P!VPN_AUTH_TAG_LEN
<1> QED
  BY <1>2, <1>3, Zenon DEF At
-----------------------------------------------------------------------------
\* What leaves from owned bytes is owned.
LEMMA OutOwned ==
    ASSUME NEW to, NEW buf, NEW o, NEW l \in Nat, Owned(buf, o, l)
    PROVE  \A k \in DOMAIN Out(to, buf, l).bytes : Owner(Out(to, buf, l).bytes[k]) = o
<1>1. Out(to, buf, l).bytes = At(buf, 0, l)
  BY Zenon DEF Out
<1>2. Source(At(buf, 0, l), o, l)
  BY PartOwned
<1> QED
  BY <1>1, <1>2, Zenon DEF Source

\* Nothing stale leaves when nothing leaves and nothing is looked at.
LEMMA Silence ==
    ASSUME looked' = NoBytes, output' = Nothing
    PROVE  NothingStale'
BY Zenon DEF NothingStale, NoBytes, Nothing

\* An initiation, with or without a response.
LEMMA ReceiveInitKeeps ==
    ASSUME WritesInside, NEW d, Wellformed(d, n + 1), NEW index, ReceiveInit(d, index)
    PROVE  WritesInside' /\ NothingStale'
<1>1. WritesInside'
  <2>1. /\ net_buf' = NetBuf(d)
        /\ UNCHANGED <<tun_buf, plain_buf, cipher_buf>>
    BY Zenon DEF ReceiveInit, Arrives
  <2> QED
    BY <2>1, ArrivalFits, Zenon DEF WritesInside, Wellformed
<1>2. NothingStale'
  <2> DEFINE parsed == packet_parse_handshake_init(NetBuf(d), Received(d))
             resp_packet == [i \in 0..(P!PACKET_HANDSHAKE_RESP_LEN - 1) |-> <<0, "stack", 0>>]
             resp == RespMessage(n + 1, index, parsed.sender_index)
             sent == packet_serialize_handshake_resp(resp_packet, n + 1, resp)
  <2>1. n' = n + 1 /\ looked' = NoBytes
    BY Zenon DEF ReceiveInit, Arrives
  <2>2. output' = Nothing \/ output' = Out("udp", sent, 92)
    BY Zenon DEF ReceiveInit, P!PACKET_HANDSHAKE_RESP_LEN
  <2>3. Owned(sent, n + 1, 92)
    BY SerialisedResp, Zenon
  <2> HIDE DEF sent
  <2>4. CASE output' = Nothing
    BY <2>1, <2>4, Silence, Zenon
  <2>5. CASE output' = Out("udp", sent, 92)
    BY <2>1, <2>3, <2>5, OutOwned, Zenon DEF NothingStale, NoBytes
  <2> QED
    BY <2>2, <2>4, <2>5, Zenon
<1> QED
  BY <1>1, <1>2, Zenon

\* What is decrypted and looked at or written to the device.
LEMMA DeliveredOwned ==
    ASSUME NEW o, NEW plain, NEW size \in Nat, NEW allowed, Owned(plain, o, size),
           Delivered(plain, size, allowed), n' = o
    PROVE  NothingStale'
<1>1. \A k \in DOMAIN looked' : Owner(looked'[k]) = o
  <2>1. CASE HasAddress(size)
    <3>1. size >= 20
      BY <2>1, Zenon DEF HasAddress, P!IPV4_HEADER_LEN
    <3>2. looked' = At(plain, 12, 4)
      BY <2>1, Zenon DEF Delivered
    <3>3. Source(At(plain, 12, 4), o, 4)
      BY <3>1, PartOwned
    <3> QED
      BY <3>2, <3>3, Zenon DEF Source
  <2>2. CASE ~HasAddress(size)
    BY <2>2, Zenon DEF Delivered, NoBytes
  <2> QED
    BY <2>1, <2>2, Zenon
<1>2. output' = Nothing \/ output' = Out("tun", plain, size)
  BY Zenon DEF Delivered
<1>3. CASE output' = Nothing
  BY <1>1, <1>3, Zenon DEF NothingStale, Nothing
<1>4. CASE output' = Out("tun", plain, size)
  BY <1>1, <1>4, OutOwned, Zenon DEF NothingStale
<1> QED
  BY <1>2, <1>3, <1>4, Zenon

\* Data or a keepalive: dropped, not authentic, or delivered.
LEMMA ReceiveDataKeeps ==
    ASSUME WritesInside, NEW d, Wellformed(d, n + 1), NEW allowed, ReceiveData(d, allowed)
    PROVE  WritesInside' /\ NothingStale'
<1> DEFINE parsed == packet_parse_data(NetBuf(d), Received(d))
           size == parsed.ciphertext_len
           src == Decrypted(parsed.ciphertext)
           plain == memcpy(plain_buf, 0, src)
           cleared == memset(plain_buf, n + 1, size)
<1>1. /\ net_buf' = NetBuf(d) /\ n' = n + 1
      /\ UNCHANGED <<tun_buf, cipher_buf>>
  BY Zenon DEF ReceiveData, Arrives
<1>2. Received(d) \in Nat
  BY WireAssumption, Zenon DEF Received, Wellformed
<1>3. /\ DOMAIN net_buf' = Offsets /\ DOMAIN tun_buf' = Offsets
      /\ DOMAIN cipher_buf' = Offsets
  BY <1>1, ArrivalFits, Zenon DEF WritesInside, Wellformed
<1>4. \/ looked' = NoBytes /\ output' = Nothing /\ UNCHANGED plain_buf
      \/ parsed.ok /\ looked' = NoBytes /\ output' = Nothing /\ plain_buf' = cleared
      \/ parsed.ok /\ Opens(parsed, d.msg) /\ plain_buf' = plain /\ Delivered(plain, size, allowed)
  BY Zenon DEF ReceiveData
<1>5. CASE looked' = NoBytes /\ output' = Nothing /\ UNCHANGED plain_buf
  <2>1. DOMAIN plain_buf' = Offsets
    BY <1>5, Zenon DEF WritesInside
  <2> QED
    BY <1>3, <1>5, <2>1, Silence, Zenon DEF WritesInside
<1>6. ASSUME parsed.ok
      PROVE  /\ size \in Nat /\ DOMAIN parsed.ciphertext = 0..(size - 1)
             /\ size <= VPN_MAX_PACKET_SIZE
  BY <1>2, <1>6, ParsedFits, WireAssumption
<1>7. ASSUME parsed.ok, NEW s, DOMAIN s = 0..(size - 1)
      PROVE  DOMAIN memcpy(plain_buf, 0, s) = Offsets
  <2>1. \A k \in 0..(size - 1) : 0 + k \in Offsets
    BY <1>6, <1>7, WireAssumption DEF Offsets
  <2> QED
    BY <2>1, <1>7, Zenon DEF memcpy, WritesInside
<1>8. CASE parsed.ok /\ looked' = NoBytes /\ output' = Nothing /\ plain_buf' = cleared
  <2>1. DOMAIN plain_buf' = Offsets
    BY <1>7, <1>8, Zenon DEF memset
  <2> QED
    BY <1>3, <1>8, <2>1, Silence, Zenon DEF WritesInside
<1>9. CASE /\ parsed.ok /\ Opens(parsed, d.msg) /\ plain_buf' = plain
           /\ Delivered(plain, size, allowed)
  <2>1. DOMAIN src = 0..(size - 1)
    BY <1>6, <1>9, Zenon DEF Decrypted
  <2>2. DOMAIN plain_buf' = Offsets
    BY <1>7, <1>9, <2>1, Zenon
  <2>3. Source(src, n + 1, size)
    <3>1. parsed.ciphertext = d.msg.ciphertext /\ "counter" \in DOMAIN d.msg
      BY <1>9, Zenon DEF Opens
    <3>2. \A k \in 0..(size - 1) : Owner(parsed.ciphertext[k]) = n + 1
      BY <1>6, <1>9, <3>1, Zenon DEF Wellformed
    <3>3. \A k \in 0..(size - 1) : Owner(src[k]) = Owner(parsed.ciphertext[k])
      BY <1>6, <1>9, Zenon DEF Decrypted, Owner
    <3> QED
      BY <2>1, <3>2, <3>3, Zenon DEF Source
  <2>4. Owned(plain, n + 1, size)
    BY <1>6, <1>9, <2>3, MemcpyStart, Zenon
  <2> HIDE DEF plain, size
  <2>5. NothingStale'
    BY <1>1, <1>6, <1>9, <2>4, DeliveredOwned, Zenon
  <2> QED
    BY <1>3, <2>2, <2>5, Zenon DEF WritesInside
<1> QED
  BY <1>4, <1>5, <1>8, <1>9, Zenon

\* Whatever arrives.
LEMMA ReceiveKeeps ==
    ASSUME WritesInside, NEW d, Wellformed(d, n + 1), Receive(d)
    PROVE  WritesInside' /\ NothingStale' /\ nonces' = nonces
<1>1. CASE \E number \in Numbers : ReceiveInit(d, number[1])
  BY <1>1, ReceiveInitKeeps, Zenon DEF ReceiveInit, Arrives
<1>2. CASE \E allowed \in BOOLEAN : ReceiveData(d, allowed)
  BY <1>2, ReceiveDataKeeps, Zenon DEF ReceiveData, Arrives
<1>3. CASE ReceiveOther(d)
  <2>1. /\ net_buf' = NetBuf(d) /\ UNCHANGED <<tun_buf, plain_buf, cipher_buf, nonces>>
        /\ looked' = NoBytes /\ output' = Nothing
    BY <1>3, Zenon DEF ReceiveOther, Arrives
  <2> QED
    BY <2>1, ArrivalFits, Silence, Zenon DEF WritesInside, Wellformed
<1> QED
  BY <1>1, <1>2, <1>3, Zenon DEF Receive

\* A datagram as it was sent or damaged.
LEMMA DeliversKeeps ==
    ASSUME WritesInside, NEW sort, NEW msg, NEW bytes, NEW length \in Nat \ {0},
           "counter" \in DOMAIN msg =>
               \A k \in DOMAIN msg.ciphertext : Owner(msg.ciphertext[k]) = n + 1,
           Delivers(Datagram(sort, msg, bytes, length))
    PROVE  WritesInside' /\ NothingStale' /\ nonces' = nonces
<1> DEFINE d == Datagram(sort, msg, bytes, length)
<1>1. /\ Wellformed(d, n + 1) /\ Wellformed(Cut(d), n + 1)
      /\ Wellformed(Padded(d, n + 1), n + 1)
  BY DEF Wellformed, Datagram, Cut, Padded
<1>2. \A type \in TypeNames : Wellformed(Retyped(d, n + 1, type), n + 1)
  BY Zenon DEF Wellformed, Datagram, Retyped
<1> HIDE DEF d
<1>3. CASE Receive(d)
  BY <1>1, <1>3, ReceiveKeeps, Zenon
<1>4. CASE Receive(Cut(d))
  BY <1>1, <1>4, ReceiveKeeps, Zenon
<1>5. CASE Receive(Padded(d, n + 1))
  BY <1>1, <1>5, ReceiveKeeps, Zenon
<1>6. ASSUME NEW type \in TypeNames, Receive(Retyped(d, n + 1, type))
      PROVE  WritesInside' /\ NothingStale' /\ nonces' = nonces
  BY <1>2, <1>6, ReceiveKeeps, Zenon
<1> QED
  BY <1>3, <1>4, <1>5, <1>6, Zenon DEF Delivers, d

\* A packet from the TUN device.
LEMMA ReadTunKeeps ==
    ASSUME WritesInside, NEW size \in TunSizes, NEW number, NEW routed,
           ReadTun(size, number, routed)
    PROVE  WritesInside' /\ NothingStale'
<1> DEFINE o == n + 1
           src == Field(o, "plain", size)
           buf == memcpy(tun_buf, 0, src)
           csrc == Encrypted(At(buf, 0, size))
           cipher == memcpy(cipher_buf, 0, csrc)
           tag == Field(o, "tag", P!VPN_AUTH_TAG_LEN)
           net == packet_serialize_data(net_buf, o, number[1], number[2], cipher, size, tag)
           sends == HasAddress(size) /\ routed
<1>1. /\ n' = o /\ tun_buf' = buf /\ UNCHANGED plain_buf
      /\ looked' = IF HasAddress(size) THEN At(buf, 16, 4) ELSE NoBytes
      /\ cipher_buf' = IF sends THEN cipher ELSE cipher_buf
      /\ net_buf' = IF sends /\ FitsNetBuf(size) THEN net ELSE net_buf
      /\ output' = IF sends /\ FitsNetBuf(size) THEN Out("udp", net, P!DataLength(size)) ELSE Nothing
  BY Zenon DEF ReadTun
<1>2. size \in Nat /\ size <= VPN_MAX_PACKET_SIZE
  BY DataPathAssumption, WireAssumption
<1>3. P!DataLength(size) = size + 32
  BY <1>2 DEF P!DataLength, P!PACKET_DATA_HEADER_LEN, P!VPN_AUTH_TAG_LEN
<1>4. Source(src, o, size) /\ Source(tag, o, 16)
  BY <1>2, Sources, Zenon DEF P!VPN_AUTH_TAG_LEN
<1>5. Owned(buf, o, size)
  BY <1>2, <1>4, MemcpyStart, Zenon
<1>6. Source(csrc, o, size)
  <2>1. Source(At(buf, 0, size), o, size)
    BY <1>2, <1>5, PartOwned
  <2> QED
    BY <2>1, Zenon DEF Source, Encrypted, Owner
<1>7. Owned(cipher, o, size)
  BY <1>2, <1>6, MemcpyStart, Zenon
<1>8. VPN_MAX_PACKET_SIZE \in Nat /\ Offsets = 0..(VPN_MAX_PACKET_SIZE - 1) /\ 0 + size <= VPN_MAX_PACKET_SIZE
  BY <1>2, WireAssumption DEF Offsets
<1>9. DOMAIN buf = Offsets /\ DOMAIN cipher = Offsets
  <2>1. DOMAIN tun_buf = 0..(VPN_MAX_PACKET_SIZE - 1) /\ DOMAIN cipher_buf = 0..(VPN_MAX_PACKET_SIZE - 1)
    BY <1>8, Zenon DEF WritesInside
  <2> HIDE DEF src, csrc
  <2>2. DOMAIN buf = 0..(VPN_MAX_PACKET_SIZE - 1)
    BY <1>2, <1>4, <1>8, <2>1, MemcpyInside
  <2>3. DOMAIN cipher = 0..(VPN_MAX_PACKET_SIZE - 1)
    BY <1>2, <1>6, <1>8, <2>1, MemcpyInside
  <2> QED
    BY <1>8, <2>2, <2>3, Zenon
<1> HIDE DEF buf, cipher, tag
<1>10. /\ Owned(net, o, size + 32)
       /\ size + 32 <= VPN_MAX_PACKET_SIZE => DOMAIN net = Offsets
  BY <1>2, <1>4, <1>7, SerialisedData, Zenon DEF WritesInside
<1>11. FitsNetBuf(size) => size + 32 <= VPN_MAX_PACKET_SIZE
  BY <1>3, Zenon DEF FitsNetBuf, P!FitsBuffer
<1> HIDE DEF net
<1>12. WritesInside'
  BY <1>1, <1>9, <1>10, <1>11, Zenon DEF WritesInside
<1>13. \A k \in DOMAIN looked' : Owner(looked'[k]) = o
  <2>1. CASE HasAddress(size)
    <3>1. size >= 20
      BY <2>1, Zenon DEF HasAddress, P!IPV4_HEADER_LEN
    <3>2. Source(At(buf, 16, 4), o, 4)
      BY <1>2, <1>5, <3>1, PartOwned
    <3> QED
      BY <1>1, <2>1, <3>2, Zenon DEF Source
  <2>2. CASE ~HasAddress(size)
    BY <1>1, <2>2, Zenon DEF NoBytes
  <2> QED
    BY <2>1, <2>2, Zenon
<1>14. output' = Nothing \/ output' = Out("udp", net, size + 32)
  BY <1>1, <1>3, Zenon
<1>15. \A k \in DOMAIN Out("udp", net, size + 32).bytes : Owner(Out("udp", net, size + 32).bytes[k]) = o
  BY <1>2, <1>10, OutOwned
<1>16. NothingStale'
  BY <1>1, <1>13, <1>14, <1>15 DEF NothingStale, Nothing
<1> QED
  BY <1>12, <1>16, Zenon
-----------------------------------------------------------------------------
IInv == WritesInside /\ NothingStale /\ NonceRecord

\* The invariant is inductive: every packet leaves the buffers their size and
\* hands on its own bytes, and every nonce is recorded with its counter.
LEMMA InductiveInvariant == Spec => []IInv
<1>1. Init => IInv
  BY DEF Init, IInv, WritesInside, NothingStale, NonceRecord, NoBytes, Nothing
<1>2. IInv /\ [Next]_vars => IInv'
  <2> SUFFICES ASSUME IInv, [Next]_vars PROVE IInv'
    BY Zenon
  <2> USE DEF IInv
  <2>1. ASSUME NEW number \in Numbers, Delivers(InitDatagram(n + 1, number[1]))
        PROVE  IInv'
    <3>1. "counter" \notin DOMAIN InitMessage(n + 1, number[1])
      BY Zenon DEF InitMessage
    <3>2. WritesInside' /\ NothingStale' /\ nonces' = nonces
      BY <2>1, <3>1, DeliversKeeps DEF InitDatagram, P!PACKET_HANDSHAKE_INIT_LEN
    <3> QED
      BY <3>2, Zenon DEF NonceRecord
  <2>2. ASSUME NEW number \in Numbers, Delivers(RespDatagram(n + 1, number[1]))
        PROVE  IInv'
    <3>1. "counter" \notin DOMAIN RespMessage(n + 1, number[1], number[1])
      BY Zenon DEF RespMessage
    <3>2. WritesInside' /\ NothingStale' /\ nonces' = nonces
      BY <2>2, <3>1, DeliversKeeps DEF RespDatagram, P!PACKET_HANDSHAKE_RESP_LEN
    <3> QED
      BY <3>2, Zenon DEF NonceRecord
  <2>3. ASSUME NEW number \in Numbers, NEW size \in DataSizes,
               Delivers(DataDatagram(n + 1, number, size))
        PROVE  IInv'
    <3>1. size \in Nat /\ P!DataLength(size) \in Nat \ {0}
      BY DataPathAssumption DEF P!DataLength, P!PACKET_DATA_HEADER_LEN, P!VPN_AUTH_TAG_LEN
    <3> DEFINE msg == DataMessage(n + 1, number[1], number[2], size)
    <3>2. \A k \in DOMAIN msg.ciphertext : Owner(msg.ciphertext[k]) = n + 1
      BY Zenon DEF DataMessage, Field, Owner
    <3> HIDE DEF msg
    <3>3. WritesInside' /\ NothingStale' /\ nonces' = nonces
      BY <2>3, <3>1, <3>2, DeliversKeeps, Zenon DEF DataDatagram, msg
    <3> QED
      BY <3>3, Zenon DEF NonceRecord
  <2>4. ASSUME NEW size \in TunSizes, NEW number \in Numbers, NEW routed \in BOOLEAN,
               ReadTun(size, number, routed)
        PROVE  IInv'
    <3>1. WritesInside' /\ NothingStale'
      BY <2>4, ReadTunKeeps, Zenon
    <3>2. number[2] \in 0..(Word64 - 1)
      BY DataPathAssumption, Zenon
    <3>3. nonces' = nonces
              \/ nonces' = nonces \cup {<<number[2], vpn_crypto_format_nonce(number[2])>>}
      BY <2>4, Zenon DEF ReadTun
    <3>4. NonceRecord'
      BY <3>2, <3>3 DEF NonceRecord
    <3> QED
      BY <3>1, <3>4, Zenon
  <2>5. CASE UNCHANGED vars
    BY <2>5, Zenon DEF vars, buffers, WritesInside, NothingStale, NonceRecord
  <2> QED
    BY <2>1, <2>2, <2>3, <2>4, <2>5, Zenon DEF Next
<1> QED
  BY <1>1, <1>2, PTL DEF Spec

\* No packet, of whatever size, makes main write outside a buffer.
THEOREM BuffersHold == Spec => []WritesInside
<1>1. IInv => WritesInside
  BY Zenon DEF IInv
<1> QED
  BY <1>1, InductiveInvariant, PTL

\* No byte of an earlier packet, or of the stack, leaves the program or is taken
\* for an address.
THEOREM BytesFresh == Spec => []NothingStale
<1>1. IInv => NothingStale
  BY Zenon DEF IInv
<1> QED
  BY <1>1, InductiveInvariant, PTL

\* However many packets are sent, different counters mean different nonces.
THEOREM NoncesApart == Spec => []NoncesDiffer
<1>1. IInv => NoncesDiffer
  <2> SUFFICES ASSUME IInv, NEW p \in nonces, NEW q \in nonces, p[2] = q[2]
               PROVE  p[1] = q[1]
    BY Zenon DEF NoncesDiffer
  <2>1. /\ p[1] \in 0..(Word64 - 1) /\ p[2] = vpn_crypto_format_nonce(p[1])
        /\ q[1] \in 0..(Word64 - 1) /\ q[2] = vpn_crypto_format_nonce(q[1])
    BY Zenon DEF IInv, NonceRecord
  <2>2. vpn_crypto_format_nonce(p[1]) = vpn_crypto_format_nonce(q[1])
    BY <2>1, Zenon
  <2> QED
    BY <2>1, <2>2, NonceInjective, Zenon
<1> QED
  BY <1>1, InductiveInvariant, PTL
-----------------------------------------------------------------------------
(* What the parsers read. *)

\* l bytes; a buffer with bytes at its first e places, and another that has the
\* same bytes there.
IsBytes(src, l) == DOMAIN src = 0..(l - 1) /\ src = [k \in 0..(l - 1) |-> src[k]]
Filled(buf, e) == \A i \in 0..(e - 1) : i \in DOMAIN buf
Same(buf, final, e) == \A i \in 0..(e - 1) : final[i] = buf[i]

\* Where what follows is written behind a field, the field is read back, and what
\* is in front of it stays as it was.
LEMMA ReadBack ==
    ASSUME NEW buf, NEW src, NEW final, NEW offset \in Nat, NEW l \in Nat, NEW e \in Nat,
           offset + l <= e, IsBytes(src, l), Filled(buf, offset),
           Same(memcpy(buf, offset, src), final, e)
    PROVE  At(final, offset, l) = src /\ Same(buf, final, offset)
<1>1. PICK new : new = memcpy(buf, offset, src)
  BY Zenon
<1>2. DOMAIN src = 0..(l - 1)
  BY Zenon DEF IsBytes
<1>3. ASSUME NEW k \in 0..(l - 1) PROVE final[offset + k] = src[k]
  <2>1. offset + k \in 0..(e - 1) /\ (offset + k) - offset = k
    OBVIOUS
  <2>2. new[offset + k] = src[k]
    BY <1>1, <1>2, <2>1, Zenon DEF memcpy
  <2>. QED
    BY <1>1, <2>1, <2>2, Zenon DEF Same
<1>4. ASSUME NEW i \in 0..(offset - 1) PROVE final[i] = buf[i]
  <2>1. i \in 0..(e - 1) /\ i - offset \notin 0..(l - 1) /\ i \in DOMAIN buf
    BY DEF Filled
  <2>2. new[i] = buf[i]
    BY <1>1, <1>2, <2>1, Zenon DEF memcpy
  <2>. QED
    BY <1>1, <2>1, <2>2, Zenon DEF Same
<1>5. At(final, offset, l) = [k \in 0..(l - 1) |-> src[k]]
  BY <1>3, Zenon DEF At
<1>. QED
  BY <1>4, <1>5, Zenon DEF IsBytes, Same

\* A write takes no byte away.
LEMMA StaysFilled ==
    ASSUME NEW buf, NEW src, NEW offset, NEW e, Filled(buf, e)
    PROVE  Filled(memcpy(buf, offset, src), e)
BY Zenon DEF Filled, memcpy

\* A write at the end of what is filled fills more.
LEMMA FillsUp ==
    ASSUME NEW buf, NEW src, NEW l \in Nat, NEW e \in Nat, Filled(buf, e), IsBytes(src, l)
    PROVE  Filled(memcpy(buf, e, src), e + l)
<1>1. ASSUME NEW i \in 0..(e + l - 1) PROVE i \in DOMAIN memcpy(buf, e, src)
  <2>1. CASE i < e
    <3>1. i \in DOMAIN buf
      BY <2>1 DEF Filled
    <3>. QED
      BY <3>1, Zenon DEF memcpy
  <2>2. CASE i >= e
    <3>1. i - e \in DOMAIN src /\ i = e + (i - e)
      BY <2>2 DEF IsBytes
    <3>. QED
      BY <3>1, Zenon DEF memcpy
  <2>. QED
    BY <2>1, <2>2
<1>. QED
  BY <1>1 DEF Filled

\* What the serialisers write are bytes.
LEMMA AreBytes ==
    ASSUME NEW o, NEW name, NEW l \in Nat, NEW v, NEW x
    PROVE  /\ IsBytes(Field(o, name, l), l)
           /\ IsBytes(le32_write(o, v), 4) /\ IsBytes(le64_write(o, v), 8)
           /\ IsBytes([k \in {0} |-> x], 1)
           /\ IsBytes([k \in 0..(l - 1) |-> x], l)
<1>1. IsBytes([k \in {0} |-> x], 1)
  <2>1. {0} = 0..(1 - 1)
    OBVIOUS
  <2>. QED
    BY <2>1, Zenon DEF IsBytes
<1>2. IsBytes(Field(o, name, l), l) /\ IsBytes([k \in 0..(l - 1) |-> x], l)
  BY Zenon DEF IsBytes, Field
<1>3. IsBytes(le32_write(o, v), 4) /\ IsBytes(le64_write(o, v), 8)
  BY DEF IsBytes, le32_write, le64_write
<1>. QED
  BY <1>1, <1>2, <1>3, Zenon

\* memset and the type byte: the start of every packet.
LEMMA HeaderStart ==
    ASSUME NEW buf, NEW o, NEW type, NEW l \in Nat, l >= 16
    PROVE  LET b0 == PutType(memset(buf, o, l), o, type)
           IN  /\ Filled(b0, l)
               /\ \A final : Same(b0, final, 4) => Value(final[0]) = TypeByte[type]
<1>1. PICK cleared, byte, b0 :
          /\ cleared = memset(buf, o, l) /\ byte = [k \in {0} |-> <<o, "number", TypeByte[type]>>]
          /\ b0 = memcpy(cleared, 0, byte)
  BY Zenon
<1>2. Filled(cleared, l)
  <2>1. Filled(buf, 0)
    BY DEF Filled
  <2>2. IsBytes([k \in 0..(l - 1) |-> <<o, "zero", 0>>], l)
    BY AreBytes, Zenon
  <2>3. Filled(cleared, 0 + l)
    BY <1>1, <2>1, <2>2, FillsUp, Zenon DEF memset
  <2>. QED
    BY <2>3
<1>3. Filled(b0, l)
  BY <1>1, <1>2, StaysFilled, Zenon
<1>4. ASSUME NEW final, Same(b0, final, 4) PROVE Value(final[0]) = TypeByte[type]
  <2>1. b0[0] = <<o, "number", TypeByte[type]>>
    BY <1>1 DEF memcpy
  <2>2. final[0] = b0[0]
    BY <1>4 DEF Same
  <2>. QED
    BY <2>1, <2>2 DEF Value
<1>. QED
  BY <1>1, <1>3, <1>4, Zenon DEF PutType

\* Where packet_parse_handshake_init looks is what packet_serialize_handshake_init wrote.
LEMMA InitFields ==
    ASSUME NEW buf, NEW o, NEW msg,
           IsBytes(msg.unencrypted_ephemeral, 32),
           IsBytes(msg.encrypted_static, 48),
           IsBytes(msg.encrypted_timestamp, 28),
           IsBytes(msg.mac1, 16),
           IsBytes(msg.mac2, 16),
           NEW final, Same(packet_serialize_handshake_init(buf, o, msg), final, 148)
    PROVE  /\ Value(final[0]) = TypeByte["HANDSHAKE_INIT"]
           /\ At(final, 4, 4) = le32_write(o, msg.sender_index)
           /\ At(final, 8, 32) = msg.unencrypted_ephemeral
           /\ At(final, 40, 48) = msg.encrypted_static
           /\ At(final, 88, 28) = msg.encrypted_timestamp
           /\ At(final, 116, 16) = msg.mac1
           /\ At(final, 132, 16) = msg.mac2
<1>1. PICK b0, b1, b2, b3, b4, b5, b6 :
          /\ b0 = PutType(memset(buf, o, 148), o, "HANDSHAKE_INIT")
          /\ b1 = memcpy(b0, 4, le32_write(o, msg.sender_index))
          /\ b2 = memcpy(b1, 8, msg.unencrypted_ephemeral)
          /\ b3 = memcpy(b2, 40, msg.encrypted_static)
          /\ b4 = memcpy(b3, 88, msg.encrypted_timestamp)
          /\ b5 = memcpy(b4, 116, msg.mac1)
          /\ b6 = memcpy(b5, 132, msg.mac2)
  BY Zenon
<1>2. Same(b6, final, 148)
  BY <1>1, Zenon DEF packet_serialize_handshake_init, P!PACKET_HANDSHAKE_INIT_LEN
<1>3. /\ Filled(b0, 148)
      /\ Same(b0, final, 4) => Value(final[0]) = TypeByte["HANDSHAKE_INIT"]
  BY <1>1, HeaderStart
<1>4. Filled(b1, 148) /\ Filled(b2, 148) /\ Filled(b3, 148)
      /\ Filled(b4, 148) /\ Filled(b5, 148)
  BY <1>1, <1>3, StaysFilled
<1>5. /\ Filled(b0, 4)
      /\ Filled(b1, 8)
      /\ Filled(b2, 40)
      /\ Filled(b3, 88)
      /\ Filled(b4, 116)
      /\ Filled(b5, 132)
  BY <1>3, <1>4 DEF Filled
<1>6. IsBytes(le32_write(o, msg.sender_index), 4)
  BY AreBytes, Zenon
<1>7. At(final, 132, 16) = msg.mac2 /\ Same(b5, final, 132)
  <2>1. Same(memcpy(b5, 132, msg.mac2), final, 148)
    BY <1>1, <1>5, <1>6, <1>2, Zenon
  <2>2. Filled(b5, 132) /\ IsBytes(msg.mac2, 16)
    BY <1>1, <1>5, <1>6, <1>2, Zenon
  <2>. QED
    BY <2>1, <2>2, ReadBack
<1>8. At(final, 116, 16) = msg.mac1 /\ Same(b4, final, 116)
  <2>1. Same(memcpy(b4, 116, msg.mac1), final, 132)
    BY <1>1, <1>5, <1>6, <1>7, Zenon
  <2>2. Filled(b4, 116) /\ IsBytes(msg.mac1, 16)
    BY <1>1, <1>5, <1>6, <1>7, Zenon
  <2>. QED
    BY <2>1, <2>2, ReadBack
<1>9. At(final, 88, 28) = msg.encrypted_timestamp /\ Same(b3, final, 88)
  <2>1. Same(memcpy(b3, 88, msg.encrypted_timestamp), final, 116)
    BY <1>1, <1>5, <1>6, <1>8, Zenon
  <2>2. Filled(b3, 88) /\ IsBytes(msg.encrypted_timestamp, 28)
    BY <1>1, <1>5, <1>6, <1>8, Zenon
  <2>. QED
    BY <2>1, <2>2, ReadBack
<1>10. At(final, 40, 48) = msg.encrypted_static /\ Same(b2, final, 40)
  <2>1. Same(memcpy(b2, 40, msg.encrypted_static), final, 88)
    BY <1>1, <1>5, <1>6, <1>9, Zenon
  <2>2. Filled(b2, 40) /\ IsBytes(msg.encrypted_static, 48)
    BY <1>1, <1>5, <1>6, <1>9, Zenon
  <2>. QED
    BY <2>1, <2>2, ReadBack
<1>11. At(final, 8, 32) = msg.unencrypted_ephemeral /\ Same(b1, final, 8)
  <2>1. Same(memcpy(b1, 8, msg.unencrypted_ephemeral), final, 40)
    BY <1>1, <1>5, <1>6, <1>10, Zenon
  <2>2. Filled(b1, 8) /\ IsBytes(msg.unencrypted_ephemeral, 32)
    BY <1>1, <1>5, <1>6, <1>10, Zenon
  <2>. QED
    BY <2>1, <2>2, ReadBack
<1>12. At(final, 4, 4) = le32_write(o, msg.sender_index) /\ Same(b0, final, 4)
  <2>1. Same(memcpy(b0, 4, le32_write(o, msg.sender_index)), final, 8)
    BY <1>1, <1>5, <1>6, <1>11, Zenon
  <2>2. Filled(b0, 4) /\ IsBytes(le32_write(o, msg.sender_index), 4)
    BY <1>1, <1>5, <1>6, <1>11, Zenon
  <2>. QED
    BY <2>1, <2>2, ReadBack
<1>. QED
  BY <1>3, <1>7, <1>8, <1>9, <1>10, <1>11, <1>12, Zenon

\* The same of a response.
LEMMA RespFields ==
    ASSUME NEW buf, NEW o, NEW msg,
           IsBytes(msg.unencrypted_ephemeral, 32),
           IsBytes(msg.encrypted_nothing, 16),
           IsBytes(msg.mac1, 16),
           IsBytes(msg.mac2, 16),
           NEW final, Same(packet_serialize_handshake_resp(buf, o, msg), final, 92)
    PROVE  /\ Value(final[0]) = TypeByte["HANDSHAKE_RESP"]
           /\ At(final, 4, 4) = le32_write(o, msg.sender_index)
           /\ At(final, 8, 4) = le32_write(o, msg.receiver_index)
           /\ At(final, 12, 32) = msg.unencrypted_ephemeral
           /\ At(final, 44, 16) = msg.encrypted_nothing
           /\ At(final, 60, 16) = msg.mac1
           /\ At(final, 76, 16) = msg.mac2
<1>1. PICK b0, b1, b2, b3, b4, b5, b6 :
          /\ b0 = PutType(memset(buf, o, 92), o, "HANDSHAKE_RESP")
          /\ b1 = memcpy(b0, 4, le32_write(o, msg.sender_index))
          /\ b2 = memcpy(b1, 8, le32_write(o, msg.receiver_index))
          /\ b3 = memcpy(b2, 12, msg.unencrypted_ephemeral)
          /\ b4 = memcpy(b3, 44, msg.encrypted_nothing)
          /\ b5 = memcpy(b4, 60, msg.mac1)
          /\ b6 = memcpy(b5, 76, msg.mac2)
  BY Zenon
<1>2. Same(b6, final, 92)
  BY <1>1, Zenon DEF packet_serialize_handshake_resp, P!PACKET_HANDSHAKE_RESP_LEN
<1>3. /\ Filled(b0, 92)
      /\ Same(b0, final, 4) => Value(final[0]) = TypeByte["HANDSHAKE_RESP"]
  BY <1>1, HeaderStart
<1>4. Filled(b1, 92) /\ Filled(b2, 92) /\ Filled(b3, 92)
      /\ Filled(b4, 92) /\ Filled(b5, 92)
  BY <1>1, <1>3, StaysFilled
<1>5. /\ Filled(b0, 4)
      /\ Filled(b1, 8)
      /\ Filled(b2, 12)
      /\ Filled(b3, 44)
      /\ Filled(b4, 60)
      /\ Filled(b5, 76)
  BY <1>3, <1>4 DEF Filled
<1>6. IsBytes(le32_write(o, msg.sender_index), 4) /\ IsBytes(le32_write(o, msg.receiver_index), 4)
  BY AreBytes, Zenon
<1>7. At(final, 76, 16) = msg.mac2 /\ Same(b5, final, 76)
  <2>1. Same(memcpy(b5, 76, msg.mac2), final, 92)
    BY <1>1, <1>5, <1>6, <1>2, Zenon
  <2>2. Filled(b5, 76) /\ IsBytes(msg.mac2, 16)
    BY <1>1, <1>5, <1>6, <1>2, Zenon
  <2>. QED
    BY <2>1, <2>2, ReadBack
<1>8. At(final, 60, 16) = msg.mac1 /\ Same(b4, final, 60)
  <2>1. Same(memcpy(b4, 60, msg.mac1), final, 76)
    BY <1>1, <1>5, <1>6, <1>7, Zenon
  <2>2. Filled(b4, 60) /\ IsBytes(msg.mac1, 16)
    BY <1>1, <1>5, <1>6, <1>7, Zenon
  <2>. QED
    BY <2>1, <2>2, ReadBack
<1>9. At(final, 44, 16) = msg.encrypted_nothing /\ Same(b3, final, 44)
  <2>1. Same(memcpy(b3, 44, msg.encrypted_nothing), final, 60)
    BY <1>1, <1>5, <1>6, <1>8, Zenon
  <2>2. Filled(b3, 44) /\ IsBytes(msg.encrypted_nothing, 16)
    BY <1>1, <1>5, <1>6, <1>8, Zenon
  <2>. QED
    BY <2>1, <2>2, ReadBack
<1>10. At(final, 12, 32) = msg.unencrypted_ephemeral /\ Same(b2, final, 12)
  <2>1. Same(memcpy(b2, 12, msg.unencrypted_ephemeral), final, 44)
    BY <1>1, <1>5, <1>6, <1>9, Zenon
  <2>2. Filled(b2, 12) /\ IsBytes(msg.unencrypted_ephemeral, 32)
    BY <1>1, <1>5, <1>6, <1>9, Zenon
  <2>. QED
    BY <2>1, <2>2, ReadBack
<1>11. At(final, 8, 4) = le32_write(o, msg.receiver_index) /\ Same(b1, final, 8)
  <2>1. Same(memcpy(b1, 8, le32_write(o, msg.receiver_index)), final, 12)
    BY <1>1, <1>5, <1>6, <1>10, Zenon
  <2>2. Filled(b1, 8) /\ IsBytes(le32_write(o, msg.receiver_index), 4)
    BY <1>1, <1>5, <1>6, <1>10, Zenon
  <2>. QED
    BY <2>1, <2>2, ReadBack
<1>12. At(final, 4, 4) = le32_write(o, msg.sender_index) /\ Same(b0, final, 4)
  <2>1. Same(memcpy(b0, 4, le32_write(o, msg.sender_index)), final, 8)
    BY <1>1, <1>5, <1>6, <1>11, Zenon
  <2>2. Filled(b0, 4) /\ IsBytes(le32_write(o, msg.sender_index), 4)
    BY <1>1, <1>5, <1>6, <1>11, Zenon
  <2>. QED
    BY <2>1, <2>2, ReadBack
<1>. QED
  BY <1>3, <1>7, <1>8, <1>9, <1>10, <1>11, <1>12, Zenon

\* The same of a data packet or a keepalive, whose size decides which it is.
LEMMA DataFields ==
    ASSUME NEW buf, NEW o, NEW index, NEW counter, NEW cipher, NEW size \in Nat, NEW tag,
           IsBytes(tag, 16), NEW final,
           Same(packet_serialize_data(buf, o, index, counter, cipher, size, tag), final, size + 32)
    PROVE  /\ Value(final[0]) = TypeByte[IF size = 0 THEN "KEEPALIVE" ELSE "DATA"]
           /\ At(final, 4, 4) = le32_write(o, index)
           /\ At(final, 8, 8) = le64_write(o, counter)
           /\ At(final, 16, size) = At(cipher, 0, size)
           /\ At(final, 16 + size, 16) = tag
<1>1. PICK type, b0, b1, b2, b3, b4 :
          /\ type = IF size = 0 THEN "KEEPALIVE" ELSE "DATA"
          /\ b0 = PutType(memset(buf, o, 16), o, type)
          /\ b1 = memcpy(b0, 4, le32_write(o, index))
          /\ b2 = memcpy(b1, 8, le64_write(o, counter))
          /\ b3 = memcpy(b2, 16, At(cipher, 0, size))
          /\ b4 = memcpy(b3, 16 + size, tag)
  BY Zenon
<1>2. Same(b4, final, size + 32)
  BY <1>1, Zenon DEF packet_serialize_data, P!PACKET_DATA_HEADER_LEN
<1>3. Filled(b0, 16) /\ (Same(b0, final, 4) => Value(final[0]) = TypeByte[type])
  BY <1>1, HeaderStart
<1>4. Filled(b1, 16) /\ Filled(b2, 16)
  BY <1>1, <1>3, StaysFilled, Zenon
<1>5. Filled(b0, 4) /\ Filled(b1, 8)
  BY <1>3, <1>4 DEF Filled
<1>6. /\ IsBytes(le32_write(o, index), 4) /\ IsBytes(le64_write(o, counter), 8)
      /\ IsBytes(At(cipher, 0, size), size)
  <2>1. IsBytes(At(cipher, 0, size), size)
    BY Zenon DEF IsBytes, At
  <2>. QED
    BY <2>1, AreBytes, Zenon
<1>7. Filled(b3, 16 + size)
  BY <1>1, <1>4, <1>6, FillsUp, Zenon
<1>8. At(final, 16 + size, 16) = tag /\ Same(b3, final, 16 + size)
  <2>1. Same(memcpy(b3, 16 + size, tag), final, size + 32)
    BY <1>1, <1>2, <1>7, Zenon
  <2>2. Filled(b3, 16 + size) /\ IsBytes(tag, 16)
    BY <1>1, <1>2, <1>7, Zenon
  <2>. QED
    BY <2>1, <2>2, ReadBack
<1>9. At(final, 16, size) = At(cipher, 0, size) /\ Same(b2, final, 16)
  <2>1. Same(memcpy(b2, 16, At(cipher, 0, size)), final, 16 + size)
    BY <1>1, <1>4, <1>6, <1>8, Zenon
  <2>2. Filled(b2, 16) /\ IsBytes(At(cipher, 0, size), size)
    BY <1>1, <1>4, <1>6, <1>8, Zenon
  <2>. QED
    BY <2>1, <2>2, ReadBack
<1>10. At(final, 8, 8) = le64_write(o, counter) /\ Same(b1, final, 8)
  <2>1. Same(memcpy(b1, 8, le64_write(o, counter)), final, 16)
    BY <1>1, <1>5, <1>6, <1>9, Zenon
  <2>2. Filled(b1, 8) /\ IsBytes(le64_write(o, counter), 8)
    BY <1>1, <1>5, <1>6, <1>9, Zenon
  <2>. QED
    BY <2>1, <2>2, ReadBack
<1>11. At(final, 4, 4) = le32_write(o, index) /\ Same(b0, final, 4)
  <2>1. Same(memcpy(b0, 4, le32_write(o, index)), final, 8)
    BY <1>1, <1>5, <1>6, <1>10, Zenon
  <2>2. Filled(b0, 4) /\ IsBytes(le32_write(o, index), 4)
    BY <1>1, <1>5, <1>6, <1>10, Zenon
  <2>. QED
    BY <2>1, <2>2, ReadBack
<1>. QED
  BY <1>1, <1>3, <1>8, <1>9, <1>10, <1>11, Zenon

\* Any copy of an initiation as it was sent is parsed into what its sender put in.
LEMMA InitParsed ==
    ASSUME NEW o, NEW index \in 0..(Word32 - 1), NEW final,
           Same(InitDatagram(o, index).bytes, final, 148)
    PROVE  /\ packet_parse_handshake_init(final, 148) = InitMessage(o, index)
           /\ Value(final[0]) = TypeByte["HANDSHAKE_INIT"]
<1>1. PICK msg : msg = InitMessage(o, index)
  BY Zenon
<1>2. /\ msg.sender_index = index
      /\ msg.unencrypted_ephemeral = Field(o, "ephemeral", 32)
      /\ msg.encrypted_static = Field(o, "static", 48)
      /\ msg.encrypted_timestamp = Field(o, "timestamp", 28)
      /\ msg.mac1 = Field(o, "mac1", 16) /\ msg.mac2 = Field(o, "mac2", 16)
  BY <1>1, Zenon DEF InitMessage
<1>3. Same(packet_serialize_handshake_init(NoBytes, o, msg), final, 148)
  BY <1>1, Zenon DEF InitDatagram, Datagram
<1>4. /\ IsBytes(msg.unencrypted_ephemeral, 32) /\ IsBytes(msg.encrypted_static, 48)
      /\ IsBytes(msg.encrypted_timestamp, 28)
      /\ IsBytes(msg.mac1, 16) /\ IsBytes(msg.mac2, 16)
  <2>1. \A name : \A l \in {16, 28, 32, 48} : IsBytes(Field(o, name, l), l)
    BY Zenon DEF IsBytes, Field
  <2>. QED
    BY <1>2, <2>1
<1>5. /\ Value(final[0]) = TypeByte["HANDSHAKE_INIT"]
      /\ At(final, 4, 4) = le32_write(o, msg.sender_index)
      /\ At(final, 8, 32) = msg.unencrypted_ephemeral
      /\ At(final, 40, 48) = msg.encrypted_static
      /\ At(final, 88, 28) = msg.encrypted_timestamp
      /\ At(final, 116, 16) = msg.mac1
      /\ At(final, 132, 16) = msg.mac2
  BY <1>3, <1>4, InitFields
<1>6. le32_read(At(final, 4, 4)) = index
  BY <1>2, <1>5, Le32RoundTrip
<1>. QED
  BY <1>2, <1>5, <1>6, Zenon
     DEF packet_parse_handshake_init, IsType, InitMessage, P!PACKET_HANDSHAKE_INIT_LEN

\* So is any copy of a response.
LEMMA RespParsed ==
    ASSUME NEW buf, NEW o, NEW index \in 0..(Word32 - 1), NEW receiver \in 0..(Word32 - 1),
           NEW final,
           Same(packet_serialize_handshake_resp(buf, o, RespMessage(o, index, receiver)), final, 92)
    PROVE  packet_parse_handshake_resp(final, 92) = RespMessage(o, index, receiver)
<1>1. PICK msg : msg = RespMessage(o, index, receiver)
  BY Zenon
<1>2. /\ msg.sender_index = index /\ msg.receiver_index = receiver
      /\ msg.unencrypted_ephemeral = Field(o, "ephemeral", 32)
      /\ msg.encrypted_nothing = Field(o, "nothing", 16)
      /\ msg.mac1 = Field(o, "mac1", 16) /\ msg.mac2 = Field(o, "mac2", 16)
  BY <1>1, Zenon DEF RespMessage
<1>3. Same(packet_serialize_handshake_resp(buf, o, msg), final, 92)
  BY <1>1, Zenon
<1>4. /\ IsBytes(msg.unencrypted_ephemeral, 32) /\ IsBytes(msg.encrypted_nothing, 16)
      /\ IsBytes(msg.mac1, 16) /\ IsBytes(msg.mac2, 16)
  <2>1. \A name : \A l \in {16, 28, 32, 48} : IsBytes(Field(o, name, l), l)
    BY Zenon DEF IsBytes, Field
  <2>. QED
    BY <1>2, <2>1, Zenon
<1>5. /\ Value(final[0]) = TypeByte["HANDSHAKE_RESP"]
      /\ At(final, 4, 4) = le32_write(o, msg.sender_index)
      /\ At(final, 8, 4) = le32_write(o, msg.receiver_index)
      /\ At(final, 12, 32) = msg.unencrypted_ephemeral
      /\ At(final, 44, 16) = msg.encrypted_nothing
      /\ At(final, 60, 16) = msg.mac1
      /\ At(final, 76, 16) = msg.mac2
  BY <1>3, <1>4, RespFields
<1>6. le32_read(At(final, 4, 4)) = index /\ le32_read(At(final, 8, 4)) = receiver
  BY <1>2, <1>5, Le32RoundTrip
<1>. QED
  BY <1>2, <1>5, <1>6, Zenon
     DEF packet_parse_handshake_resp, IsType, RespMessage, P!PACKET_HANDSHAKE_RESP_LEN

\* So is any copy of a data packet, up to the size the parser allows; a larger one
\* is refused.
LEMMA DataParsed ==
    ASSUME NEW buf, NEW o, NEW index \in 0..(Word32 - 1), NEW counter \in 0..(Word64 - 1),
           NEW cipher, NEW size \in Nat, NEW final,
           At(cipher, 0, size) = Field(o, "cipher", size),
           Same(packet_serialize_data(buf, o, index, counter, cipher, size, Field(o, "tag", 16)),
                final, size + 32)
    PROVE  /\ packet_parse_data(final, size + 32)
                  = IF size <= VPN_DEFAULT_INNER_MTU
                    THEN DataMessage(o, index, counter, size) ELSE Refused
           /\ Value(final[0]) = TypeByte[IF size = 0 THEN "KEEPALIVE" ELSE "DATA"]
<1>1. IsBytes(Field(o, "tag", 16), 16)
  BY AreBytes, Zenon
<1>2. /\ Value(final[0]) = TypeByte[IF size = 0 THEN "KEEPALIVE" ELSE "DATA"]
      /\ At(final, 4, 4) = le32_write(o, index)
      /\ At(final, 8, 8) = le64_write(o, counter)
      /\ At(final, 16, size) = Field(o, "cipher", size)
      /\ At(final, 16 + size, 16) = Field(o, "tag", 16)
  BY <1>1, DataFields
<1>3. le32_read(At(final, 4, 4)) = index /\ le64_read(At(final, 8, 8)) = counter
  BY <1>2, Le32RoundTrip, Le64RoundTrip, Zenon
<1>4. IsType(final, "DATA") \/ IsType(final, "KEEPALIVE")
  BY <1>2, Zenon DEF IsType
<1>5. DataFits(size + 32) <=> size <= VPN_DEFAULT_INNER_MTU
  BY WireAssumption DEF DataFits, P!PACKET_DATA_MIN_LEN, P!PACKET_DATA_MAX_LEN,
     P!PACKET_DATA_HEADER_LEN, P!VPN_AUTH_TAG_LEN
<1>6. (size + 32) - P!PACKET_DATA_MIN_LEN = size
  BY DEF P!PACKET_DATA_MIN_LEN, P!PACKET_DATA_HEADER_LEN, P!VPN_AUTH_TAG_LEN
<1>7. packet_parse_data(final, size + 32)
          = IF size <= VPN_DEFAULT_INNER_MTU
            THEN DataMessage(o, index, counter, size) ELSE Refused
  BY <1>2, <1>3, <1>4, <1>5, <1>6, Zenon
     DEF packet_parse_data, DataMessage, P!PACKET_DATA_HEADER_LEN, P!VPN_AUTH_TAG_LEN
<1>. QED
  BY <1>2, <1>7, Zenon

\* What packet_peek_type says of a first byte.
LEMMA Peeked ==
    ASSUME NEW buf, NEW len
    PROVE  \A t \in TypeNames \ {"INVALID"} :
               packet_peek_type(buf, len) = t <=> len >= 1 /\ IsType(buf, t)
<1>1. TypeNames = {"INVALID", "HANDSHAKE_INIT", "HANDSHAKE_RESP", "DATA", "KEEPALIVE"}
  BY Zenon DEF TypeNames, TypeByte
<1>2. \A s, t \in TypeNames : TypeByte[s] = TypeByte[t] => s = t
  BY <1>1 DEF TypeByte
<1>3. ASSUME NEW t \in TypeNames \ {"INVALID"}, len >= 1, IsType(buf, t)
      PROVE  packet_peek_type(buf, len) = t
  <2>1. packet_peek_type(buf, len) = CHOOSE s \in TypeNames : Value(buf[0]) = TypeByte[s]
    BY <1>3, Zenon DEF packet_peek_type, IsType
  <2>2. \A s \in TypeNames : Value(buf[0]) = TypeByte[s] <=> s = t
    BY <1>2, <1>3, Zenon DEF IsType
  <2>. QED
    BY <2>1, <2>2, Zenon
<1>4. ASSUME NEW t \in TypeNames \ {"INVALID"}, packet_peek_type(buf, len) = t
      PROVE  len >= 1 /\ IsType(buf, t)
  <2>1. len >= 1 /\ \E s \in TypeNames \ {"INVALID"} : Value(buf[0]) = TypeByte[s]
    BY <1>4, Zenon DEF packet_peek_type
  <2>2. PICK s \in TypeNames \ {"INVALID"} : IsType(buf, s)
    BY <2>1, Zenon DEF IsType
  <2>3. s = t
    BY <1>3, <1>4, <2>1, <2>2, Zenon
  <2>. QED
    BY <2>1, <2>2, <2>3, Zenon
<1>. QED
  BY <1>3, <1>4, Zenon
-----------------------------------------------------------------------------
\* A copy of the first l bytes.
LEMMA Copied ==
    ASSUME NEW buf, NEW bytes, NEW l \in Nat
    PROVE  /\ Same(bytes, At(bytes, 0, l), l)
           /\ Same(bytes, memcpy(buf, 0, At(bytes, 0, l)), l)
<1>1. PICK src : src = At(bytes, 0, l)
  BY Zenon
<1>2. DOMAIN src = 0..(l - 1) /\ \A i \in 0..(l - 1) : src[i] = bytes[i]
  BY <1>1 DEF At
<1>3. ASSUME NEW i \in 0..(l - 1) PROVE memcpy(buf, 0, src)[i] = src[i]
  <2>1. i - 0 = i /\ 0 + i = i
    OBVIOUS
  <2>. QED
    BY <1>2, <2>1, Zenon DEF memcpy
<1>. QED
  BY <1>1, <1>2, <1>3, Zenon DEF Same

\* A field written at the start of a buffer.
LEMMA WrittenFirst ==
    ASSUME NEW buf, NEW l \in Nat, NEW src, IsBytes(src, l)
    PROVE  At(memcpy(buf, 0, src), 0, l) = src
<1>1. PICK new : new = memcpy(buf, 0, src)
  BY Zenon
<1>2. \A k \in 0..(l - 1) : new[0 + k] = src[k]
  <2>1. ASSUME NEW k \in 0..(l - 1) PROVE new[0 + k] = src[k]
    <3>1. k - 0 = k /\ 0 + k = k /\ k \in DOMAIN src
      BY DEF IsBytes
    <3>. QED
      BY <1>1, <3>1, Zenon DEF memcpy
  <2>. QED
    BY <2>1, Zenon
<1>3. At(new, 0, l) = [k \in 0..(l - 1) |-> src[k]]
  BY <1>2, Zenon DEF At
<1>. QED
  BY <1>1, <1>3, Zenon DEF IsBytes

\* What a datagram leaves of itself in main's variables, whoever handles it.
LEMMA ArrivesWith ==
    ASSUME NEW d, Receive(d)
    PROVE  n' = n + 1 /\ input' = [kind |-> d.kind, msg |-> d.msg, length |-> Received(d)]
BY Zenon DEF Receive, ReceiveInit, ReceiveData, ReceiveOther, Arrives

\* An initiation that arrives whole, and the response to it.
LEMMA InitSurvives ==
    ASSUME NEW number \in Numbers, NEW d, d = InitDatagram(n + 1, number[1]), Receive(d)
    PROVE  FieldsSurvive'
<1>1. /\ d.kind = "init" /\ d.msg = InitMessage(n + 1, number[1]) /\ d.length = 148
      /\ d.msg.sender_index = number[1]
  BY Zenon DEF InitDatagram, Datagram, InitMessage, P!PACKET_HANDSHAKE_INIT_LEN
<1>2. Received(d) = 148
  BY <1>1, WireAssumption, Zenon DEF Received, P!PACKET_HANDSHAKE_INIT_LEN
<1>3. \A m \in Numbers : m[1] \in 0..(Word32 - 1)
  BY DataPathAssumption, Zenon
<1>4. PICK net : net = NetBuf(d)
  BY Zenon
<1>5. Same(d.bytes, net, 148)
  BY <1>2, <1>4, Copied DEF NetBuf
<1>6. packet_parse_handshake_init(net, 148) = d.msg /\ IsType(net, "HANDSHAKE_INIT")
  <2>1. number[1] \in 0..(Word32 - 1) /\ Same(InitDatagram(n + 1, number[1]).bytes, net, 148)
    BY <1>3, <1>5, Zenon
  <2>. QED
    BY <1>1, <2>1, InitParsed DEF IsType
<1>7. packet_peek_type(net, 148) = "HANDSHAKE_INIT"
  <2>1. "HANDSHAKE_INIT" \in TypeNames \ {"INVALID"}
    BY Zenon DEF TypeNames, TypeByte
  <2>2. 148 >= 1
    OBVIOUS
  <2>. QED
    BY <1>6, <2>1, <2>2, Peeked, Zenon
<1>8. PICK m \in Numbers : ReceiveInit(d, m[1])
  <2>1. "HANDSHAKE_INIT" \notin {"DATA", "KEEPALIVE", "HANDSHAKE_RESP", "INVALID"}
    BY Zenon
  <2>. QED
    BY <1>2, <1>4, <1>7, <2>1, Zenon DEF Receive, ReceiveData, ReceiveOther
<1>9. n' = n + 1 /\ input'.kind = "init" /\ input'.msg = d.msg
  BY <1>1, ArrivesWith
<1>10. view' = d.msg
  BY <1>2, <1>4, <1>6, <1>8, Zenon DEF ReceiveInit
<1>11. ASSUME output'.to = "udp"
       PROVE  packet_parse_handshake_resp(output'.bytes, output'.length)
                  = RespMessage(n + 1, m[1], number[1])
  <2>1. PICK stack, resp, bytes :
            /\ stack = [i \in 0..(P!PACKET_HANDSHAKE_RESP_LEN - 1) |-> <<0, "stack", 0>>]
            /\ resp = RespMessage(n + 1, m[1], number[1])
            /\ bytes = packet_serialize_handshake_resp(stack, n + 1, resp)
    BY Zenon
  <2>2. output' = Nothing \/ output' = Out("udp", bytes, P!PACKET_HANDSHAKE_RESP_LEN)
    <3>1. packet_parse_handshake_init(NetBuf(d), Received(d)).sender_index = number[1]
      <4>1. packet_parse_handshake_init(NetBuf(d), Received(d)) = d.msg
        BY <1>2, <1>4, <1>6, Zenon
      <4>2. d.msg.sender_index = number[1]
        BY <1>1, Zenon
      <4>. QED
        BY <4>1, <4>2, Zenon
    <3>. QED
      BY <1>8, <2>1, <3>1, ZenonT(30) DEF ReceiveInit
  <2>3. output'.bytes = At(bytes, 0, 92) /\ output'.length = 92
    BY <1>11, <2>2 DEF Nothing, Out, P!PACKET_HANDSHAKE_RESP_LEN
  <2>4. Same(bytes, At(bytes, 0, 92), 92)
    BY Copied, Zenon
  <2>5. packet_parse_handshake_resp(At(bytes, 0, 92), 92) = resp
    <3>1. m[1] \in 0..(Word32 - 1) /\ number[1] \in 0..(Word32 - 1)
      BY <1>3, Zenon
    <3>. QED
      BY <2>1, <2>4, <3>1, RespParsed
  <2>. QED
    BY <2>1, <2>3, <2>5, Zenon
<1>12. output'.to = "udp" =>
           packet_parse_handshake_resp(output'.bytes, output'.length)
               \in {RespMessage(n', q[1], input'.msg.sender_index) : q \in Numbers}
  <2>1. n' = n + 1 /\ input'.msg.sender_index = number[1]
    BY <1>1, <1>9, Zenon
  <2>2. RespMessage(n + 1, m[1], number[1])
            \in {RespMessage(n', q[1], input'.msg.sender_index) : q \in Numbers}
    BY <2>1, Zenon
  <2>. QED
    BY <1>11, <2>2, Zenon
<1>. QED
  BY <1>9, <1>10, <1>12, Zenon DEF FieldsSurvive

\* A data packet that arrives whole.
LEMMA DataSurvives ==
    ASSUME NEW number \in Numbers, NEW size \in DataSizes, NEW d,
           d = DataDatagram(n + 1, number, size), Receive(d)
    PROVE  FieldsSurvive'
<1>1. PICK msg : msg = DataMessage(n + 1, number[1], number[2], size)
  BY Zenon
<1>2. /\ msg.receiver_index = number[1] /\ msg.counter = number[2]
      /\ msg.ciphertext = Field(n + 1, "cipher", size) /\ msg.ciphertext_len = size
      /\ msg.auth_tag = Field(n + 1, "tag", 16)
  BY <1>1, Zenon DEF DataMessage, P!VPN_AUTH_TAG_LEN
<1>3. PICK bytes :
          bytes = packet_serialize_data(NoBytes, n + 1, number[1], number[2],
                                        Field(n + 1, "cipher", size), size,
                                        Field(n + 1, "tag", 16))
  BY Zenon
<1>4. size \in Nat /\ P!DataLength(size) = size + 32
  BY DataPathAssumption DEF P!DataLength, P!PACKET_DATA_HEADER_LEN, P!VPN_AUTH_TAG_LEN
<1>5. d = Datagram("data", msg, bytes, P!DataLength(size))
  BY <1>1, <1>2, <1>3, Zenon DEF DataDatagram
<1>6. d.kind = "data" /\ d.msg = msg /\ d.bytes = bytes /\ d.length = size + 32
  BY <1>4, <1>5 DEF Datagram
<1>7. input'.kind = "data" /\ input'.msg = msg
  BY <1>6, ArrivesWith
<1>8. ASSUME size <= VPN_DEFAULT_INNER_MTU PROVE view' = msg
  <2>1. Received(d) = size + 32
    BY <1>4, <1>6, <1>8, WireAssumption
       DEF Received, P!PACKET_DATA_MAX_LEN, P!PACKET_DATA_MIN_LEN, P!PACKET_DATA_HEADER_LEN,
           P!VPN_AUTH_TAG_LEN
  <2>2. PICK net : net = NetBuf(d)
    BY Zenon
  <2>3. Same(bytes, net, size + 32)
    <3>1. size + 32 \in Nat
      BY <1>4
    <3>. QED
      BY <1>6, <2>1, <2>2, <3>1, Copied, Zenon DEF NetBuf
  <2>4. number[1] \in 0..(Word32 - 1) /\ number[2] \in 0..(Word64 - 1)
    BY DataPathAssumption, Zenon
  <2>5. At(Field(n + 1, "cipher", size), 0, size) = Field(n + 1, "cipher", size)
    BY <1>4 DEF At, Field
  <2>6. /\ packet_parse_data(net, size + 32) = msg
        /\ IsType(net, IF size = 0 THEN "KEEPALIVE" ELSE "DATA")
    BY <1>1, <1>3, <1>4, <1>8, <2>3, <2>4, <2>5, DataParsed DEF IsType
  <2>7. packet_peek_type(net, size + 32) \in {"DATA", "KEEPALIVE"}
    <3>1. "DATA" \in TypeNames \ {"INVALID"} /\ "KEEPALIVE" \in TypeNames \ {"INVALID"}
      BY Zenon DEF TypeNames, TypeByte
    <3>2. size + 32 >= 1
      BY <1>4
    <3>. QED
      BY <2>6, <3>1, <3>2, Peeked, Zenon
  <2>8. PICK allowed \in BOOLEAN : ReceiveData(d, allowed)
    <3>1. \A t \in {"DATA", "KEEPALIVE"} : t \notin {"HANDSHAKE_INIT", "HANDSHAKE_RESP", "INVALID"}
      BY Zenon
    <3>. QED
      BY <2>1, <2>2, <2>7, <3>1, Zenon DEF Receive, ReceiveInit, ReceiveOther
  <2>. QED
    BY <2>1, <2>2, <2>6, <2>8, Zenon DEF ReceiveData
<1>. QED
  BY <1>2, <1>7, <1>8, Zenon DEF FieldsSurvive

\* Nothing is said of a response, which main does not parse, and of a damaged
\* datagram.
LEMMA OthersSurvive ==
    ASSUME NEW d, d.kind \in {"resp", "damaged"}, Receive(d)
    PROVE  FieldsSurvive'
<1>1. input'.kind \in {"resp", "damaged"}
  BY ArrivesWith
<1>. QED
  BY <1>1, Zenon DEF FieldsSurvive

\* Damage shows in the kind of a datagram.
LEMMA DamageShows ==
    ASSUME NEW sort, NEW msg, NEW bytes, NEW length, NEW o, NEW type,
           NEW d, d = Datagram(sort, msg, bytes, length)
    PROVE  Cut(d).kind = "damaged" /\ Padded(d, o).kind = "damaged"
           /\ Retyped(d, o, type).kind = "damaged"
BY Zenon DEF Datagram, Cut, Padded, Retyped

\* A packet from the TUN device and the datagram made of it.
LEMMA TunSurvives ==
    ASSUME NEW size \in TunSizes, NEW number \in Numbers, NEW routed \in BOOLEAN,
           ReadTun(size, number, routed)
    PROVE  FieldsSurvive'
<1>1. PICK o, buf, cipher, tag, net :
          /\ o = n + 1
          /\ buf = memcpy(tun_buf, 0, Field(o, "plain", size))
          /\ cipher = memcpy(cipher_buf, 0, Encrypted(At(buf, 0, size)))
          /\ tag = Field(o, "tag", P!VPN_AUTH_TAG_LEN)
          /\ net = packet_serialize_data(net_buf, o, number[1], number[2], cipher, size, tag)
  BY Zenon
<1>2. /\ input' = [kind |-> "tun", msg |-> DataMessage(o, number[1], number[2], size),
                   length |-> size]
      /\ output' = Out("udp", net, P!DataLength(size)) \/ output' = Nothing
  BY <1>1, Zenon DEF ReadTun
<1>3. size \in Nat /\ P!DataLength(size) = size + 32 /\ P!VPN_AUTH_TAG_LEN = 16
  BY DataPathAssumption, WireAssumption
     DEF P!DataLength, P!PACKET_DATA_HEADER_LEN, P!VPN_AUTH_TAG_LEN
<1>4. number[1] \in 0..(Word32 - 1) /\ number[2] \in 0..(Word64 - 1)
  BY DataPathAssumption, Zenon
<1>5. At(cipher, 0, size) = Field(o, "cipher", size)
  <2>1. \A k \in 0..(size - 1) : buf[k] = <<o, "plain", k>>
    BY <1>1, <1>3 DEF memcpy, Field
  <2>2. Encrypted(At(buf, 0, size)) = Field(o, "cipher", size)
    <3>1. At(buf, 0, size) = [k \in 0..(size - 1) |-> <<o, "plain", k>>]
      BY <1>3, <2>1 DEF At
    <3>2. PICK plain : plain = At(buf, 0, size)
      BY Zenon
    <3>3. DOMAIN plain = 0..(size - 1) /\ \A k \in 0..(size - 1) : Owner(plain[k]) = o
      <4>1. DOMAIN plain = 0..(size - 1) /\ \A k \in 0..(size - 1) : plain[k] = <<o, "plain", k>>
        BY <3>1, <3>2, Zenon
      <4>2. \A k : Owner(<<o, "plain", k>>) = o
        BY Zenon DEF Owner
      <4>. QED
        BY <4>1, <4>2, Zenon
    <3>4. Encrypted(plain) = [k \in 0..(size - 1) |-> <<o, "cipher", k>>]
      BY <3>3, Zenon DEF Encrypted
    <3>. QED
      BY <3>2, <3>4, Zenon DEF Field
  <2>3. IsBytes(Field(o, "cipher", size), size)
    BY <1>3, AreBytes, Zenon
  <2>. QED
    BY <1>1, <1>3, <2>2, <2>3, WrittenFirst, Zenon
<1>6. ASSUME output'.to = "udp"
      PROVE  packet_parse_data(output'.bytes, output'.length)
                 = IF size <= VPN_DEFAULT_INNER_MTU
                   THEN DataMessage(o, number[1], number[2], size) ELSE Refused
  <2>1. output'.bytes = At(net, 0, size + 32) /\ output'.length = size + 32
    BY <1>2, <1>3, <1>6 DEF Out, Nothing
  <2>2. Same(net, At(net, 0, size + 32), size + 32)
    <3>1. size + 32 \in Nat
      BY <1>3
    <3>. QED
      BY <3>1, Copied, Zenon
  <2>3. packet_parse_data(At(net, 0, size + 32), size + 32)
            = IF size <= VPN_DEFAULT_INNER_MTU
              THEN DataMessage(o, number[1], number[2], size) ELSE Refused
    BY <1>1, <1>3, <1>4, <1>5, <2>2, DataParsed
  <2>. QED
    BY <2>1, <2>3, Zenon
<1>7. input'.kind = "tun" /\ input'.msg = DataMessage(o, number[1], number[2], size)
      /\ input'.length = size
  BY <1>2, Zenon
<1>. QED
  BY <1>6, <1>7, Zenon DEF FieldsSurvive

\* What a sender serialises the receiver parses: initiations and data packets that
\* arrive whole, the responses and the data packets this end sends, for every
\* number, every size and whatever the buffers held before.
THEOREM SentIsParsed == Spec => []FieldsSurvive
<1>1. Init => FieldsSurvive
  BY DEF Init, FieldsSurvive
<1>2. FieldsSurvive /\ [Next]_vars => FieldsSurvive'
  <2>. SUFFICES ASSUME FieldsSurvive, [Next]_vars PROVE FieldsSurvive'
    BY Zenon
  <2>1. ASSUME NEW d, NEW sort, NEW msg, NEW bytes, NEW length,
               d = Datagram(sort, msg, bytes, length), Delivers(d),
               Receive(d) => FieldsSurvive'
        PROVE  FieldsSurvive'
    <3>1. PICK c : Receive(c) /\ (c = d \/ c.kind = "damaged")
      BY <2>1, DamageShows, Zenon DEF Delivers
    <3>. QED
      BY <2>1, <3>1, OthersSurvive
  <2>2. ASSUME NEW number \in Numbers, Delivers(InitDatagram(n + 1, number[1]))
        PROVE  FieldsSurvive'
    BY <2>1, <2>2, InitSurvives, Zenon DEF InitDatagram
  <2>3. ASSUME NEW number \in Numbers, Delivers(RespDatagram(n + 1, number[1]))
        PROVE  FieldsSurvive'
    <3>1. RespDatagram(n + 1, number[1]).kind = "resp"
      BY Zenon DEF RespDatagram, Datagram
    <3>2. Receive(RespDatagram(n + 1, number[1])) => FieldsSurvive'
      BY <3>1, OthersSurvive
    <3>. QED
      BY <2>1, <2>3, <3>2, Zenon DEF RespDatagram
  <2>4. ASSUME NEW number \in Numbers, NEW size \in DataSizes,
               Delivers(DataDatagram(n + 1, number, size))
        PROVE  FieldsSurvive'
    BY <2>1, <2>4, DataSurvives, Zenon DEF DataDatagram
  <2>5. CASE UNCHANGED vars
    BY <2>5, Zenon DEF vars, FieldsSurvive
  <2>. QED
    BY <2>2, <2>3, <2>4, <2>5, TunSurvives, Zenon DEF Next
<1>. QED
  BY <1>1, <1>2, PTL DEF Spec
-----------------------------------------------------------------------------
(* Keys and addresses. *)

\* A text and its places.
LEMMA Indexed ==
    ASSUME NEW S, NEW str \in Seq(S)
    PROVE  /\ Len(str) \in Nat /\ DOMAIN str = 1..Len(str)
           /\ \A i \in 1..Len(str) : str[i] \in S
OBVIOUS

\* Texts that agree place by place are the same.
LEMMA SameText ==
    ASSUME NEW S, NEW s \in Seq(S), NEW t \in Seq(S), Len(s) = Len(t),
           \A i \in 1..Len(s) : s[i] = t[i]
    PROVE  s = t
OBVIOUS

\* Part of a text.
LEMMA PartOf ==
    ASSUME NEW S, NEW str \in Seq(S), NEW i \in 1..(Len(str) + 1), NEW j \in 0..Len(str),
           i <= j + 1
    PROVE  /\ SubSeq(str, i, j) \in Seq(S) /\ Len(SubSeq(str, i, j)) = j - i + 1
           /\ \A k \in 1..(j - i + 1) : SubSeq(str, i, j)[k] = str[i + k - 1]
OBVIOUS

\* A text with one more.
LEMMA OneMore ==
    ASSUME NEW S, NEW str \in Seq(S), NEW c \in S
    PROVE  Append(str, c) \in Seq(S) /\ Append(str, c) # <<>>
<1>1. Append(str, c) \in Seq(S) /\ Len(Append(str, c)) = Len(str) + 1 /\ Len(str) \in Nat
  OBVIOUS
<1>2. Len(<<>>) = 0
  OBVIOUS
<1>3. Len(Append(str, c)) # Len(<<>>)
  BY <1>1, <1>2
<1>. QED
  BY <1>1, <1>3, Zenon

\* A digit below a multiple is what division leaves.
LEMMA Divided ==
    ASSUME NEW k \in Nat, k > 0, NEW a \in 0..(k - 1), NEW x \in Nat
    PROVE  (a + k * x) \div k = x /\ (a + k * x) % k = a
OBVIOUS

\* A byte put below others comes off again.
LEMMA Shifted ==
    ASSUME NEW a \in 0..(BYTE - 1), NEW x \in Nat
    PROVE  /\ a + BYTE * x \in Nat
           /\ Shr(a + BYTE * x) = x /\ Digit(a + BYTE * x) = a
<1>1. BYTE \in Nat /\ BYTE > 0
  BY ByteAssumption
<1>2. (a + BYTE * x) \div BYTE = x /\ (a + BYTE * x) % BYTE = a
  BY <1>1, Divided, Zenon
<1>3. BYTE * x \in Nat
  BY <1>1
<1>. QED
  BY <1>2, <1>3 DEF Shr, Digit

\* What vpn_ip_parse makes of four bytes is what main makes of them, and
\* vpn_ip_to_string undoes it.
LEMMA AddressRoundTrip ==
    ASSUME NEW str \in Seq(Nat), Len(str) = 4, \A i \in 1..4 : str[i] < BYTE
    PROVE  /\ vpn_ip_parse(str) = PacketAddress(str)
           /\ vpn_ip_to_string(vpn_ip_parse(str)) = str
<1>1. vpn_ip_parse(str) = Number4(str[4], str[3], str[2], str[1])
  BY Zenon DEF vpn_ip_parse, AddressOf
<1>2. \A i \in 1..4 : str[i] \in 0..(BYTE - 1)
  <2>1. ASSUME NEW i \in 1..4 PROVE str[i] \in Nat
    BY Indexed, Zenon
  <2>. QED
    BY <2>1, ByteAssumption
<1>3. PICK a \in 0..(BYTE - 1) : a = str[1]
  BY <1>2
<1>4. PICK b \in 0..(BYTE - 1) : b = str[2]
  BY <1>2
<1>5. PICK c \in 0..(BYTE - 1) : c = str[3]
  BY <1>2
<1>6. PICK d \in 0..(BYTE - 1) : d = str[4]
  BY <1>2
<1>7. PICK x \in Nat : x = a
  BY ByteAssumption
<1>8. PICK y : y = b + BYTE * x
  BY Zenon
<1>9. y \in Nat /\ Shr(y) = x /\ Digit(y) = b
  BY <1>8, Shifted, Zenon
<1>10. PICK z : z = c + BYTE * y
  BY Zenon
<1>11. z \in Nat /\ Shr(z) = y /\ Digit(z) = c
  BY <1>9, <1>10, Shifted, Zenon
<1>12. PICK v : v = d + BYTE * z
  BY Zenon
<1>13. v \in Nat /\ Shr(v) = z /\ Digit(v) = d
  BY <1>11, <1>12, Shifted, Zenon
<1>14. vpn_ip_parse(str) = v
  BY <1>1, <1>3, <1>4, <1>5, <1>6, <1>7, <1>8, <1>10, <1>12, Zenon DEF Number4
<1>15. Digit(x) = a
  <2>1. Digit(a + BYTE * 0) = a
    BY Shifted
  <2>2. a + BYTE * 0 = x
    BY <1>7, ByteAssumption
  <2>. QED
    BY <2>1, <2>2, Zenon
<1>16. vpn_ip_to_string(v) = <<a, b, c, d>>
  BY <1>9, <1>11, <1>13, <1>15, Zenon DEF vpn_ip_to_string
<1>17. <<a, b, c, d>> = str
  <2>1. <<a, b, c, d>> = <<str[1], str[2], str[3], str[4]>>
    BY <1>3, <1>4, <1>5, <1>6, Zenon
  <2>2. <<str[1], str[2], str[3], str[4]>> = str
    <3>1. \A i \in 1..4 : str[i] \in Nat
      BY Indexed, Zenon
    <3>2. <<str[1], str[2], str[3], str[4]>> \in Seq(Nat)
      BY <3>1
    <3>. QED
      BY <3>2, SameText
  <2>. QED
    BY <2>1, <2>2, Zenon
<1>. QED
  BY <1>1, <1>14, <1>16, <1>17, Zenon DEF PacketAddress

\* A set of numbers has a least one.
LEMMA LeastOf ==
    ASSUME NEW S, S \in SUBSET Nat, S # {}
    PROVE  Least(S) \in S /\ \A j \in S : Least(S) <= j
<1>1. PICK x \in S : \A y \in S : <<y, x>> \notin OpToRel(<, Nat)
  BY NatLessThanWellFounded, WFMin, Zenon
<1>2. ASSUME NEW y \in S PROVE x <= y
  <2>1. ~(y < x)
    BY <1>1, Zenon DEF OpToRel
  <2>. QED
    BY <2>1
<1>. QED
  BY <1>2, Zenon DEF Least

\* The rest of a text from one of its places.
LEMMA FromPlace ==
    ASSUME NEW S, NEW str \in Seq(S), NEW i \in 1..Len(str)
    PROVE  /\ From(str, i) \in Seq(S)
           /\ Len(From(str, i)) = Len(str) - i + 1
           /\ \A j \in 1..(Len(str) - i + 1) : From(str, i)[j] = str[i + j - 1]
<1>1. Len(str) \in Nat /\ i \in Int
  BY Indexed
<1>2. /\ SubSeq(str, i, Len(str)) \in Seq(S)
      /\ Len(SubSeq(str, i, Len(str))) = Len(str) - i + 1
      /\ \A j \in 1..(Len(str) - i + 1) : SubSeq(str, i, Len(str))[j] = str[i + j - 1]
  <2>1. i \in 1..(Len(str) + 1) /\ Len(str) \in 0..Len(str) /\ i <= Len(str) + 1
    BY <1>1
  <2>. QED
    BY <2>1, PartOf, Zenon
<1>. QED
  BY <1>2, Zenon DEF From

\* There are digits.
LEMMA Hexadecimal == HEX \in Nat /\ HEX >= 2 /\ BYTE = HEX * HEX
<1>1. HEX \in Nat /\ BYTE = HEX * HEX /\ BYTE >= 2
  BY TextsAssumption, ByteAssumption
<1>2. CASE HEX = 0
  BY <1>1, <1>2
<1>3. CASE HEX = 1
  BY <1>1, <1>3
<1>. QED
  BY <1>1, <1>2, <1>3

\* Two digits are below BYTE.
LEMMA TwoDigits ==
    ASSUME NEW a \in Nat, NEW b \in Nat, a < HEX, b < HEX
    PROVE  a * HEX + b \in 0..(BYTE - 1)
<1>1. PICK d \in Nat : HEX = a + 1 + d
  <2>1. HEX - a - 1 \in Nat /\ HEX = a + 1 + (HEX - a - 1)
    BY Hexadecimal
  <2>. QED
    BY <2>1, Zenon
<1>2. HEX * HEX = a * HEX + HEX + d * HEX
  BY <1>1, Hexadecimal
<1>3. a * HEX \in Nat /\ d * HEX \in Nat
  BY Hexadecimal
<1>4. BYTE = a * HEX + HEX + d * HEX
  BY <1>2, Hexadecimal
<1>. QED
  BY <1>3, <1>4, Hexadecimal

\* sscanf takes two digits for the byte they write.
LEMMA DigitsRead ==
    ASSUME NEW str \in Seq(Nat), NEW i \in 1..Len(str), i + 1 \in 1..Len(str),
           str[i] < HEX, str[i + 1] < HEX
    PROVE  Conversion(From(str, i)) = [ok |-> TRUE, value |-> str[i] * HEX + str[i + 1]]
<1>1. PICK f : f = From(str, i)
  BY Zenon
<1>2. /\ f \in Seq(Nat) /\ Len(f) = Len(str) - i + 1
      /\ \A j \in 1..(Len(str) - i + 1) : f[j] = str[i + j - 1]
  BY <1>1, FromPlace, Zenon
<1>3. Len(str) \in Nat
  BY Indexed
<1>4. 1 \in 1..Len(f) /\ 2 \in 1..Len(f) /\ f[1] = str[i] /\ f[2] = str[i + 1]
  <2>1. 1 \in 1..(Len(str) - i + 1) /\ 2 \in 1..(Len(str) - i + 1)
    BY <1>3
  <2>2. i + 1 - 1 = i /\ i + 2 - 1 = i + 1
    BY <1>3
  <2>3. f[1] = str[i + 1 - 1] /\ f[2] = str[i + 2 - 1]
    BY <1>2, <2>1, Zenon
  <2>. QED
    BY <1>2, <2>1, <2>2, <2>3, Zenon
<1>5. DOMAIN f = 1..Len(f)
  BY <1>2, Indexed, Zenon
<1>6. IsDigit(f, 1) /\ IsDigit(f, 2)
  BY <1>4, <1>5, Zenon DEF IsDigit
<1>7. PICK start : start = {j \in DOMAIN f : f[j] # SPACE}
  BY Zenon
<1>8. 1 \in start
  <2>1. f[1] # SPACE
    <3>1. str[i] \in Nat
      BY Indexed
    <3>. QED
      BY <3>1, <1>4, Hexadecimal DEF SPACE
  <2>. QED
    BY <2>1, <1>4, <1>5, <1>7, Zenon
<1>9. start \in SUBSET Nat /\ \A j \in start : 1 <= j
  <2>1. Len(f) \in Nat
    BY <1>2, Indexed, Zenon
  <2>2. \A j \in 1..Len(f) : j \in Nat /\ 1 <= j
    BY <2>1
  <2>. QED
    BY <2>2, <1>5, <1>7, Zenon
<1>10. Least(start) = 1
  <2>1. Least(start) \in start /\ \A j \in start : Least(start) <= j
    BY <1>8, <1>9, LeastOf, Zenon
  <2>2. Least(start) <= 1 /\ 1 <= Least(start) /\ Least(start) \in Nat
    BY <2>1, <1>8, <1>9, Zenon
  <2>. QED
    BY <2>2
<1>11. From(f, Least(start)) = f
  <2>1. SubSeq(f, 1, Len(f)) = f
    BY <1>2
  <2>. QED
    BY <1>10, <2>1, Zenon DEF From
<1>12. start # {}
  BY <1>8, Zenon
<1>13. Conversion(f) = [ok |-> TRUE, value |-> f[1] * HEX + f[2]]
  BY <1>6, <1>7, <1>11, <1>12, Zenon DEF Conversion
<1>. QED
  BY <1>1, <1>4, <1>13, Zenon

\* Whatever sscanf reads is a byte.
LEMMA ConversionByte ==
    ASSUME NEW str \in Seq(Nat), Conversion(str).ok
    PROVE  Conversion(str).value \in 0..(BYTE - 1)
<1>1. PICK start : start = {j \in DOMAIN str : str[j] # SPACE}
  BY Zenon
<1>2. PICK two : two = IF start = {} THEN <<>> ELSE From(str, Least(start))
  BY Zenon
<1>3. Conversion(str) =
        IF IsDigit(two, 1)
        THEN [ok |-> TRUE,
              value |-> IF IsDigit(two, 2) THEN two[1] * HEX + two[2] ELSE two[1]]
        ELSE IF 1 \in Where(SIGN, two) /\ IsDigit(two, 2)
        THEN [ok |-> TRUE, value |-> (BYTE - two[2]) % BYTE]
        ELSE [ok |-> FALSE, value |-> 0]
  BY <1>1, <1>2, Zenon DEF Conversion
<1>4. two \in Seq(Nat)
  <2>1. CASE start = {}
    BY <2>1, <1>2
  <2>2. CASE start # {}
    <3>1. start \in SUBSET (1..Len(str))
      BY <1>1, Indexed, Zenon
    <3>2. start \in SUBSET Nat
      BY <3>1, Indexed
    <3>3. Least(start) \in 1..Len(str)
      BY <2>2, <3>1, <3>2, LeastOf, Zenon
    <3>. QED
      BY <3>3, <2>2, <1>2, FromPlace, Zenon
  <2>. QED
    BY <2>1, <2>2, Zenon
<1>5. ASSUME NEW i, IsDigit(two, i) PROVE two[i] \in Nat /\ two[i] < HEX
  <2>1. DOMAIN two = 1..Len(two)
    BY <1>4, Indexed, Zenon
  <2>2. i \in 1..Len(two) /\ two[i] < HEX
    BY <1>5, <2>1, Zenon DEF IsDigit
  <2>. QED
    BY <2>2, <1>4, Indexed, Zenon
<1>6. CASE IsDigit(two, 1) /\ IsDigit(two, 2)
  <2>1. two[1] * HEX + two[2] \in 0..(BYTE - 1)
    BY <1>5, <1>6, TwoDigits, Zenon
  <2>2. Conversion(str).value = two[1] * HEX + two[2]
    BY <1>3, <1>6
  <2>. QED
    BY <2>1, <2>2, Zenon
<1>7. CASE IsDigit(two, 1) /\ ~IsDigit(two, 2)
  <2>1. two[1] \in Nat /\ two[1] < HEX
    BY <1>5, <1>7, Zenon
  <2>2. Conversion(str).value = two[1]
    BY <1>3, <1>7
  <2>3. 0 * HEX + two[1] \in 0..(BYTE - 1)
    BY <2>1, TwoDigits, Hexadecimal
  <2>. QED
    BY <2>1, <2>2, <2>3, Hexadecimal
<1>8. CASE ~IsDigit(two, 1) /\ 1 \in Where(SIGN, two) /\ IsDigit(two, 2)
  <2>1. two[2] \in Nat
    BY <1>5, <1>8, Zenon
  <2>2. Conversion(str).value = (BYTE - two[2]) % BYTE
    BY <1>3, <1>8
  <2>3. (BYTE - two[2]) % BYTE \in 0..(BYTE - 1)
    BY <2>1, ByteAssumption
  <2>. QED
    BY <2>2, <2>3, Zenon
<1>. QED
  BY <1>3, <1>6, <1>7, <1>8

\* The two characters of byte i.
LEMMA PairPlaces ==
    ASSUME NEW i \in 1..KEY_LEN, NEW h, Len(h) = 2 * KEY_LEN
    PROVE  /\ 2 * i - 1 \in 1..Len(h) /\ 2 * i \in 1..Len(h)
           /\ 2 * i - 1 + 1 = 2 * i /\ Pair(i) = 2 * i - 1
BY TextsAssumption DEF Pair

\* config_parse_key_hex on digits.
LEMMA KeyRead ==
    ASSUME NEW h \in Seq(Nat), Len(h) = 2 * KEY_LEN,
           \A i \in 1..Len(h) : h[i] < HEX, NEW key
    PROVE  config_parse_key_hex(h, key) =
             [ok |-> TRUE, key |-> [i \in 1..KEY_LEN |-> h[2 * i - 1] * HEX + h[2 * i]]]
<1>1. ASSUME NEW i \in 1..KEY_LEN
      PROVE  Conversion(From(h, Pair(i))) =
               [ok |-> TRUE, value |-> h[2 * i - 1] * HEX + h[2 * i]]
  <2>1. PICK a : a = 2 * i - 1
    BY Zenon
  <2>2. a \in 1..Len(h) /\ a + 1 \in 1..Len(h) /\ a + 1 = 2 * i /\ Pair(i) = a
    BY <2>1, PairPlaces, Zenon
  <2>3. Conversion(From(h, a)) = [ok |-> TRUE, value |-> h[a] * HEX + h[a + 1]]
    BY <2>2, DigitsRead, Zenon
  <2>. QED
    BY <2>1, <2>2, <2>3, Zenon
<1>2. PICK read : read = {i \in 1..KEY_LEN : \A j \in 1..i : Conversion(From(h, Pair(j))).ok}
  BY Zenon
<1>3. config_parse_key_hex(h, key) =
        [ok |-> read = 1..KEY_LEN,
         key |-> [i \in 1..KEY_LEN |->
                    IF i \in read THEN Conversion(From(h, Pair(i))).value ELSE key[i]]]
  BY <1>2, Zenon DEF config_parse_key_hex
<1>4. read = 1..KEY_LEN
  <2>1. ASSUME NEW i \in 1..KEY_LEN, NEW j \in 1..i PROVE j \in 1..KEY_LEN
    BY TextsAssumption
  <2>2. ASSUME NEW i \in 1..KEY_LEN PROVE Conversion(From(h, Pair(i))).ok
    BY <1>1
  <2>. QED
    BY <1>2, <2>1, <2>2, Zenon
<1>5. ASSUME NEW i \in 1..KEY_LEN
      PROVE  (IF i \in read THEN Conversion(From(h, Pair(i))).value ELSE key[i])
               = h[2 * i - 1] * HEX + h[2 * i]
  <2>1. PICK c : c = Conversion(From(h, Pair(i)))
    BY Zenon
  <2>2. c.value = h[2 * i - 1] * HEX + h[2 * i]
    BY <2>1, <1>1
  <2>. QED
    BY <2>1, <2>2, <1>4, Zenon
<1>6. [i \in 1..KEY_LEN |->
          IF i \in read THEN Conversion(From(h, Pair(i))).value ELSE key[i]]
        = [i \in 1..KEY_LEN |-> h[2 * i - 1] * HEX + h[2 * i]]
  BY <1>5, Zenon
<1>. QED
  BY <1>3, <1>4, <1>6, Zenon

\* A byte is its two digits.
LEMMA ByteDigits ==
    ASSUME NEW b \in 0..(BYTE - 1)
    PROVE  /\ b \div HEX \in Nat /\ b \div HEX < HEX
           /\ b % HEX \in Nat /\ b % HEX < HEX
           /\ (b \div HEX) * HEX + (b % HEX) = b
<1>1. b \in Nat /\ HEX \in Nat /\ HEX > 0 /\ b < HEX * HEX
  BY Hexadecimal, ByteAssumption
<1>2. PICK q \in Nat : q = b \div HEX
  <2>1. b \div HEX \in Nat
    BY <1>1, SMTT(30)
  <2>. QED
    BY <2>1, Zenon
<1>3. PICK r \in 0..(HEX - 1) : r = b % HEX
  <2>1. b % HEX \in 0..(HEX - 1)
    BY <1>1, SMTT(30)
  <2>. QED
    BY <2>1, Zenon
<1>4. b = HEX * q + r
  BY <1>1, <1>2, <1>3, SMTT(30)
<1>5. q < HEX
  <2>1. SUFFICES ASSUME HEX <= q PROVE FALSE
    BY <1>1
  <2>2. PICK d \in Nat : q = HEX + d
    <3>1. q - HEX \in Nat /\ q = HEX + (q - HEX)
      BY <1>1, <2>1
    <3>. QED
      BY <3>1, Zenon
  <2>3. HEX * q = HEX * HEX + HEX * d /\ HEX * d \in Nat /\ HEX * HEX \in Nat
    BY <1>1, <2>2
  <2>. QED
    BY <1>1, <1>3, <1>4, <2>3
<1>6. q * HEX + r = b
  BY <1>1, <1>4
<1>7. r \in Nat /\ r < HEX
  BY <1>1
<1>. QED
  BY <1>2, <1>3, <1>5, <1>6, <1>7, Zenon

\* The digits config_key_to_hex writes, and where.
LEMMA KeyPrinted ==
    ASSUME NEW key \in [1..KEY_LEN -> 0..(BYTE - 1)], NEW h, h = config_key_to_hex(key)
    PROVE  /\ h \in Seq(Nat) /\ Len(h) = 2 * KEY_LEN
           /\ \A c \in 1..Len(h) : h[c] < HEX
           /\ \A i \in 1..KEY_LEN : /\ h[2 * i - 1] = key[i] \div HEX
                                    /\ h[2 * i] = key[i] % HEX
<1>1. PICK size \in Nat : size = 2 * KEY_LEN
  BY TextsAssumption
<1>2. h = [c \in 1..size |->
             IF c % 2 = 1 THEN key[(c + 1) \div 2] \div HEX ELSE key[c \div 2] % HEX]
  BY <1>1, Zenon DEF config_key_to_hex
<1>3. ASSUME NEW c \in 1..size PROVE h[c] \in Nat /\ h[c] < HEX
  <2>1. CASE c % 2 = 1
    <3>1. (c + 1) \div 2 \in 1..KEY_LEN
      BY <1>1, <2>1, TextsAssumption
    <3>2. h[c] = key[(c + 1) \div 2] \div HEX
      BY <1>2, <2>1, Zenon
    <3>. QED
      BY <3>1, <3>2, ByteDigits, Zenon
  <2>2. CASE c % 2 # 1
    <3>1. c \div 2 \in 1..KEY_LEN
      BY <1>1, <2>2, TextsAssumption
    <3>2. h[c] = key[c \div 2] % HEX
      BY <1>2, <2>2, Zenon
    <3>. QED
      BY <3>1, <3>2, ByteDigits, Zenon
  <2>. QED
    BY <2>1, <2>2, Zenon
<1>4. h \in [1..size -> Nat]
  BY <1>2, <1>3, Zenon
<1>5. h \in Seq(Nat) /\ Len(h) = size
  BY <1>4
<1>6. ASSUME NEW i \in 1..KEY_LEN
      PROVE  h[2 * i - 1] = key[i] \div HEX /\ h[2 * i] = key[i] % HEX
  <2>1. 2 * i - 1 \in 1..size /\ 2 * i \in 1..size
    BY <1>1, TextsAssumption
  <2>2. (2 * i - 1) % 2 = 1 /\ (2 * i - 1 + 1) \div 2 = i
        /\ (2 * i) % 2 # 1 /\ (2 * i) \div 2 = i
    BY TextsAssumption
  <2>. QED
    BY <1>2, <2>1, <2>2, Zenon
<1>. QED
  BY <1>1, <1>3, <1>5, <1>6, Zenon

\* config_parse_key_hex undoes config_key_to_hex.
LEMMA KeyPrintedRead ==
    ASSUME NEW key \in [1..KEY_LEN -> 0..(BYTE - 1)], NEW zero
    PROVE  config_parse_key_hex(config_key_to_hex(key), zero) = [ok |-> TRUE, key |-> key]
<1>1. PICK h : h = config_key_to_hex(key)
  BY Zenon
<1>2. /\ h \in Seq(Nat) /\ Len(h) = 2 * KEY_LEN
      /\ \A c \in 1..Len(h) : h[c] < HEX
      /\ \A i \in 1..KEY_LEN : /\ h[2 * i - 1] = key[i] \div HEX
                               /\ h[2 * i] = key[i] % HEX
  BY <1>1, KeyPrinted, Zenon
<1>3. config_parse_key_hex(h, zero) =
        [ok |-> TRUE, key |-> [i \in 1..KEY_LEN |-> h[2 * i - 1] * HEX + h[2 * i]]]
  BY <1>2, KeyRead, Zenon
<1>4. ASSUME NEW i \in 1..KEY_LEN PROVE h[2 * i - 1] * HEX + h[2 * i] = key[i]
  <2>1. (key[i] \div HEX) * HEX + (key[i] % HEX) = key[i]
    BY ByteDigits, Zenon
  <2>. QED
    BY <2>1, <1>2, Zenon
<1>5. [i \in 1..KEY_LEN |-> h[2 * i - 1] * HEX + h[2 * i]] = key
  <2>1. key = [i \in 1..KEY_LEN |-> key[i]]
    BY Zenon
  <2>. QED
    BY <2>1, <1>4, Zenon
<1>. QED
  BY <1>1, <1>3, <1>5, Zenon

\* config_key_to_hex undoes config_parse_key_hex on digits.
LEMMA DigitsReadPrinted ==
    ASSUME NEW h \in Seq(Nat), Len(h) = 2 * KEY_LEN,
           \A i \in 1..Len(h) : h[i] < HEX, NEW key,
           key = [i \in 1..KEY_LEN |-> h[2 * i - 1] * HEX + h[2 * i]]
    PROVE  config_key_to_hex(key) = h
<1>1. ASSUME NEW i \in 1..KEY_LEN
      PROVE  /\ key[i] = h[2 * i - 1] * HEX + h[2 * i] /\ key[i] \in 0..(BYTE - 1)
             /\ key[i] \div HEX = h[2 * i - 1] /\ key[i] % HEX = h[2 * i]
  <2>1. 2 * i - 1 \in 1..Len(h) /\ 2 * i \in 1..Len(h)
    BY PairPlaces, Zenon
  <2>2. PICK a \in Nat : a = h[2 * i - 1] /\ a < HEX
    BY <2>1, Indexed, Zenon
  <2>3. PICK b \in Nat : b = h[2 * i] /\ b < HEX
    BY <2>1, Indexed, Zenon
  <2>4. key[i] = a * HEX + b
    BY <2>2, <2>3, Zenon
  <2>5. a * HEX + b \in 0..(BYTE - 1)
    BY <2>2, <2>3, TwoDigits, Zenon
  <2>6. (b + HEX * a) \div HEX = a /\ (b + HEX * a) % HEX = b
    <3>1. HEX \in Nat /\ HEX > 0 /\ b \in 0..(HEX - 1)
      BY <2>3, Hexadecimal
    <3>. QED
      BY <3>1, Divided, Zenon
  <2>7. a * HEX + b = b + HEX * a
    BY Hexadecimal
  <2>. QED
    BY <2>2, <2>3, <2>4, <2>5, <2>6, <2>7, Zenon
<1>2. key \in [1..KEY_LEN -> 0..(BYTE - 1)]
  BY <1>1, Zenon
<1>3. PICK g : g = config_key_to_hex(key)
  BY Zenon
<1>4. /\ g \in Seq(Nat) /\ Len(g) = 2 * KEY_LEN
      /\ \A i \in 1..KEY_LEN : /\ g[2 * i - 1] = key[i] \div HEX
                               /\ g[2 * i] = key[i] % HEX
  BY <1>2, <1>3, KeyPrinted, Zenon
<1>5. ASSUME NEW c \in 1..Len(g) PROVE g[c] = h[c]
  <2>1. PICK i \in 1..KEY_LEN : c = 2 * i - 1 \/ c = 2 * i
    <3>1. (c + 1) \div 2 \in 1..KEY_LEN
          /\ (c = 2 * ((c + 1) \div 2) - 1 \/ c = 2 * ((c + 1) \div 2))
      <4>1. c \in 1..(2 * KEY_LEN) /\ KEY_LEN \in Nat
        BY <1>4, TextsAssumption, Zenon
      <4>2. c % 2 = 1 \/ c % 2 = 0
        BY <4>1
      <4>3. CASE c % 2 = 1
        BY <4>1, <4>3
      <4>4. CASE c % 2 = 0
        BY <4>1, <4>4
      <4>. QED
        BY <4>2, <4>3, <4>4, Zenon
    <3>. QED
      BY <3>1, Zenon
  <2>. QED
    BY <2>1, <1>1, <1>4, Zenon
<1>6. g = h
  BY <1>4, <1>5, SameText, Zenon
<1>. QED
  BY <1>3, <1>6, Zenon

\* A key that config_parse_key_hex returned is bytes.
LEMMA ParsedBytes ==
    ASSUME NEW str \in Seq(Nat), NEW zero, config_parse_key_hex(str, zero).ok
    PROVE  /\ config_parse_key_hex(str, zero).key \in [1..KEY_LEN -> 0..(BYTE - 1)]
           /\ config_parse_key_hex(str, zero) =
                [ok |-> TRUE, key |-> config_parse_key_hex(str, zero).key]
<1>1. PICK read : read = {i \in 1..KEY_LEN : \A j \in 1..i : Conversion(From(str, Pair(j))).ok}
  BY Zenon
<1>2. PICK key : key = [i \in 1..KEY_LEN |->
                    IF i \in read THEN Conversion(From(str, Pair(i))).value ELSE zero[i]]
  OBVIOUS
<1>3. config_parse_key_hex(str, zero) =
        IF Len(str) # 2 * KEY_LEN THEN [ok |-> FALSE, key |-> zero]
        ELSE [ok |-> read = 1..KEY_LEN, key |-> key]
  BY <1>1, <1>2, Zenon DEF config_parse_key_hex
<1>4. Len(str) = 2 * KEY_LEN
  BY <1>3
<1>5. config_parse_key_hex(str, zero) = [ok |-> read = 1..KEY_LEN, key |-> key]
  BY <1>3, <1>4, Zenon
<1>6. read = 1..KEY_LEN
  <2>1. PICK all : all = (read = 1..KEY_LEN)
    BY Zenon
  <2>2. config_parse_key_hex(str, zero) = [ok |-> all, key |-> key]
    BY <1>5, <2>1, Zenon
  <2>3. config_parse_key_hex(str, zero).ok = all
    BY <2>2
  <2>. QED
    BY <2>1, <2>3, Zenon
<1>7. ASSUME NEW i \in 1..KEY_LEN PROVE key[i] \in 0..(BYTE - 1)
  <2>1. i \in 1..i
    BY TextsAssumption
  <2>2. Conversion(From(str, Pair(i))).ok
    BY <1>1, <1>6, <2>1, Zenon
  <2>3. Pair(i) \in 1..Len(str)
    BY <1>4, PairPlaces, Zenon
  <2>4. From(str, Pair(i)) \in Seq(Nat)
    BY <2>3, FromPlace, Zenon
  <2>5. Conversion(From(str, Pair(i))).value \in 0..(BYTE - 1)
    BY <2>2, <2>4, ConversionByte, Zenon
  <2>. QED
    BY <1>2, <1>6, <2>5, Zenon
<1>8. key \in [1..KEY_LEN -> 0..(BYTE - 1)]
  BY <1>2, <1>7, Zenon
<1>9. config_parse_key_hex(str, zero) = [ok |-> TRUE, key |-> key]
  BY <1>5, <1>6, Zenon
<1>10. config_parse_key_hex(str, zero).key = key
  BY <1>9
<1>. QED
  BY <1>8, <1>9, <1>10, Zenon

\* What the texts of keys and addresses are made of.
NumbersTyped ==
    /\ kind = "none" => text = <<>>
    /\ kind = "key" => text \in Seq(Nat)
    /\ kind = "address" => text \in Seq(Nat)

\* A text gets one more of what it is made of.
LEMMA Grows ==
    ASSUME NEW what, NEW S, NEW c \in S, NEW bound, Writes(what, c, bound),
           kind = "none" => text = <<>>, kind = what => text \in Seq(S)
    PROVE  kind' = what /\ text' \in Seq(S) /\ text' # <<>>
<1>1. kind \in {"none", what} /\ kind' = what /\ text' = Append(text, c)
  BY Zenon DEF Writes
<1>2. text \in Seq(S)
  <2>1. <<>> \in Seq(S)
    OBVIOUS
  <2>. QED
    BY <1>1, <2>1, Zenon
<1>. QED
  BY <1>1, <1>2, OneMore, Zenon

\* config.h and packet.h are handed texts of numbers.
LEMMA NumbersKept == TextSpec => []NumbersTyped
<1>1. TextInit => NumbersTyped
  <2>1. SUFFICES ASSUME kind = "none", text = <<>> PROVE NumbersTyped
    BY Zenon DEF TextInit
  <2>2. kind # "key" /\ kind # "address"
    BY <2>1
  <2>. QED
    BY <2>1, <2>2, Zenon DEF NumbersTyped
<1>2. NumbersTyped /\ [TextNext]_<<kind, text>> => NumbersTyped'
  <2>1. SUFFICES ASSUME NumbersTyped, [TextNext]_<<kind, text>> PROVE NumbersTyped'
    BY Zenon
  <2>2. /\ kind = "none" => text = <<>>
        /\ kind = "key" => text \in Seq(Nat)
        /\ kind = "address" => text \in Seq(Nat)
    BY <2>1, Zenon DEF NumbersTyped
  <2>3. CASE UNCHANGED <<kind, text>>
    <3>1. kind' = kind /\ text' = text
      BY <2>3
    <3>. QED
      BY <2>1, <3>1, Zenon DEF NumbersTyped
  <2>4. ASSUME NEW c \in Tokens, Writes("endpoint", c, MAX_TOKENS) PROVE NumbersTyped'
    <3>1. kind' = "endpoint"
      BY <2>4, Zenon DEF Writes
    <3>. QED
      BY <3>1 DEF NumbersTyped
  <2>5. ASSUME NEW c \in 0..LETTER, Writes("key", c, MAX_CHARACTERS) PROVE NumbersTyped'
    <3>1. c \in Nat
      BY Hexadecimal DEF LETTER
    <3>2. kind' = "key" /\ text' \in Seq(Nat)
      BY <2>2, <2>5, <3>1, Grows, Zenon
    <3>. QED
      BY <3>2 DEF NumbersTyped
  <2>6. ASSUME NEW c \in {0, 1, BYTE - 1, BYTE}, Writes("address", c, 4) PROVE NumbersTyped'
    <3>1. c \in Nat
      BY ByteAssumption
    <3>2. kind' = "address" /\ text' \in Seq(Nat)
      BY <2>2, <2>6, <3>1, Grows, Zenon
    <3>. QED
      BY <3>2 DEF NumbersTyped
  <2>. QED
    BY <2>1, <2>3, <2>4, <2>5, <2>6, Zenon DEF TextNext
<1>. QED
  BY <1>1, <1>2, PTL DEF TextSpec

\* Addresses are written, read and taken from packets in the same byte order.
THEOREM AddressesInOneOrder == TextSpec => []AddressesAgree
<1>1. NumbersTyped => AddressesAgree
  BY AddressRoundTrip, Zenon DEF NumbersTyped, AddressesAgree
<1>. QED
  BY <1>1, NumbersKept, PTL

\* Keys survive being printed and read, and texts of digits being read and
\* printed; blanks and signs, which sscanf accepts in a key, do not survive.
THEOREM KeysRoundTrip == TextSpec => []KeysPrintBack
<1>1. NumbersTyped => KeysPrintBack
  <2>1. SUFFICES ASSUME NumbersTyped, kind = "key" PROVE KeysPrintBack
    BY Zenon DEF KeysPrintBack
  <2>2. text \in Seq(Nat) /\ DOMAIN text = 1..Len(text)
    BY <2>1, Indexed, Zenon DEF NumbersTyped
  <2>3. PICK zero : zero = [i \in 1..KEY_LEN |-> 0]
    BY Zenon
  <2>4. PICK parsed : parsed = config_parse_key_hex(text, zero)
    BY Zenon
  <2>5. ASSUME Len(text) = 2 * KEY_LEN, \A i \in DOMAIN text : IsDigit(text, i)
        PROVE  parsed.ok /\ config_key_to_hex(parsed.key) = text
    <3>1. \A i \in 1..Len(text) : text[i] < HEX
      BY <2>2, <2>5, Zenon DEF IsDigit
    <3>2. PICK key : key = [i \in 1..KEY_LEN |-> text[2 * i - 1] * HEX + text[2 * i]]
      BY Zenon
    <3>3. parsed = [ok |-> TRUE, key |-> key]
      BY <2>2, <2>4, <2>5, <3>1, <3>2, KeyRead, Zenon
    <3>4. parsed.ok /\ parsed.key = key
      BY <3>3
    <3>5. config_key_to_hex(key) = text
      BY <2>2, <2>5, <3>1, <3>2, DigitsReadPrinted, Zenon
    <3>. QED
      BY <3>4, <3>5, Zenon
  <2>6. ASSUME parsed.ok
        PROVE  config_parse_key_hex(config_key_to_hex(parsed.key), zero) = parsed
    <3>1. /\ parsed.key \in [1..KEY_LEN -> 0..(BYTE - 1)]
          /\ parsed = [ok |-> TRUE, key |-> parsed.key]
      BY <2>2, <2>4, <2>6, ParsedBytes, Zenon
    <3>. QED
      BY <3>1, KeyPrintedRead, Zenon
  <2>. QED
    BY <2>3, <2>4, <2>5, <2>6, Zenon DEF KeysPrintBack
<1>. QED
  BY <1>1, NumbersKept, PTL
=============================================================================
