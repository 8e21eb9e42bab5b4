----------------------- MODULE TitaniumProtocol_proofs -----------------------
(***************************************************************************)
(* What Encode puts where, and what Decode makes of a buffer that holds    *)
(* parts of frames: for packages, buffers and sizes of any length.         *)
(***************************************************************************)
EXTENDS TitaniumProtocol, FiniteSetTheorems, SequenceTheorems, TLAPS

Octet == {Byte(b) : b \in Octets}

-----------------------------------------------------------------------------
(* Membership in the ranges of 8 and 16 bits, as inequalities.             *)
LEMMA Octets8 ==
    ASSUME NEW n
    PROVE  n \in Octets <=> n \in Nat /\ n <= 255
<1>1. PICK m \in Nat : m = 255
    OBVIOUS
<1>2. Octets = 0 .. m
    BY <1>1 DEF Octets
<1>3. n \in 0 .. m <=> n \in Nat /\ n <= m
    OBVIOUS
<1> QED BY <1>1, <1>2, <1>3

(* The same of 16 bits.                                                    *)
LEMMA Words16 ==
    ASSUME NEW n
    PROVE  n \in Words <=> n \in Nat /\ n <= 65535
<1>1. PICK m \in Nat : m = 65535
    OBVIOUS
<1>2. Words = 0 .. m
    BY <1>1 DEF Words
<1>3. n \in Words <=> n \in Nat /\ n <= m
    BY <1>2
<1> QED BY <1>1, <1>3

(* A function on 1 .. n is a sequence, and a sequence such a function.     *)
LEMMA FunctionSeq ==
    ASSUME NEW S, NEW n \in Nat, NEW f \in [1 .. n -> S]
    PROVE  f \in Seq(S) /\ Len(f) = n
<1> QED OBVIOUS

(* A sequence of one ...                                                   *)
LEMMA Single ==
    ASSUME NEW S, NEW a \in S
    PROVE  <<a>> \in Seq(S) /\ Len(<<a>>) = 1 /\ <<a>>[1] = a
<1> QED OBVIOUS

(* ... and of two.                                                         *)
LEMMA Pair ==
    ASSUME NEW S, NEW a \in S, NEW b \in S
    PROVE  <<a, b>> \in Seq(S) /\ Len(<<a, b>>) = 2 /\ <<a, b>>[1] = a /\ <<a, b>>[2] = b
<1> QED OBVIOUS

(* Concatenation, cell by cell.                                            *)
LEMMA JoinedSeq ==
    ASSUME NEW S, NEW s \in Seq(S), NEW t \in Seq(S)
    PROVE  s \o t \in Seq(S) /\ Len(s \o t) = Len(s) + Len(t)
<1> QED BY ConcatProperties

(* The cells of the left part stay where they are ...                      *)
LEMMA JoinedLeft ==
    ASSUME NEW S, NEW s \in Seq(S), NEW t \in Seq(S), NEW i \in 1 .. Len(s)
    PROVE  (s \o t)[i] = s[i]
<1> QED BY ConcatProperties, LenProperties

(* ... and those of the right part follow them.                            *)
LEMMA JoinedRight ==
    ASSUME NEW S, NEW s \in Seq(S), NEW t \in Seq(S), NEW i \in 1 .. Len(t)
    PROVE  (s \o t)[Len(s) + i] = t[i]
<1> QED BY ConcatProperties, LenProperties

(* A sequence of numbers as bytes.                                         *)
LEMMA BytesCells ==
    ASSUME NEW numbers \in Seq(Octets)
    PROVE  /\ Bytes(numbers) \in Seq(Octet)
           /\ Len(Bytes(numbers)) = Len(numbers)
           /\ \A i \in 1 .. Len(numbers) : Bytes(numbers)[i] = Byte(numbers[i])
<1> DEFINE n == Len(numbers)
<1>1. n \in Nat /\ DOMAIN numbers = 1 .. n
    BY LenProperties
<1>2. Bytes(numbers) = [i \in 1 .. n |-> Byte(numbers[i])]
    BY <1>1 DEF Bytes
<1>3. ASSUME NEW i \in 1 .. n
      PROVE  Byte(numbers[i]) \in Octet
  <2>1. numbers[i] \in Octets
      BY ElementOfSeq
  <2> QED BY <2>1 DEF Octet
<1>4. Bytes(numbers) \in [1 .. n -> Octet]
    BY <1>2, <1>3
<1>5. Bytes(numbers) \in Seq(Octet) /\ Len(Bytes(numbers)) = n
    BY <1>1, <1>4, FunctionSeq
<1> QED BY <1>2, <1>5

(* The two bytes of a 16-bit number.                                       *)
LowByte(m) == m % 256
HighByte(m) == m \div 256

(* Le16 puts the low one first.                                            *)
LEMMA Le16Cells ==
    ASSUME NEW m \in Words
    PROVE  /\ Le16(m) \in Seq(Octet)
           /\ Len(Le16(m)) = 2
           /\ Le16(m)[1] = Byte(LowByte(m))
           /\ Le16(m)[2] = Byte(HighByte(m))
<1> DEFINE low == LowByte(m)
           high == HighByte(m)
           numbers == <<low, high>>
<1>1. low \in Octets /\ high \in Octets
  <2>1. m \in Nat /\ m <= 65535
      BY Words16
  <2> QED BY <2>1, Octets8 DEF LowByte, HighByte
<1>2. Le16(m) = Bytes(numbers)
    BY DEF Le16, LowByte, HighByte
<1> HIDE DEF low, high
<1>3. numbers \in Seq(Octets) /\ Len(numbers) = 2 /\ numbers[1] = low /\ numbers[2] = high
    BY <1>1, Pair
<1> HIDE DEF numbers
<1>4. /\ Bytes(numbers) \in Seq(Octet)
      /\ Len(Bytes(numbers)) = 2
      /\ \A i \in 1 .. 2 : Bytes(numbers)[i] = Byte(numbers[i])
    BY <1>3, BytesCells
<1>5. Bytes(numbers)[1] = Byte(low) /\ Bytes(numbers)[2] = Byte(high)
    BY <1>3, <1>4
<1> QED BY <1>2, <1>4, <1>5 DEF low, high

(* The fields of a package are where the protocol's offsets say.           *)
LEMMA BodyCells ==
    ASSUME NEW p \in TitaniumPackages, Len(p.payload) \in Words
    PROVE  /\ Body(p) \in Seq(Octet)
           /\ Len(Body(p)) = HEADER_OFFSET + Len(p.payload)
           /\ Body(p)[1] = Byte(START_BYTE)
           /\ \A i \in 1 .. 4 : Body(p)[1 + i] = Byte(p.uuid[i])
           /\ Body(p)[6] = Byte(LowByte(Len(p.payload)))
           /\ Body(p)[7] = Byte(HighByte(Len(p.payload)))
           /\ Body(p)[8] = Byte(p.area)
           /\ Body(p)[9] = Byte(LowByte(p.address))
           /\ Body(p)[10] = Byte(HighByte(p.address))
           /\ \A i \in 1 .. Len(p.payload) : Body(p)[HEADER_OFFSET + i] = Byte(p.payload[i])
<1> DEFINE n == Len(p.payload)
           start == <<START_BYTE>>
           head == start \o p.uuid
           b1 == Bytes(head)
           b2 == Le16(n)
           b3 == Bytes(<<p.area>>)
           b4 == Le16(p.address)
           b5 == Bytes(p.payload)
<1>1. /\ p.uuid \in [1 .. 4 -> Octets]
      /\ p.area \in Octets
      /\ p.address \in Words
      /\ p.payload \in Seq(Octets)
    BY DEF TitaniumPackages
<1>2. n \in Nat /\ n \in Words
    BY <1>1, LenProperties
<1>3. p.address \in Words
    BY <1>1
<1>4. /\ head \in Seq(Octets)
      /\ Len(head) = 5
      /\ head[1] = START_BYTE
      /\ \A i \in 1 .. 4 : head[1 + i] = p.uuid[i]
  <2>1. START_BYTE \in Octets
      BY DEF START_BYTE, Octets
  <2>2. start \in Seq(Octets) /\ Len(start) = 1 /\ start[1] = START_BYTE
      BY <2>1, Single
  <2>3. p.uuid \in Seq(Octets) /\ Len(p.uuid) = 4
    <3>1. PICK k \in Nat : k = 4
        OBVIOUS
    <3>2. p.uuid \in [1 .. k -> Octets]
        BY <1>1, <3>1
    <3>3. p.uuid \in Seq(Octets) /\ Len(p.uuid) = k
        BY <3>2, FunctionSeq
    <3> QED BY <3>1, <3>3
  <2>4. start \in Seq(Octets) /\ p.uuid \in Seq(Octets)
      BY <2>2, <2>3
  <2> HIDE DEF start
  <2>5. head \in Seq(Octets) /\ Len(head) = Len(start) + Len(p.uuid)
      BY <2>4, JoinedSeq
  <2>6. \A i \in 1 .. Len(start) : head[i] = start[i]
      BY <2>4, JoinedLeft
  <2>7. \A i \in 1 .. Len(p.uuid) : head[Len(start) + i] = p.uuid[i]
      BY <2>4, JoinedRight
  <2> HIDE DEF head
  <2> QED BY <2>2, <2>3, <2>5, <2>6, <2>7
<1>5. /\ b1 \in Seq(Octet)
      /\ Len(b1) = 5
      /\ b1[1] = Byte(START_BYTE)
      /\ \A i \in 1 .. 4 : b1[1 + i] = Byte(p.uuid[i])
  <2> HIDE DEF head
  <2>1. /\ b1 \in Seq(Octet)
        /\ Len(b1) = 5
        /\ \A i \in 1 .. 5 : b1[i] = Byte(head[i])
      BY <1>4, BytesCells
  <2> HIDE DEF b1
  <2>2. b1[1] = Byte(head[1]) /\ \A i \in 1 .. 4 : b1[1 + i] = Byte(head[1 + i])
      BY <2>1
  <2> QED BY <2>1, <2>2, <1>4
<1>6. b2 \in Seq(Octet) /\ Len(b2) = 2 /\ b2[1] = Byte(LowByte(n)) /\ b2[2] = Byte(HighByte(n))
  <2> HIDE DEF n
  <2> QED BY <1>2, Le16Cells
<1>7. b3 \in Seq(Octet) /\ Len(b3) = 1 /\ b3[1] = Byte(p.area)
  <2> DEFINE one == <<p.area>>
  <2>1. one \in Seq(Octets) /\ Len(one) = 1 /\ one[1] = p.area
      BY <1>1, Single
  <2> HIDE DEF one
  <2>2. /\ Bytes(one) \in Seq(Octet)
        /\ Len(Bytes(one)) = 1
        /\ \A i \in 1 .. 1 : Bytes(one)[i] = Byte(one[i])
      BY <2>1, BytesCells
  <2>3. Bytes(one)[1] = Byte(p.area)
      BY <2>1, <2>2
  <2> QED BY <2>2, <2>3 DEF one
<1>8. /\ b4 \in Seq(Octet)
      /\ Len(b4) = 2
      /\ b4[1] = Byte(LowByte(p.address))
      /\ b4[2] = Byte(HighByte(p.address))
    BY <1>3, Le16Cells
<1>9. /\ b5 \in Seq(Octet)
      /\ Len(b5) = n
      /\ \A i \in 1 .. n : b5[i] = Byte(p.payload[i])
    BY <1>1, BytesCells
<1> DEFINE c2 == b1 \o b2
           c3 == c2 \o b3
           c4 == c3 \o b4
           c5 == c4 \o b5
<1>10. Body(p) = c5
    BY DEF Body
<1> HIDE DEF n, b1, b2, b3, b4, b5
<1>11. /\ c2 \in Seq(Octet)
       /\ Len(c2) = 7
       /\ \A i \in 1 .. 5 : c2[i] = b1[i]
       /\ c2[6] = b2[1] /\ c2[7] = b2[2]
  <2>1. b1 \in Seq(Octet) /\ b2 \in Seq(Octet)
      BY <1>5, <1>6
  <2>2. c2 \in Seq(Octet) /\ Len(c2) = Len(b1) + Len(b2)
      BY <2>1, JoinedSeq
  <2>3. \A i \in 1 .. Len(b1) : c2[i] = b1[i]
      BY <2>1, JoinedLeft
  <2>4. \A i \in 1 .. Len(b2) : c2[Len(b1) + i] = b2[i]
      BY <2>1, JoinedRight
  <2> HIDE DEF c2
  <2>5. c2[5 + 1] = b2[1] /\ c2[5 + 2] = b2[2]
      BY <1>5, <1>6, <2>4
  <2> QED BY <1>5, <1>6, <2>2, <2>3, <2>5
<1> HIDE DEF c2
<1>12. /\ c3 \in Seq(Octet)
       /\ Len(c3) = 8
       /\ \A i \in 1 .. 7 : c3[i] = c2[i]
       /\ c3[8] = b3[1]
  <2>1. c2 \in Seq(Octet) /\ b3 \in Seq(Octet)
      BY <1>7, <1>11
  <2>2. c3 \in Seq(Octet) /\ Len(c3) = Len(c2) + Len(b3)
      BY <2>1, JoinedSeq
  <2>3. \A i \in 1 .. Len(c2) : c3[i] = c2[i]
      BY <2>1, JoinedLeft
  <2>4. \A i \in 1 .. Len(b3) : c3[Len(c2) + i] = b3[i]
      BY <2>1, JoinedRight
  <2> HIDE DEF c3
  <2>5. c3[7 + 1] = b3[1]
      BY <1>7, <1>11, <2>4
  <2> QED BY <1>7, <1>11, <2>2, <2>3, <2>5
<1> HIDE DEF c3
<1>13. /\ c4 \in Seq(Octet)
       /\ Len(c4) = 10
       /\ \A i \in 1 .. 8 : c4[i] = c3[i]
       /\ c4[9] = b4[1] /\ c4[10] = b4[2]
  <2>1. c3 \in Seq(Octet) /\ b4 \in Seq(Octet)
      BY <1>8, <1>12
  <2>2. c4 \in Seq(Octet) /\ Len(c4) = Len(c3) + Len(b4)
      BY <2>1, JoinedSeq
  <2>3. \A i \in 1 .. Len(c3) : c4[i] = c3[i]
      BY <2>1, JoinedLeft
  <2>4. \A i \in 1 .. Len(b4) : c4[Len(c3) + i] = b4[i]
      BY <2>1, JoinedRight
  <2> HIDE DEF c4
  <2>5. c4[8 + 1] = b4[1] /\ c4[8 + 2] = b4[2]
      BY <1>8, <1>12, <2>4
  <2> QED BY <1>8, <1>12, <2>2, <2>3, <2>5
<1> HIDE DEF c4
<1>14. /\ c5 \in Seq(Octet)
       /\ Len(c5) = 10 + n
       /\ \A i \in 1 .. 10 : c5[i] = c4[i]
       /\ \A i \in 1 .. n : c5[10 + i] = b5[i]
  <2>1. c4 \in Seq(Octet) /\ b5 \in Seq(Octet)
      BY <1>9, <1>13
  <2>2. c5 \in Seq(Octet) /\ Len(c5) = Len(c4) + Len(b5)
      BY <2>1, JoinedSeq
  <2>3. \A i \in 1 .. Len(c4) : c5[i] = c4[i]
      BY <2>1, JoinedLeft
  <2>4. \A i \in 1 .. Len(b5) : c5[Len(c4) + i] = b5[i]
      BY <2>1, JoinedRight
  <2> HIDE DEF c5
  <2> QED BY <1>2, <1>9, <1>13, <2>2, <2>3, <2>4
<1> HIDE DEF c5
<1>15. /\ c5[1] = b1[1] /\ c5[6] = b2[1] /\ c5[7] = b2[2]
       /\ c5[8] = b3[1] /\ c5[9] = b4[1] /\ c5[10] = b4[2]
       /\ \A i \in 1 .. 4 : c5[1 + i] = b1[1 + i]
    BY <1>11, <1>12, <1>13, <1>14
<1>16. \A i \in 1 .. n : c5[10 + i] = Byte(p.payload[i])
    BY <1>9, <1>14
<1>17. Body(p) \in Seq(Octet) /\ Len(Body(p)) = HEADER_OFFSET + Len(p.payload)
    BY ONLY <1>10, <1>14 DEF HEADER_OFFSET, n
<1>18. Body(p)[1] = Byte(START_BYTE) /\ \A i \in 1 .. 4 : Body(p)[1 + i] = Byte(p.uuid[i])
    BY ONLY <1>5, <1>10, <1>15
<1>19. Body(p)[6] = Byte(LowByte(Len(p.payload))) /\ Body(p)[7] = Byte(HighByte(Len(p.payload)))
    BY ONLY <1>6, <1>10, <1>15, Zenon DEF n
<1>20. Body(p)[8] = Byte(p.area)
    BY ONLY <1>7, <1>10, <1>15, Zenon
<1>21. Body(p)[9] = Byte(LowByte(p.address)) /\ Body(p)[10] = Byte(HighByte(p.address))
    BY ONLY <1>8, <1>10, <1>15, Zenon
<1>22. \A i \in 1 .. Len(p.payload) : Body(p)[HEADER_OFFSET + i] = Byte(p.payload[i])
    BY ONLY <1>10, <1>16, Zenon DEF HEADER_OFFSET, n
<1> QED BY ONLY <1>17, <1>18, <1>19, <1>20, <1>21, <1>22, Zenon

(* The same, field by field.                                               *)
LEMMA BodyFields ==
    ASSUME NEW p \in TitaniumPackages, Len(p.payload) \in Words
    PROVE  /\ Body(p) \in Seq(Octet)
           /\ Len(Body(p)) = HEADER_OFFSET + Len(p.payload)
           /\ Body(p)[1] = Byte(START_BYTE)
           /\ Body(p)[6] = Byte(LowByte(Len(p.payload)))
           /\ Body(p)[7] = Byte(HighByte(Len(p.payload)))
           /\ Body(p)[8] = Byte(p.area)
           /\ Body(p)[9] = Byte(LowByte(p.address))
           /\ Body(p)[10] = Byte(HighByte(p.address))
<1> QED BY BodyCells, Zenon

(* The four bytes of the uuid ...                                          *)
LEMMA BodyUuid ==
    ASSUME NEW p \in TitaniumPackages, Len(p.payload) \in Words, NEW i \in 1 .. 4
    PROVE  Body(p)[1 + i] = Byte(p.uuid[i])
<1> QED BY BodyCells, Zenon

(* ... and those of the payload.                                           *)
LEMMA BodyPayload ==
    ASSUME NEW p \in TitaniumPackages, Len(p.payload) \in Words, NEW i \in 1 .. Len(p.payload)
    PROVE  Body(p)[HEADER_OFFSET + i] = Byte(p.payload[i])
<1> QED BY BodyCells, Zenon

-----------------------------------------------------------------------------
(* A set of bounded numbers has a least member: otherwise "one less" would *)
(* be one-to-one on the numbers above it, and not onto.                    *)
LEMMA LeastExists ==
    ASSUME NEW n \in Nat, NEW S \in SUBSET (0 .. n), S # {}
    PROVE  Min(S) \in S /\ \A y \in S : Min(S) <= y
<1>1. \E x \in S : \A y \in S : x <= y
  <2> SUFFICES ASSUME \A x \in S : \E y \in S : ~(x <= y)
               PROVE  FALSE
      OBVIOUS
  <2> DEFINE above == {k \in 0 .. n : \E s \in S : s <= k}
             less == [k \in above |-> k - 1]
  <2>1. less \in [above -> above]
    <3> SUFFICES ASSUME NEW k \in above
                 PROVE  k - 1 \in above
        OBVIOUS
    <3>1. PICK s \in S : s <= k
        OBVIOUS
    <3>2. PICK y \in S : ~(s <= y)
        OBVIOUS
    <3> QED BY <3>1, <3>2
  <2>2. IsFiniteSet(above)
    <3>1. IsFiniteSet(0 .. n)
        BY FS_Interval
    <3> QED BY <3>1, FS_Subset
  <2>3. less \in Injection(above, above)
      BY <2>1 DEF Injection, IsInjective
  <2> HIDE DEF less
  <2>4. less \in Surjection(above, above)
      BY <2>2, <2>3, FS_Injection
  <2>5. n \in above
    <3>1. PICK s \in S : TRUE
        OBVIOUS
    <3>2. s <= n
        OBVIOUS
    <3> QED BY <3>2
  <2>6. PICK k \in above : less[k] = n
      BY <2>4, <2>5 DEF Surjection
  <2> QED BY <2>6 DEF less
<1> QED BY <1>1, Zenon DEF Min

(* The least member is within the same bounds.                             *)
LEMMA LeastBetween ==
    ASSUME NEW n \in Nat, NEW S \in SUBSET (0 .. n), S # {}
    PROVE  Min(S) \in 0 .. n
<1>1. Min(S) \in S
    BY LeastExists, Zenon
<1> QED BY <1>1

(* A member below all others is the least.                                 *)
LEMMA LeastIs ==
    ASSUME NEW S \in SUBSET Int, NEW x \in S, \A y \in S : x <= y
    PROVE  Min(S) = x
<1>1. Min(S) \in S /\ \A y \in S : Min(S) <= y
    BY Zenon DEF Min
<1>2. PICK m \in S : m = Min(S)
    BY <1>1
<1>3. m <= x /\ x <= m
    BY <1>1, <1>2
<1> QED BY <1>2, <1>3

-----------------------------------------------------------------------------
(* The number in a cell.                                                   *)
LEMMA NumberOfByte ==
    ASSUME NEW b
    PROVE  Number(Byte(b)) = b
<1> QED BY DEF Number, Byte

(* A 16-bit number out of its two bytes.                                   *)
LEMMA Number16OfBytes ==
    ASSUME NEW m \in Nat, NEW cells, cells[1] = Byte(LowByte(m)), cells[2] = Byte(HighByte(m))
    PROVE  Number16(cells) = m
<1>1. Number16(cells) = LowByte(m) + 256 * HighByte(m)
    BY NumberOfByte DEF Number16
<1>2. LowByte(m) + 256 * HighByte(m) = m
    BY DEF LowByte, HighByte
<1> QED BY ONLY <1>1, <1>2

(* Inside 16 bits, only 0 is taken for exhausted.                          *)
LEMMA ExhaustedAtZero ==
    ASSUME NEW k \in Int, k > -65536, k < 65536
    PROVE  Exhausted(k) <=> k = 0
<1> QED BY DEF Exhausted, Unsigned16

(* A byte is no cell of a checksum.                                        *)
LEMMA ByteIsNoChecksum ==
    ASSUME NEW b, NEW cells, NEW i
    PROVE  Byte(b) # <<cells, i>>
<1>1. Len(Byte(b)) = 1 /\ Len(<<cells, i>>) = 2
    BY DEF Byte
<1> QED BY <1>1

-----------------------------------------------------------------------------
(* The cells that frames of these packages, noise and altered bytes leave. *)
CellOf(P) == Octet \cup {<<Body(p), i>> : p \in P, i \in 1 .. 4}

(* Every cell is read as a number.                                         *)
LEMMA CellNumber ==
    ASSUME NEW P, NEW cell \in CellOf(P) \cup {Beyond}
    PROVE  Number(cell) \in Int
<1>1. CASE cell \in Octet
  <2>1. PICK b \in Octets : cell = Byte(b)
      BY <1>1 DEF Octet
  <2> QED BY <2>1, NumberOfByte, Octets8
<1>2. CASE cell = Beyond
    BY <1>2, NumberOfByte DEF Beyond
<1>3. CASE \E p \in P, i \in 1 .. 4 : cell = <<Body(p), i>>
  <2>1. Len(cell) = 2
      BY <1>3
  <2> QED BY <2>1 DEF Number
<1> QED BY <1>1, <1>2, <1>3 DEF CellOf

(* What Decode accepts, it has checked.                                    *)
LEMMA Accepted ==
    ASSUME NEW memory, NEW size, Decode(memory, size) # NoPackage
    PROVE  LET start == Min(Starts(memory, size))
               remaining == size - start
               length == GetPayloadLength(memory, start, remaining - 6)
               left == remaining - 9 - length
           IN  /\ Starts(memory, size) # {}
               /\ ValidatePayloadLength(length)
               /\ ValidateCRC(GetCRC(memory, start, length, left - 4), memory, start, length)
               /\ Decode(memory, size) =
                    [area |-> GetMemoryArea(memory, start, remaining - 7),
                     address |-> GetAddress(memory, start, remaining - 9),
                     payload |-> GetPayload(memory, start, length)]
<1> QED BY Zenon DEF Decode

(* Whatever lies in the buffer, what Decode accepts is one of the packages *)
(* whose frames left cells in it: the checksum leaves no other.  Only the  *)
(* two fields whose readers find exactly nothing left may be replaced.     *)
THEOREM DecodeSound ==
    ASSUME BufferSize \in Words,
           NEW P \in SUBSET TitaniumPackages, \A p \in P : Len(p.payload) \in Words,
           NEW memory \in [1 .. BufferSize -> CellOf(P)],
           NEW size \in 1 .. BufferSize,
           Decode(memory, size) # NoPackage,
           NEW rest, rest = size - Min(Starts(memory, size))
    PROVE  \E p \in P : Decode(memory, size) =
                [area |-> IF rest = 7 THEN ShortArea ELSE p.area,
                 address |-> IF rest = 9 THEN ShortAddress ELSE p.address,
                 payload |-> p.payload]
<1> DEFINE start == Min(Starts(memory, size))
           remaining == size - start
           length == GetPayloadLength(memory, start, remaining - 6)
           left == remaining - 9 - length
           crc == GetCRC(memory, start, length, left - 4)
           body == Cells(memory, start, HEADER_OFFSET + length)
<1>1. /\ Starts(memory, size) # {}
      /\ ValidatePayloadLength(length)
      /\ ValidateCRC(crc, memory, start, length)
      /\ Decode(memory, size) =
            [area |-> GetMemoryArea(memory, start, remaining - 7),
             address |-> GetAddress(memory, start, remaining - 9),
             payload |-> GetPayload(memory, start, length)]
    BY Accepted, Zenon
<1>2. BufferSize \in Nat /\ BufferSize <= 65535
    BY Words16
<1>3. start \in Int /\ remaining \in Int /\ remaining >= 1 /\ remaining <= BufferSize
  <2> DEFINE starts == Starts(memory, size)
             top == size - 1
  <2>1. top \in Nat /\ starts \in SUBSET (0 .. top) /\ starts # {}
      BY <1>1, <1>2 DEF Starts
  <2>2. top = size - 1
      OBVIOUS
  <2> HIDE DEF starts, top
  <2>3. Min(starts) \in 0 .. top
      BY <2>1, LeastBetween, Zenon
  <2> QED BY <1>2, <2>2, <2>3 DEF starts
<1>4. rest = remaining
    OBVIOUS
<1> HIDE DEF start, remaining
<1>5. \A from \in Int, m \in Int : \A i \in 1 .. m :
        Cells(memory, from, m)[i] \in CellOf(P) \cup {Beyond}
    BY DEF Cells
<1>6. length \in Int
  <2> DEFINE cells == Cells(memory, start + 5, 2)
  <2>1. cells[1] \in CellOf(P) \cup {Beyond} /\ cells[2] \in CellOf(P) \cup {Beyond}
      BY <1>3, <1>5
  <2> HIDE DEF cells
  <2>2. Number(cells[1]) \in Int /\ Number(cells[2]) \in Int
      BY <2>1, CellNumber
  <2>3. Number16(cells) \in Int
      BY <2>2 DEF Number16
  <2> QED BY <2>3 DEF cells, GetPayloadLength, ShortLength
<1> HIDE DEF length
<1>7. crc = CalculatedCRC32(body)
    BY <1>1 DEF ValidateCRC
<1>8. crc[1] = <<body, 1>>
    BY <1>7 DEF CalculatedCRC32
<1> HIDE DEF body
<1>9. crc = Cells(memory, start + HEADER_OFFSET + length, 4)
  <2>1. PICK b : ShortCRC[1] = Byte(b)
      BY DEF ShortCRC, Bytes
  <2>2. ShortCRC[1] # <<body, 1>>
      BY <2>1, ByteIsNoChecksum
  <2>3. crc # ShortCRC
      BY <1>8, <2>2, Zenon
  <2> QED BY <2>3 DEF GetCRC
<1> HIDE DEF crc
<1>10. PICK p \in P : body = Body(p)
  <2>1. crc[1] \in CellOf(P) \cup {Beyond}
      BY <1>3, <1>5, <1>6, <1>9 DEF HEADER_OFFSET
  <2>2. crc[1] # Beyond
      BY <1>8, ByteIsNoChecksum DEF Beyond
  <2>3. crc[1] \notin Octet
      BY <1>8, ByteIsNoChecksum DEF Octet
  <2>4. PICK p \in P, i \in 1 .. 4 : crc[1] = <<Body(p), i>>
      BY <2>1, <2>2, <2>3 DEF CellOf
  <2> QED BY <1>8, <2>4
<1> DEFINE n == Len(p.payload)
<1>11. p \in TitaniumPackages /\ Len(p.payload) \in Words
    OBVIOUS
<1>12. n \in Nat
  <2>1. p.payload \in Seq(Octets)
      BY DEF TitaniumPackages
  <2> QED BY <2>1, LenProperties
<1>13. /\ p.area \in Octets
       /\ p.address \in Words
       /\ p.payload \in [1 .. n -> Octets]
  <2>1. p.area \in Octets /\ p.address \in Words /\ p.payload \in Seq(Octets)
      BY DEF TitaniumPackages
  <2> QED BY <2>1, LenProperties
<1>14. /\ body \in Seq(Octet)
       /\ Len(body) = HEADER_OFFSET + n
       /\ body[8] = Byte(p.area)
       /\ body[9] = Byte(LowByte(p.address))
       /\ body[10] = Byte(HighByte(p.address))
       /\ \A i \in 1 .. n : body[HEADER_OFFSET + i] = Byte(p.payload[i])
  <2>1. /\ body \in Seq(Octet)
        /\ Len(body) = HEADER_OFFSET + n
        /\ body[8] = Byte(p.area)
        /\ body[9] = Byte(LowByte(p.address))
        /\ body[10] = Byte(HighByte(p.address))
      BY ONLY <1>10, <1>11, BodyFields, Zenon DEF n
  <2>2. ASSUME NEW i \in 1 .. n
        PROVE  body[HEADER_OFFSET + i] = Byte(p.payload[i])
      BY <1>10, <1>11, BodyPayload
  <2> QED BY <2>1, <2>2
<1> HIDE DEF n
<1>15. length = n
  <2>1. DOMAIN body = 1 .. HEADER_OFFSET + length
      BY DEF body, Cells
  <2>2. DOMAIN body = 1 .. HEADER_OFFSET + n
      BY <1>14, LenProperties
  <2>3. 1 .. 10 + length = 1 .. 10 + n
      BY <2>1, <2>2 DEF HEADER_OFFSET
  <2>4. 10 + n \in 1 .. 10 + n
      BY <1>12
  <2>5. 10 + n <= 10 + length
      BY <2>3, <2>4, <1>6, <1>12
  <2>6. 10 + length \in 1 .. 10 + length
      BY <2>5, <1>6, <1>12
  <2>7. 10 + length <= 10 + n
      BY <2>3, <2>6, <1>6, <1>12
  <2> QED BY <2>5, <2>7, <1>6, <1>12
<1>16. ASSUME NEW k \in Nat, NEW m \in Nat, NEW i \in 1 .. m, k + i <= 10 + n
       PROVE  Cells(memory, start + k, m)[i] = body[k + i]
  <2> DEFINE all == HEADER_OFFSET + length
  <2>1. all \in Int /\ k + i \in 1 .. all
      BY <1>12, <1>15, <1>16 DEF HEADER_OFFSET
  <2>2. start \in Int /\ k \in Int /\ m \in Int
      BY <1>3
  <2> HIDE DEF all
  <2>3. Cells(memory, start + k, m)[i] = Cells(memory, start, all)[k + i]
    <3>1. (start + k) + i = start + (k + i)
        BY <2>2
    <3> QED BY <2>1, <3>1 DEF Cells
  <2> QED BY <2>3 DEF body, all
<1>17. GetMemoryArea(memory, start, remaining - 7) =
            IF remaining = 7 THEN ShortArea ELSE p.area
  <2>1. Exhausted(remaining - 7) <=> remaining = 7
      BY <1>3, <1>2, ExhaustedAtZero
  <2>2. Cells(memory, start + 7, 1)[1] = body[7 + 1]
      BY <1>12, <1>16
  <2>3. Number(Cells(memory, start + 7, 1)[1]) = p.area
      BY <1>14, <2>2, NumberOfByte
  <2> QED BY <2>1, <2>3 DEF GetMemoryArea
<1>18. GetAddress(memory, start, remaining - 9) =
            IF remaining = 9 THEN ShortAddress ELSE p.address
  <2> DEFINE cells == Cells(memory, start + 8, 2)
  <2>1. Exhausted(remaining - 9) <=> remaining = 9
      BY <1>3, <1>2, ExhaustedAtZero
  <2>2. cells[1] = body[8 + 1] /\ cells[2] = body[8 + 2]
      BY <1>12, <1>16
  <2> HIDE DEF cells
  <2>3. p.address \in Nat
      BY <1>13, Words16
  <2>4. cells[1] = Byte(LowByte(p.address)) /\ cells[2] = Byte(HighByte(p.address))
      BY <1>14, <2>2
  <2>5. Number16(cells) = p.address
      BY <2>3, <2>4, Number16OfBytes
  <2> QED BY <2>1, <2>5 DEF GetAddress, cells
<1>19. GetPayload(memory, start, length) = p.payload
  <2>1. ASSUME NEW i \in 1 .. n
        PROVE  Number(Cells(memory, start + HEADER_OFFSET, length)[i]) = p.payload[i]
    <3>1. Cells(memory, start + HEADER_OFFSET, length)[i] = body[HEADER_OFFSET + i]
      <4>1. HEADER_OFFSET \in Nat /\ HEADER_OFFSET + i <= 10 + n
          BY <1>12 DEF HEADER_OFFSET
      <4>2. length \in Nat /\ i \in 1 .. length
          BY <1>12, <1>15
      <4> QED BY <4>1, <4>2, <1>16, Zenon
    <3>2. body[HEADER_OFFSET + i] = Byte(p.payload[i])
        BY <1>14
    <3> QED BY <3>1, <3>2, NumberOfByte
  <2>2. GetPayload(memory, start, length) = [i \in 1 .. n |-> p.payload[i]]
      BY <1>15, <2>1 DEF GetPayload
  <2>3. p.payload \in [1 .. n -> Octets]
      BY <1>13
  <2>4. p.payload = [i \in 1 .. n |-> p.payload[i]]
      BY <2>3
  <2> QED BY <2>2, <2>4
<1>20. Decode(memory, size) =
            [area |-> IF rest = 7 THEN ShortArea ELSE p.area,
             address |-> IF rest = 9 THEN ShortAddress ELSE p.address,
             payload |-> p.payload]
    BY <1>1, <1>4, <1>17, <1>18, <1>19
<1> QED BY <1>20

-----------------------------------------------------------------------------
(* A frame is a body, its checksum, and END.                               *)
LEMMA FrameFields ==
    ASSUME NEW p \in TitaniumPackages, Len(p.payload) \in Words
    PROVE  /\ Frame(p) \in Seq(CellOf({p}))
           /\ Len(Frame(p)) = FRAMING + Len(p.payload)
           /\ \A i \in 1 .. HEADER_OFFSET + Len(p.payload) : Frame(p)[i] = Body(p)[i]
           /\ \A i \in 1 .. 4 :
                Frame(p)[HEADER_OFFSET + Len(p.payload) + i] = <<Body(p), i>>
           /\ Frame(p)[HEADER_OFFSET + Len(p.payload) + 5] = Byte(END_BYTE)
<1> DEFINE S == CellOf({p})
           size == HEADER_OFFSET + Len(p.payload)
           body == Body(p)
           crc == CalculatedCRC32(Body(p))
           end == Bytes(<<END_BYTE>>)
           most == body \o crc
           frame == most \o end
<1>1. size \in Nat
  <2>1. Len(p.payload) \in Nat
      BY Words16
  <2> QED BY <2>1 DEF HEADER_OFFSET
<1>2. body \in Seq(S) /\ Len(body) = size
  <2>1. body \in Seq(Octet) /\ Len(body) = size
      BY BodyFields
  <2>2. Octet \subseteq S
      BY DEF CellOf
  <2> HIDE DEF S, body
  <2>3. body \in Seq(S)
      BY <2>1, <2>2, SeqMonotonic
  <2> QED BY <2>1, <2>3
<1>3. crc \in Seq(S) /\ Len(crc) = 4 /\ \A i \in 1 .. 4 : crc[i] = <<Body(p), i>>
  <2>1. crc = [i \in 1 .. 4 |-> <<Body(p), i>>]
      BY DEF CalculatedCRC32
  <2>2. \A i \in 1 .. 4 : <<Body(p), i>> \in S
      BY DEF CellOf
  <2>3. crc \in [1 .. 4 -> S] /\ \A i \in 1 .. 4 : crc[i] = <<Body(p), i>>
      BY <2>1, <2>2
  <2>4. PICK k \in Nat : k = 4
      OBVIOUS
  <2> HIDE DEF crc, S
  <2>5. crc \in [1 .. k -> S]
      BY <2>3, <2>4
  <2>6. crc \in Seq(S) /\ Len(crc) = k
      BY <2>5, FunctionSeq
  <2> QED BY <2>3, <2>4, <2>6
<1>4. end \in Seq(S) /\ Len(end) = 1 /\ end[1] = Byte(END_BYTE)
  <2> DEFINE one == <<END_BYTE>>
  <2>1. END_BYTE \in Octets
      BY Octets8 DEF END_BYTE
  <2>2. one \in Seq(Octets) /\ Len(one) = 1 /\ one[1] = END_BYTE
      BY <2>1, Single
  <2> HIDE DEF one
  <2>3. /\ Bytes(one) \in Seq(Octet)
        /\ Len(Bytes(one)) = 1
        /\ \A i \in 1 .. 1 : Bytes(one)[i] = Byte(one[i])
      BY <2>2, BytesCells
  <2>4. Octet \subseteq S
      BY DEF CellOf
  <2> HIDE DEF S
  <2>5. Bytes(one) \in Seq(S)
      BY <2>3, <2>4, SeqMonotonic
  <2>6. Bytes(one)[1] = Byte(END_BYTE)
      BY <2>2, <2>3
  <2> QED BY <2>3, <2>5, <2>6 DEF one
<1>5. Frame(p) = frame
    BY DEF Frame
<1> HIDE DEF S, size, body, crc, end
<1>6. /\ most \in Seq(S)
      /\ Len(most) = size + 4
      /\ \A i \in 1 .. size : most[i] = body[i]
      /\ \A i \in 1 .. 4 : most[size + i] = crc[i]
  <2>1. body \in Seq(S) /\ crc \in Seq(S)
      BY <1>2, <1>3
  <2>2. most \in Seq(S) /\ Len(most) = Len(body) + Len(crc)
      BY <2>1, JoinedSeq
  <2>3. \A i \in 1 .. Len(body) : most[i] = body[i]
      BY <2>1, JoinedLeft
  <2>4. \A i \in 1 .. Len(crc) : most[Len(body) + i] = crc[i]
      BY <2>1, JoinedRight
  <2> HIDE DEF most
  <2> QED BY <1>2, <1>3, <2>2, <2>3, <2>4
<1> HIDE DEF most
<1>7. /\ frame \in Seq(S)
      /\ Len(frame) = size + 5
      /\ \A i \in 1 .. size + 4 : frame[i] = most[i]
      /\ frame[size + 5] = end[1]
  <2>1. most \in Seq(S) /\ end \in Seq(S)
      BY <1>4, <1>6
  <2>2. frame \in Seq(S) /\ Len(frame) = Len(most) + Len(end)
      BY <2>1, JoinedSeq
  <2>3. \A i \in 1 .. Len(most) : frame[i] = most[i]
      BY <2>1, JoinedLeft
  <2>4. \A i \in 1 .. Len(end) : frame[Len(most) + i] = end[i]
      BY <2>1, JoinedRight
  <2> HIDE DEF frame
  <2>5. frame[(size + 4) + 1] = end[1]
      BY <1>4, <1>6, <2>4
  <2>6. (size + 4) + 1 = size + 5
      BY <1>1
  <2> QED BY <1>1, <1>4, <1>6, <2>2, <2>3, <2>5, <2>6
<1> HIDE DEF frame
<1>8. \A i \in 1 .. size : frame[i] = body[i]
    BY <1>1, <1>6, <1>7
<1>9. ASSUME NEW i \in 1 .. 4
      PROVE  frame[size + i] = <<Body(p), i>>
  <2>1. size + i \in 1 .. size + 4
      BY <1>1
  <2>2. frame[size + i] = most[size + i] /\ most[size + i] = crc[i]
      BY <1>6, <1>7, <2>1
  <2> QED BY <1>3, <2>2
<1>10. FRAMING + Len(p.payload) = size + 5
  <2>1. Len(p.payload) \in Nat
      BY Words16
  <2> QED BY <2>1 DEF size, FRAMING, HEADER_OFFSET
<1> QED BY <1>4, <1>5, <1>7, <1>8, <1>9, <1>10 DEF S, size, body

(* The first START, when only the bytes before it are known to be none.    *)
LEMMA FirstStart ==
    ASSUME NEW memory, NEW size \in Nat, NEW before \in 0 .. size - 1,
           memory[before + 1] = Byte(START_BYTE),
           \A i \in 1 .. before : memory[i] # Byte(START_BYTE)
    PROVE  Starts(memory, size) # {} /\ Min(Starts(memory, size)) = before
<1> DEFINE starts == Starts(memory, size)
<1>1. before \in starts
    BY DEF Starts
<1>2. ASSUME NEW y \in starts
      PROVE  before <= y
  <2>1. y \in 0 .. size - 1 /\ memory[y + 1] = Byte(START_BYTE)
      BY DEF Starts
  <2> SUFFICES ASSUME ~(before <= y)
               PROVE  FALSE
      OBVIOUS
  <2>2. y + 1 \in 1 .. before
      BY <2>1
  <2> QED BY <2>1, <2>2
<1>3. starts \in SUBSET Int
    BY DEF Starts
<1> HIDE DEF starts
<1>4. Min(starts) = before
    BY <1>1, <1>2, <1>3, LeastIs
<1> QED BY <1>1, <1>4 DEF starts

(* A frame that lies in the buffer whole, behind no other START, is taken  *)
(* for the package it was made of, unless its uuid or its address is one   *)
(* the validators refuse: whatever lies before it and behind it.           *)
THEOREM DecodeUnharmed ==
    ASSUME BufferSize \in Words,
           NEW p \in TitaniumPackages, Len(p.payload) \in Words,
           ValidatePayloadLength(Len(p.payload)),
           NEW memory, DOMAIN memory = 1 .. BufferSize,
           NEW size \in 1 .. BufferSize,
           NEW before \in 0 .. size - 1,
           before + Len(Frame(p)) <= size,
           \A i \in 1 .. Len(Frame(p)) : memory[before + i] = Frame(p)[i],
           \A i \in 1 .. before : memory[i] # Byte(START_BYTE)
    PROVE  Decode(memory, size) =
                IF ValidateUUID(Bytes(p.uuid)) /\ ValidateAddress(p.address)
                THEN [area |-> p.area, address |-> p.address, payload |-> p.payload]
                ELSE NoPackage
<1> DEFINE n == Len(p.payload)
           start == Min(Starts(memory, size))
           remaining == size - start
           left == remaining - 9 - n
           frame == Frame(p)
<1>1. n \in Nat /\ n \in Words /\ p \in TitaniumPackages
  <2>1. Len(p.payload) \in Nat
      BY Words16
  <2> QED BY <2>1
<1>2. BufferSize \in Nat /\ BufferSize <= 65535
    BY Words16
<1>3. /\ p.uuid \in [1 .. 4 -> Octets]
      /\ p.area \in Octets
      /\ p.address \in Words
      /\ p.payload \in [1 .. n -> Octets]
  <2>1. /\ p.uuid \in [1 .. 4 -> Octets] /\ p.area \in Octets /\ p.address \in Words
        /\ p.payload \in Seq(Octets)
      BY DEF TitaniumPackages
  <2> QED BY <2>1, LenProperties
<1> HIDE DEF n
<1>4. /\ Len(frame) = 15 + n
      /\ \A i \in 1 .. 10 + n : frame[i] = Body(p)[i]
      /\ \A i \in 1 .. 4 : frame[10 + n + i] = <<Body(p), i>>
      /\ frame[10 + n + 5] = Byte(END_BYTE)
  <2>1. /\ Len(Frame(p)) = FRAMING + Len(p.payload)
        /\ \A i \in 1 .. HEADER_OFFSET + Len(p.payload) : Frame(p)[i] = Body(p)[i]
        /\ \A i \in 1 .. 4 :
                Frame(p)[HEADER_OFFSET + Len(p.payload) + i] = <<Body(p), i>>
        /\ Frame(p)[HEADER_OFFSET + Len(p.payload) + 5] = Byte(END_BYTE)
      BY FrameFields
  <2>2. HEADER_OFFSET = 10 /\ FRAMING = 15
      BY DEF HEADER_OFFSET, FRAMING
  <2> QED BY <2>1, <2>2 DEF n
<1>5. /\ Len(Body(p)) = 10 + n
      /\ Body(p) \in Seq(Octet)
      /\ Body(p)[1] = Byte(START_BYTE)
      /\ Body(p)[6] = Byte(LowByte(n))
      /\ Body(p)[7] = Byte(HighByte(n))
      /\ Body(p)[8] = Byte(p.area)
      /\ Body(p)[9] = Byte(LowByte(p.address))
      /\ Body(p)[10] = Byte(HighByte(p.address))
  <2>1. /\ Body(p) \in Seq(Octet)
        /\ Len(Body(p)) = HEADER_OFFSET + Len(p.payload)
        /\ Body(p)[1] = Byte(START_BYTE)
        /\ Body(p)[6] = Byte(LowByte(Len(p.payload)))
        /\ Body(p)[7] = Byte(HighByte(Len(p.payload)))
        /\ Body(p)[8] = Byte(p.area)
        /\ Body(p)[9] = Byte(LowByte(p.address))
        /\ Body(p)[10] = Byte(HighByte(p.address))
      BY BodyFields
  <2> QED BY <2>1 DEF HEADER_OFFSET, n
<1> HIDE DEF frame
<1>6. before + 15 + n <= size
    BY <1>1, <1>4 DEF frame
<1>7. \A i \in 1 .. 15 + n : memory[before + i] = frame[i]
    BY <1>4 DEF frame
<1>8. Starts(memory, size) # {} /\ start = before
  <2>1. memory[before + 1] = Byte(START_BYTE)
      BY <1>1, <1>4, <1>5, <1>7
  <2>2. size \in Nat
      BY <1>2
  <2> QED BY <2>1, <2>2, FirstStart
<1> HIDE DEF start
<1>9. remaining \in Int /\ 15 + n <= remaining /\ remaining <= BufferSize
    BY <1>1, <1>2, <1>6, <1>8
<1>10. start \in Int
    BY <1>8
<1>11. ASSUME NEW k \in Nat, NEW m \in Nat, NEW i \in 1 .. m, k + i <= 15 + n
       PROVE  Cells(memory, start + k, m)[i] = frame[k + i]
  <2>1. k + i \in 1 .. 15 + n
      BY <1>1, <1>11
  <2>2. start + k + i = before + (k + i) /\ start + k + i \in DOMAIN memory
      BY <1>1, <1>2, <1>6, <1>8, <2>1
  <2>3. Cells(memory, start + k, m)[i] = memory[start + k + i]
      BY <2>2 DEF Cells
  <2>4. memory[before + (k + i)] = frame[k + i]
      BY <1>7, <2>1
  <2> QED BY <2>2, <2>3, <2>4
<1> HIDE DEF remaining
<1>12. GetUUID(memory, start, remaining - 4) = Bytes(p.uuid)
  <2>1. Unsigned16(remaining - 4) = remaining - 4
      BY <1>1, <1>2, <1>9 DEF Unsigned16
  <2>2. ~(Unsigned16(remaining - 4) <= 4)
      BY <1>1, <1>9, <2>1
  <2>3. ASSUME NEW i \in 1 .. 4
        PROVE  Cells(memory, start + 1, 4)[i] = Byte(p.uuid[i])
    <3>1. Cells(memory, start + 1, 4)[i] = frame[1 + i]
        BY <1>1, <1>11
    <3>2. frame[1 + i] = Body(p)[1 + i]
      <4>1. 1 + i \in 1 .. 10 + n
          BY <1>1
      <4> QED BY <1>4, <4>1
    <3>3. Body(p)[1 + i] = Byte(p.uuid[i])
        BY <1>1, BodyUuid, Zenon DEF n
    <3> QED BY <3>1, <3>2, <3>3
  <2>4. Cells(memory, start + 1, 4) = [i \in 1 .. 4 |-> Byte(p.uuid[i])]
      BY <2>3 DEF Cells
  <2>5. Bytes(p.uuid) = [i \in 1 .. 4 |-> Byte(p.uuid[i])]
      BY <1>3 DEF Bytes
  <2> QED BY <2>2, <2>4, <2>5 DEF GetUUID
<1>13. GetPayloadLength(memory, start, remaining - 6) = n
  <2> DEFINE cells == Cells(memory, start + 5, 2)
  <2>1. ~Exhausted(remaining - 6)
      BY <1>1, <1>2, <1>9, ExhaustedAtZero
  <2>2. cells[1] = frame[5 + 1] /\ cells[2] = frame[5 + 2]
    <3>1. /\ 5 \in Nat /\ 2 \in Nat /\ 1 \in 1 .. 2 /\ 2 \in 1 .. 2
          /\ 5 + 1 <= 15 + n /\ 5 + 2 <= 15 + n
        BY <1>1
    <3> QED BY <1>11, <3>1, Zenon
  <2> HIDE DEF cells
  <2>3. cells[1] = Byte(LowByte(n)) /\ cells[2] = Byte(HighByte(n))
      BY <1>1, <1>4, <1>5, <2>2
  <2>4. Number16(cells) = n
      BY <1>1, <2>3, Number16OfBytes
  <2> QED BY <2>1, <2>4 DEF GetPayloadLength, cells
<1>14. GetMemoryArea(memory, start, remaining - 7) = p.area
  <2>1. ~Exhausted(remaining - 7)
      BY <1>1, <1>2, <1>9, ExhaustedAtZero
  <2>2. Cells(memory, start + 7, 1)[1] = frame[7 + 1]
    <3>1. 7 \in Nat /\ 1 \in Nat /\ 1 \in 1 .. 1 /\ 7 + 1 <= 15 + n
        BY <1>1
    <3> QED BY <1>11, <3>1, Zenon
  <2>3. Number(Cells(memory, start + 7, 1)[1]) = p.area
      BY <1>1, <1>4, <1>5, <2>2, NumberOfByte
  <2> QED BY <2>1, <2>3 DEF GetMemoryArea
<1>15. GetAddress(memory, start, remaining - 9) = p.address
  <2> DEFINE cells == Cells(memory, start + 8, 2)
  <2>1. ~Exhausted(remaining - 9)
      BY <1>1, <1>2, <1>9, ExhaustedAtZero
  <2>2. cells[1] = frame[8 + 1] /\ cells[2] = frame[8 + 2]
    <3>1. /\ 8 \in Nat /\ 2 \in Nat /\ 1 \in 1 .. 2 /\ 2 \in 1 .. 2
          /\ 8 + 1 <= 15 + n /\ 8 + 2 <= 15 + n
        BY <1>1
    <3> QED BY <1>11, <3>1, Zenon
  <2> HIDE DEF cells
  <2>3. cells[1] = Byte(LowByte(p.address)) /\ cells[2] = Byte(HighByte(p.address))
      BY <1>1, <1>4, <1>5, <2>2
  <2>4. p.address \in Nat
      BY <1>3, Words16
  <2>5. Number16(cells) = p.address
      BY <2>3, <2>4, Number16OfBytes
  <2> QED BY <2>1, <2>5 DEF GetAddress, cells
<1>16. ~Exhausted(left) /\ ~Exhausted(left - 4) /\ ~Exhausted(left - 5)
    BY <1>1, <1>2, <1>9, ExhaustedAtZero
<1> HIDE DEF left
<1>17. ValidateCRC(GetCRC(memory, start, n, left - 4), memory, start, n)
  <2> DEFINE all == 10 + n
             body == Cells(memory, start, all)
             crc == Cells(memory, start + all, 4)
  <2>1. body = Body(p)
    <3>1. ASSUME NEW i \in 1 .. all
          PROVE  body[i] = Body(p)[i]
      <4>1. Cells(memory, start + 0, all)[i] = frame[0 + i]
        <5>1. 0 \in Nat /\ all \in Nat /\ 0 + i <= 15 + n
            BY <1>1
        <5> HIDE DEF all
        <5> QED BY <1>11, <5>1, Zenon
      <4>2. start + 0 = start /\ 0 + i = i
          BY <1>10
      <4> QED BY <1>4, <4>1, <4>2
    <3>2. DOMAIN body = 1 .. all
        BY DEF Cells
    <3>3. body = [i \in 1 .. all |-> body[i]]
        BY DEF Cells
    <3>4. Body(p) = [i \in 1 .. all |-> Body(p)[i]]
        BY <1>5, LenProperties
    <3> QED BY <3>1, <3>3, <3>4
  <2>2. ASSUME NEW i \in 1 .. 4
        PROVE  crc[i] = <<Body(p), i>>
    <3>1. crc[i] = frame[all + i]
      <4>1. all \in Nat /\ all + i <= 15 + n
          BY <1>1
      <4>2. Cells(memory, start + all, 4)[i] = frame[all + i]
          BY <4>1, <1>11
      <4> QED BY <4>2
    <3> QED BY <1>4, <3>1
  <2>3. crc = [i \in 1 .. 4 |-> <<Body(p), i>>]
      BY <2>2 DEF Cells
  <2>4. start + HEADER_OFFSET + n = start + all /\ HEADER_OFFSET + n = all
      BY <1>1, <1>10 DEF HEADER_OFFSET
  <2>5. GetCRC(memory, start, n, left - 4) = crc
      BY <1>16, <2>4 DEF GetCRC
  <2> QED BY <2>1, <2>3, <2>4, <2>5 DEF ValidateCRC, CalculatedCRC32
<1>18. GetEndByte(memory, start, n, left - 5) = Byte(END_BYTE)
  <2>1. start + HEADER_OFFSET + n + 4 = start + (10 + n + 4)
      BY <1>1, <1>10 DEF HEADER_OFFSET
  <2>2. Cells(memory, start + (10 + n + 4), 1)[1] = frame[(10 + n + 4) + 1]
    <3>1. /\ 10 + n + 4 \in Nat /\ 1 \in Nat /\ 1 \in 1 .. 1
          /\ (10 + n + 4) + 1 <= 15 + n
        BY <1>1
    <3> QED BY <1>11, <3>1, Zenon
  <2>3. (10 + n + 4) + 1 = 10 + n + 5
      BY <1>1
  <2> QED BY <1>4, <1>16, <2>1, <2>2, <2>3 DEF GetEndByte
<1>19. GetPayload(memory, start, n) = p.payload
  <2>1. ASSUME NEW i \in 1 .. n
        PROVE  Number(Cells(memory, start + HEADER_OFFSET, n)[i]) = p.payload[i]
    <3>1. Cells(memory, start + 10, n)[i] = frame[10 + i]
        BY <1>1, <1>11
    <3>2. frame[10 + i] = Body(p)[10 + i]
        BY <1>1, <1>4
    <3>3. Body(p)[10 + i] = Byte(p.payload[i])
        BY <1>1, BodyPayload DEF n, HEADER_OFFSET
    <3> QED BY <3>1, <3>2, <3>3, NumberOfByte DEF HEADER_OFFSET
  <2>2. GetPayload(memory, start, n) = [i \in 1 .. n |-> p.payload[i]]
      BY <2>1 DEF GetPayload
  <2>3. p.payload = [i \in 1 .. n |-> p.payload[i]]
      BY <1>3
  <2> QED BY <2>2, <2>3
<1>20. ValidatePayloadLength(n)
    BY DEF n
<1>21. Decode(memory, size) =
            IF ValidateUUID(Bytes(p.uuid)) /\ ValidateAddress(p.address)
            THEN [area |-> p.area, address |-> p.address, payload |-> p.payload]
            ELSE NoPackage
    BY <1>8, <1>12, <1>13, <1>14, <1>15, <1>16, <1>17, <1>18, <1>19, <1>20, Zenon
    DEF Decode, start, remaining, left
<1> QED BY <1>21
=============================================================================
