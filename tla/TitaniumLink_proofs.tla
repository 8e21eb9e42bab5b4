------------------------- MODULE TitaniumLink_proofs -------------------------
(***************************************************************************)
(* What crosses the link, for any packages, noise, altered bytes and sizes *)
(* of buffer and FIFO, and any number of messages and faults.              *)
(***************************************************************************)
EXTENDS TitaniumLink, TitaniumProtocol_proofs, TLAPS

(* Every cell anywhere is a byte, or a checksum byte of a package sent.    *)
CellsOfSent ==
    /\ buffer_in \in [1 .. BufferSize -> CellOf(sent)]
    /\ coming \in Seq(CellOf(sent))
    /\ ring \in Seq(CellOf(sent))

IInv ==
    /\ TypeOK
    /\ CellsOfSent
    /\ \A p \in sent : Encode(p) # <<>>
    /\ read_pc = "READ" => received_bytes \in 1 .. BufferSize

-----------------------------------------------------------------------------
(* What the assumptions say of the sizes.                                  *)
LEMMA Sizes ==
    /\ BufferSize \in Words /\ BufferSize \in Nat \ {0}
    /\ FifoSize \in Nat /\ MaxFaults \in Nat
    /\ NoPackage \notin DecodedPackages
<1>1. BufferSize \in Words /\ BufferSize # 0 /\ NoPackage \notin DecodedPackages
    BY ProtocolAssumption
<1>2. BufferSize \in Nat
    BY <1>1, Words16
<1> QED BY <1>1, <1>2, LinkAssumption

(* The packages are what other devices can put into a package.             *)
LEMMA PackagesAreSendable ==
    ASSUME NEW p \in Packages
    PROVE  /\ p \in TitaniumPackages
           /\ Len(p.payload) \in Words
           /\ ValidatePayloadLength(Len(p.payload))
<1>1. p \in TitaniumPackages
    BY LinkAssumption
<1>2. Len(p.payload) \in Nat
  <2>1. p.payload \in Seq(Octets)
      BY <1>1 DEF TitaniumPackages
  <2> QED BY <2>1, LenProperties
<1>3. Len(p.payload) <= 256
    BY LinkAssumption
<1>4. Len(p.payload) \in Words
    BY <1>2, <1>3, Words16
<1>5. Len(p.payload) <= 1024
    BY <1>2, <1>3
<1> QED BY <1>1, <1>4, <1>5 DEF ValidatePayloadLength, MAXIMUM_MESSAGE_SIZE

(* More packages leave more cells.                                         *)
LEMMA CellsGrow ==
    ASSUME NEW P, NEW Q, P \subseteq Q
    PROVE  CellOf(P) \subseteq CellOf(Q)
<1> QED BY DEF CellOf

(* A part of a sequence.                                                   *)
LEMMA PartOf ==
    ASSUME NEW S, NEW s \in Seq(S), NEW m \in Nat \ {0}, NEW n \in Int, n <= Len(s)
    PROVE  /\ SubSeq(s, m, n) \in Seq(S)
           /\ Len(SubSeq(s, m, n)) = IF m <= n THEN n - m + 1 ELSE 0
<1>1. Len(s) \in Nat
    BY LenProperties
<1>2. ASSUME NEW i \in m .. n
      PROVE  s[i] \in S
  <2>1. i \in 1 .. Len(s)
      BY <1>1
  <2> QED BY <2>1, ElementOfSeq
<1> QED BY <1>2, SubSeqProperties

-----------------------------------------------------------------------------
(* What goes out for a package.                                            *)
LEMMA EncodeIsFrame ==
    ASSUME NEW p \in Packages, Encode(p) # <<>>
    PROVE  /\ Encode(p) = Frame(p)
           /\ Encode(p) \in Seq(CellOf({p}))
<1>1. Encode(p) = Frame(p)
    BY DEF Encode
<1>2. Frame(p) \in Seq(CellOf({p}))
    BY PackagesAreSendable, FrameFields
<1> QED BY <1>1, <1>2

(* Noise is bytes.                                                         *)
LEMMA NoiseCells ==
    ASSUME NEW noise \in Noise, NEW P
    PROVE  Bytes(noise) \in Seq(CellOf(P))
<1>1. noise \in Seq(Octets)
    BY LinkAssumption
<1>2. Bytes(noise) \in Seq(Octet)
    BY <1>1, BytesCells
<1>3. Octet \subseteq CellOf(P)
    BY DEF CellOf
<1> QED BY <1>2, <1>3, SeqMonotonic

(* Whatever the air or the line makes of a frame, its cells are bytes or   *)
(* of its own checksum.                                                    *)
LEMMA BehindCells ==
    ASSUME NEW p \in Packages, Encode(p) # <<>>, NEW message \in Behind(Encode(p))
    PROVE  message \in Seq(CellOf({p}))
<1>1. PICK noise \in Noise : message = Bytes(noise) \o Encode(p)
    BY DEF Behind
<1>2. Bytes(noise) \in Seq(CellOf({p})) /\ Encode(p) \in Seq(CellOf({p}))
    BY NoiseCells, EncodeIsFrame
<1>3. Bytes(noise) \o Encode(p) \in Seq(CellOf({p}))
    BY <1>2, JoinedSeq
<1> QED BY <1>1, <1>3

(* The same of a frame cut off ...                                         *)
LEMMA CutCells ==
    ASSUME NEW p \in Packages, Encode(p) # <<>>, NEW message \in Cut(Encode(p))
    PROVE  message \in Seq(CellOf({p}))
<1> DEFINE frame == Encode(p)
<1>1. frame \in Seq(CellOf({p}))
    BY EncodeIsFrame
<1>2. PICK length \in 1 .. Len(frame) - 1 : message = SubSeq(frame, 1, length)
    BY DEF Cut
<1> HIDE DEF frame
<1>3. Len(frame) \in Nat
    BY <1>1, LenProperties
<1>4. length \in Int /\ length <= Len(frame)
    BY <1>2, <1>3
<1>5. SubSeq(frame, 1, length) \in Seq(CellOf({p}))
    BY <1>1, <1>4, PartOf
<1> QED BY <1>2, <1>5

(* ... and of one with a byte altered.                                     *)
LEMMA AlteredCells ==
    ASSUME NEW p \in Packages, Encode(p) # <<>>, NEW message \in Altered(Encode(p))
    PROVE  message \in Seq(CellOf({p}))
<1> DEFINE frame == Encode(p)
<1>1. frame \in Seq(CellOf({p}))
    BY EncodeIsFrame
<1>2. PICK at \in DOMAIN frame, wrong \in Wrong : message = [frame EXCEPT ![at] = Byte(wrong)]
    BY DEF Altered
<1> HIDE DEF frame
<1>3. at \in 1 .. Len(frame)
    BY <1>1, <1>2, LenProperties
<1>4. Byte(wrong) \in CellOf({p})
  <2>1. wrong \in Octets
      BY <1>2, LinkAssumption
  <2> QED BY <2>1 DEF CellOf, Octet
<1>5. [frame EXCEPT ![at] = Byte(wrong)] \in Seq(CellOf({p}))
    BY <1>1, <1>3, <1>4, ExceptSeq
<1> QED BY <1>2, <1>5

-----------------------------------------------------------------------------
(* A message received lies on top of what was in the buffer.               *)
LEMMA ReceiveKeeps ==
    ASSUME IInv, NEW message, Receive(message), message \in Seq(CellOf(sent')),
           sent \subseteq sent', sent' \subseteq Packages,
           \A p \in sent' : Encode(p) # <<>>,
           coming' \in Seq(CellOf(sent')), ring' \in Seq(CellOf(sent')),
           Len(ring') <= BufferSize + FifoSize
    PROVE  IInv'
<1> DEFINE S == CellOf(sent')
<1>1. Len(message) \in 1 .. BufferSize
    BY DEF Receive
<1>2. /\ read_pc' = "READ"
      /\ received_bytes' \in 1 .. BufferSize
      /\ received_bytes' \in 0 .. BufferSize
      /\ package' = NoPackage
      /\ faults' \in 0 .. MaxFaults
    BY <1>1, Sizes DEF Receive, IInv, TypeOK
<1>3. buffer_in' \in [1 .. BufferSize -> S]
  <2>1. CellOf(sent) \subseteq S
      BY CellsGrow
  <2>2. buffer_in \in [1 .. BufferSize -> CellOf(sent)]
      BY DEF IInv, CellsOfSent
  <2>3. ASSUME NEW i \in 1 .. BufferSize
        PROVE  (IF i <= Len(message) THEN message[i] ELSE buffer_in[i]) \in S
    <3>1. CASE i <= Len(message)
      <4>1. i \in 1 .. Len(message)
          BY <1>1, <3>1, Sizes
      <4> QED BY <3>1, <4>1, ElementOfSeq
    <3>2. CASE ~(i <= Len(message))
        BY <2>1, <2>2, <3>2
    <3> QED BY <3>1, <3>2
  <2>4. buffer_in' = [i \in 1 .. BufferSize |->
                        IF i <= Len(message) THEN message[i] ELSE buffer_in[i]]
      BY DEF Receive
  <2> HIDE DEF S
  <2> QED BY <2>3, <2>4
<1>4. DOMAIN buffer_in' = 1 .. BufferSize
    BY <1>3
<1>5. TypeOK'
    BY <1>2, <1>4 DEF TypeOK
<1>6. CellsOfSent'
    BY <1>3 DEF CellsOfSent
<1> QED BY <1>2, <1>5, <1>6 DEF IInv

(* What a package sent adds.                                               *)
LEMMA SendKeeps ==
    ASSUME IInv, NEW p \in Packages, Send(p)
    PROVE  /\ Encode(p) # <<>>
           /\ sent \subseteq sent' /\ sent' \subseteq Packages
           /\ \A q \in sent' : Encode(q) # <<>>
           /\ \A s \in Seq(CellOf({p})) : s \in Seq(CellOf(sent'))
           /\ \A s \in Seq(CellOf(sent)) : s \in Seq(CellOf(sent'))
<1>1. Encode(p) # <<>> /\ sent' = sent \cup {p}
    BY DEF Send
<1>2. CellOf({p}) \subseteq CellOf(sent') /\ CellOf(sent) \subseteq CellOf(sent')
    BY <1>1, CellsGrow
<1>3. \A s \in Seq(CellOf({p})) : s \in Seq(CellOf(sent'))
    BY <1>2, SeqMonotonic
<1>4. \A s \in Seq(CellOf(sent)) : s \in Seq(CellOf(sent'))
    BY <1>2, SeqMonotonic
<1> QED BY <1>1, <1>3, <1>4 DEF IInv, TypeOK

(* A frame, or noise, over the air.                                        *)
LEMMA AirKeeps ==
    ASSUME IInv, Air
    PROVE  IInv'
<1>1. coming' = coming /\ ring' = ring
    BY DEF Air
<1>2. /\ coming \in Seq(CellOf(sent)) /\ ring \in Seq(CellOf(sent))
      /\ Len(ring) <= BufferSize + FifoSize
      /\ sent \subseteq Packages /\ \A p \in sent : Encode(p) # <<>>
    BY DEF IInv, TypeOK, CellsOfSent
<1>3. CASE \E noise \in Noise : Receive(Bytes(noise)) /\ UNCHANGED sent
  <2>1. PICK noise \in Noise : Receive(Bytes(noise)) /\ UNCHANGED sent
      BY <1>3
  <2>2. Bytes(noise) \in Seq(CellOf(sent'))
      BY NoiseCells
  <2> QED BY <1>1, <1>2, <2>1, <2>2, ReceiveKeeps
<1>4. CASE \E p \in Packages :
            /\ Send(p)
            /\ \E message \in Behind(Encode(p)) \cup Cut(Encode(p)) \cup Altered(Encode(p)) :
                    Receive(message)
  <2>1. PICK p \in Packages :
            /\ Send(p)
            /\ \E message \in Behind(Encode(p)) \cup Cut(Encode(p)) \cup Altered(Encode(p)) :
                    Receive(message)
      BY <1>4
  <2>2. PICK message \in Behind(Encode(p)) \cup Cut(Encode(p)) \cup Altered(Encode(p)) :
            Receive(message)
      BY <2>1
  <2>3. /\ Encode(p) # <<>>
        /\ sent \subseteq sent' /\ sent' \subseteq Packages
        /\ \A q \in sent' : Encode(q) # <<>>
        /\ \A s \in Seq(CellOf({p})) : s \in Seq(CellOf(sent'))
        /\ \A s \in Seq(CellOf(sent)) : s \in Seq(CellOf(sent'))
      BY <2>1, SendKeeps
  <2>4. message \in Seq(CellOf({p}))
      BY <2>2, <2>3, BehindCells, CutCells, AlteredCells
  <2>5. message \in Seq(CellOf(sent')) /\ coming' \in Seq(CellOf(sent'))
        /\ ring' \in Seq(CellOf(sent'))
      BY <1>1, <1>2, <2>3, <2>4
  <2>6. Len(ring') <= BufferSize + FifoSize
      BY <1>1, <1>2
  <2> QED BY <2>2, <2>3, <2>5, <2>6, ReceiveKeeps
<1> QED BY <1>3, <1>4 DEF Air

-----------------------------------------------------------------------------
(* What comes in over the UART's line.                                     *)
LEMMA ArriveKeeps ==
    ASSUME NEW S, coming \in Seq(S), ring \in Seq(S), NEW n, UART!Arrive(n)
    PROVE  /\ coming' \in Seq(S) /\ ring' \in Seq(S)
           /\ Len(ring') <= BufferSize + FifoSize
<1> DEFINE all == ring \o SubSeq(coming, 1, n)
<1>1. n \in 1 .. Len(coming) /\ Len(coming) \in Nat /\ n \in Nat
  <2>1. Len(coming) \in Nat
      BY LenProperties
  <2> QED BY <2>1 DEF UART!Arrive
<1>2. coming' = SubSeq(coming, n + 1, Len(coming))
    BY DEF UART!Arrive
<1>3. coming' \in Seq(S)
  <2>1. n + 1 \in Nat \ {0} /\ Len(coming) \in Int /\ Len(coming) <= Len(coming)
      BY <1>1
  <2> QED BY <1>2, <2>1, PartOf
<1>4. all \in Seq(S) /\ Len(all) \in Nat
  <2>1. 1 \in Nat \ {0} /\ n \in Int /\ n <= Len(coming)
      BY <1>1
  <2>2. SubSeq(coming, 1, n) \in Seq(S)
      BY <2>1, PartOf
  <2>3. all \in Seq(S)
      BY <2>2, JoinedSeq
  <2> HIDE DEF all
  <2> QED BY <2>3, LenProperties
<1>5. ring' = IF Len(all) <= BufferSize + FifoSize THEN all ELSE SubSeq(all, 1, BufferSize)
    BY DEF UART!Arrive
<1> HIDE DEF all
<1>6. CASE Len(all) <= BufferSize + FifoSize
    BY <1>3, <1>4, <1>5, <1>6
<1>7. CASE ~(Len(all) <= BufferSize + FifoSize)
  <2>1. ring' = SubSeq(all, 1, BufferSize)
      BY <1>5, <1>7
  <2>2. 1 \in Nat \ {0} /\ BufferSize \in Int /\ BufferSize <= Len(all) /\ 1 <= BufferSize
      BY <1>4, <1>7, Sizes
  <2>3. SubSeq(all, 1, BufferSize) \in Seq(S) /\ Len(SubSeq(all, 1, BufferSize)) = BufferSize
    <3>1. /\ SubSeq(all, 1, BufferSize) \in Seq(S)
          /\ Len(SubSeq(all, 1, BufferSize)) =
                IF 1 <= BufferSize THEN BufferSize - 1 + 1 ELSE 0
        BY <1>4, <2>2, PartOf
    <3> QED BY <2>2, <3>1
  <2> QED BY <1>3, <2>1, <2>3, Sizes
<1> QED BY <1>6, <1>7

(* A frame, noise or a part of either on the UART's line.                  *)
LEMMA LineKeeps ==
    ASSUME IInv, Line
    PROVE  IInv'
<1>1. UNCHANGED <<driver, buffer_in, received_bytes, package, read_pc>>
    BY DEF Line, process
<1>2. /\ sent \subseteq sent' /\ sent' \subseteq Packages
      /\ \A p \in sent' : Encode(p) # <<>>
      /\ coming' \in Seq(CellOf(sent')) /\ ring' \in Seq(CellOf(sent'))
      /\ Len(ring') <= BufferSize + FifoSize
      /\ faults' \in 0 .. MaxFaults
  <2>1. /\ coming \in Seq(CellOf(sent)) /\ ring \in Seq(CellOf(sent))
        /\ Len(ring) <= BufferSize + FifoSize /\ faults \in 0 .. MaxFaults
        /\ sent \subseteq Packages /\ \A p \in sent : Encode(p) # <<>>
      BY DEF IInv, TypeOK, CellsOfSent
  <2>2. CASE /\ \E p \in Packages :
                    /\ Send(p)
                    /\ \E message \in Behind(Encode(p)) : UART!Begin(message)
             /\ UNCHANGED faults
    <3>1. PICK p \in Packages :
                /\ Send(p)
                /\ \E message \in Behind(Encode(p)) : UART!Begin(message)
        BY <2>2
    <3>2. PICK message \in Behind(Encode(p)) : UART!Begin(message)
        BY <3>1
    <3>3. /\ Encode(p) # <<>>
          /\ sent \subseteq sent' /\ sent' \subseteq Packages
          /\ \A q \in sent' : Encode(q) # <<>>
          /\ \A s \in Seq(CellOf({p})) : s \in Seq(CellOf(sent'))
          /\ \A s \in Seq(CellOf(sent)) : s \in Seq(CellOf(sent'))
        BY <3>1, SendKeeps
    <3>4. message \in Seq(CellOf({p}))
        BY <3>2, <3>3, BehindCells
    <3>5. coming' = message /\ ring' = ring /\ faults' = faults
        BY <2>2, <3>2 DEF UART!Begin
    <3> QED BY <2>1, <3>3, <3>4, <3>5
  <2>3. CASE UART!Arrive(Len(coming)) /\ UNCHANGED <<sent, faults>>
    <3>1. /\ coming' \in Seq(CellOf(sent)) /\ ring' \in Seq(CellOf(sent))
          /\ Len(ring') <= BufferSize + FifoSize
        BY <2>1, <2>3, ArriveKeeps
    <3>2. sent' = sent /\ faults' = faults
        BY <2>3
    <3> QED BY <2>1, <3>1, <3>2
  <2>4. CASE /\ faults < MaxFaults
             /\ faults' = faults + 1
             /\ \/ \E noise \in Noise : UART!Begin(Bytes(noise))
                \/ \E n \in 1 .. Len(coming) - 1 : UART!Arrive(n)
             /\ UNCHANGED sent
    <3>1. faults' \in 0 .. MaxFaults /\ sent' = sent
        BY <2>1, <2>4, Sizes
    <3>2. CASE \E noise \in Noise : UART!Begin(Bytes(noise))
      <4>1. PICK noise \in Noise : UART!Begin(Bytes(noise))
          BY <3>2
      <4>2. coming' = Bytes(noise) /\ ring' = ring
          BY <4>1 DEF UART!Begin
      <4>3. Bytes(noise) \in Seq(CellOf(sent'))
          BY NoiseCells
      <4> QED BY <2>1, <3>1, <4>2, <4>3
    <3>3. CASE \E n \in 1 .. Len(coming) - 1 : UART!Arrive(n)
      <4>1. PICK n \in 1 .. Len(coming) - 1 : UART!Arrive(n)
          BY <3>3
      <4>2. /\ coming' \in Seq(CellOf(sent)) /\ ring' \in Seq(CellOf(sent))
            /\ Len(ring') <= BufferSize + FifoSize
          BY <2>1, <4>1, ArriveKeeps
      <4> QED BY <2>1, <3>1, <4>2
    <3> QED BY <2>4, <3>2, <3>3
  <2> QED BY <2>2, <2>3, <2>4 DEF Line
<1>3. buffer_in' \in [1 .. BufferSize -> CellOf(sent')]
  <2>1. buffer_in \in [1 .. BufferSize -> CellOf(sent)]
      BY DEF IInv, CellsOfSent
  <2>2. CellOf(sent) \subseteq CellOf(sent')
      BY <1>2, CellsGrow
  <2>3. buffer_in \in [1 .. BufferSize -> CellOf(sent')]
      BY <2>1, <2>2
  <2> QED BY <1>1, <2>3
<1>4. TypeOK'
    BY <1>1, <1>2 DEF IInv, TypeOK
<1>5. CellsOfSent'
    BY <1>2, <1>3 DEF CellsOfSent
<1> QED BY <1>1, <1>2, <1>4, <1>5 DEF IInv

(* A Read of the UART, and the flush of a Write.                           *)
LEMMA ReadStreamKeeps ==
    ASSUME IInv, ReadStream
    PROVE  IInv'
<1> DEFINE S == CellOf(sent)
           most == IF Len(ring) < BufferSize THEN Len(ring) ELSE BufferSize
<1>1. /\ Receive(UART!Received) /\ sent' = sent /\ coming' = coming
      /\ ring' = SubSeq(ring, Len(UART!Received) + 1, Len(ring))
    BY DEF ReadStream, UART!Read
<1>2. /\ coming \in Seq(S) /\ ring \in Seq(S) /\ sent \subseteq Packages
      /\ Len(ring) <= BufferSize + FifoSize /\ \A p \in sent : Encode(p) # <<>>
    BY DEF IInv, TypeOK, CellsOfSent
<1> HIDE DEF S
<1>3. Len(ring) \in Nat
    BY <1>2, LenProperties
<1>4. UART!Received = SubSeq(ring, 1, most)
    BY DEF UART!Received
<1>5. most \in Nat /\ most \in Int /\ most <= Len(ring) /\ 1 \in Nat \ {0}
    BY <1>3, Sizes
<1> HIDE DEF most
<1>6. UART!Received \in Seq(S) /\ Len(UART!Received) \in Nat
  <2>1. SubSeq(ring, 1, most) \in Seq(S)
      BY <1>2, <1>5, PartOf
  <2> QED BY <1>4, <2>1, LenProperties
<1> DEFINE k == Len(UART!Received)
<1>7. ring' \in Seq(S) /\ Len(ring') <= BufferSize + FifoSize
  <2>1. k + 1 \in Nat \ {0} /\ Len(ring) \in Int /\ Len(ring) <= Len(ring)
      BY <1>3, <1>6
  <2>2. ring' = SubSeq(ring, k + 1, Len(ring))
      BY <1>1
  <2>3. k \in Nat
      BY <1>6
  <2> HIDE DEF k
  <2>4. /\ SubSeq(ring, k + 1, Len(ring)) \in Seq(S)
        /\ Len(SubSeq(ring, k + 1, Len(ring))) =
                IF k + 1 <= Len(ring) THEN Len(ring) - (k + 1) + 1 ELSE 0
      BY <1>2, <2>1, PartOf
  <2> QED BY <1>2, <1>3, <2>2, <2>3, <2>4, Sizes
<1>8. /\ UART!Received \in Seq(CellOf(sent'))
      /\ coming' \in Seq(CellOf(sent')) /\ ring' \in Seq(CellOf(sent'))
    BY <1>1, <1>2, <1>6, <1>7 DEF S
<1> QED BY <1>1, <1>2, <1>7, <1>8, ReceiveKeeps

(* A Write empties the ring, and the rest may still come in.               *)
LEMMA WriteStreamKeeps ==
    ASSUME IInv, WriteStream
    PROVE  IInv'
<1>1. /\ ring' = <<>> /\ coming' = coming
      /\ UNCHANGED <<driver, buffer_in, received_bytes, package, read_pc, sent, faults>>
    BY DEF WriteStream, UART!Write, process
<1>2. ring' \in Seq(CellOf(sent')) /\ Len(ring') = 0
    BY <1>1
<1>3. TypeOK'
    BY <1>1, <1>2, Sizes DEF IInv, TypeOK
<1>4. CellsOfSent'
    BY <1>1, <1>2 DEF IInv, CellsOfSent
<1> QED BY <1>1, <1>3, <1>4 DEF IInv

(* What the state READ makes of the buffer.                                *)
LEMMA ReadGets ==
    ASSUME IInv, Read, package' # NoPackage
    PROVE  \E p \in sent : package' =
                [area |-> IF Remaining = 7 THEN ShortArea ELSE p.area,
                 address |-> IF Remaining = 9 THEN ShortAddress ELSE p.address,
                 payload |-> p.payload]
<1> DEFINE rest == Remaining
<1>1. /\ read_pc = "READ" /\ package' = Decode(buffer_in, received_bytes)
      /\ Decode(buffer_in, received_bytes) # NoPackage
    BY DEF Read
<1>2. /\ received_bytes \in 1 .. BufferSize
      /\ buffer_in \in [1 .. BufferSize -> CellOf(sent)]
      /\ sent \subseteq Packages
    BY <1>1 DEF IInv, TypeOK, CellsOfSent
<1>3. /\ sent \in SUBSET TitaniumPackages
      /\ \A p \in sent : Len(p.payload) \in Words
    BY <1>2, PackagesAreSendable
<1>4. rest = received_bytes - Min(Starts(buffer_in, received_bytes))
    BY DEF Remaining
<1> HIDE DEF rest
<1>5. \E p \in sent : Decode(buffer_in, received_bytes) =
                [area |-> IF rest = 7 THEN ShortArea ELSE p.area,
                 address |-> IF rest = 9 THEN ShortAddress ELSE p.address,
                 payload |-> p.payload]
    BY <1>1, <1>2, <1>3, <1>4, Sizes, DecodeSound
<1> QED BY <1>1, <1>5 DEF rest

(* Decode leaves a package or none, and the buffer as it was.              *)
LEMMA ReadKeeps ==
    ASSUME IInv, Read
    PROVE  IInv'
<1>1. /\ read_pc = "READ" /\ read_pc' = "IDLE"
      /\ received_bytes' \in {received_bytes, 0}
      /\ UNCHANGED <<driver, buffer_in, sent, faults, coming, ring>>
    BY DEF Read
<1>2. package' \in DecodedPackages \cup {NoPackage}
  <2>1. CASE package' # NoPackage
    <3>1. PICK p \in sent : package' =
                [area |-> IF Remaining = 7 THEN ShortArea ELSE p.area,
                 address |-> IF Remaining = 9 THEN ShortAddress ELSE p.address,
                 payload |-> p.payload]
        BY <2>1, ReadGets
    <3>2. p \in TitaniumPackages
        BY PackagesAreSendable DEF IInv, TypeOK
    <3>3. ShortArea \in Octets
        BY Octets8 DEF ShortArea
    <3>4. ShortAddress \in Words
        BY Words16 DEF ShortAddress
    <3> QED BY <3>1, <3>2, <3>3, <3>4 DEF TitaniumPackages, DecodedPackages
  <2> QED BY <2>1
<1>3. received_bytes' \in 0 .. BufferSize
    BY <1>1, Sizes DEF IInv, TypeOK
<1>4. TypeOK'
    BY <1>1, <1>2, <1>3 DEF IInv, TypeOK
<1>5. CellsOfSent'
    BY <1>1 DEF IInv, CellsOfSent
<1> QED BY <1>1, <1>4, <1>5 DEF IInv

(* Only the state READ ends with the buffer decoded.                       *)
LEMMA OnlyReadDecodes ==
    ASSUME [Next]_vars, read_pc = "READ", read_pc' = "IDLE"
    PROVE  Read
<1>1. ASSUME NEW message, Receive(message)
      PROVE  FALSE
    BY <1>1 DEF Receive
<1>2. ~Air
    BY <1>1 DEF Air
<1>3. ~Line
    BY DEF Line, process
<1>4. ~ReadStream /\ ~WriteStream
    BY <1>1 DEF ReadStream, WriteStream
<1>5. ~UNCHANGED vars
    BY DEF vars, process
<1> QED BY <1>2, <1>3, <1>4, <1>5 DEF Next

-----------------------------------------------------------------------------
(* The first buffer is zeroes, and nothing was sent.                       *)
LEMMA InitInv == Init => IInv
<1> SUFFICES ASSUME Init
             PROVE  IInv
    OBVIOUS
<1>1. /\ buffer_in = [i \in 1 .. BufferSize |-> Byte(0)]
      /\ received_bytes = 0 /\ package = NoPackage /\ read_pc = "IDLE"
      /\ sent = {} /\ faults = 0 /\ coming = <<>> /\ ring = <<>>
    BY DEF Init, UART!Init
<1>2. Byte(0) \in CellOf(sent)
  <2>1. 0 \in Octets
      BY Octets8
  <2> QED BY <2>1 DEF CellOf, Octet
<1>3. buffer_in \in [1 .. BufferSize -> CellOf(sent)]
    BY <1>1, <1>2
<1>4. TypeOK
    BY <1>1, Sizes DEF TypeOK
<1>5. CellsOfSent
    BY <1>1, <1>3 DEF CellsOfSent
<1> QED BY <1>1, <1>4, <1>5 DEF IInv

(* Every cell in the buffer, in the ring and on the line is a byte or a    *)
(* checksum byte of a package that was sent, whatever the air and the line *)
(* do (ICommunicationDriver's buffer, TitaniumProtocol::Encode).           *)
THEOREM Invariant == Spec => []IInv
<1>1. Init => IInv
    BY InitInv
<1>2. IInv /\ [Next]_vars => IInv'
  <2> SUFFICES ASSUME IInv, [Next]_vars
               PROVE  IInv'
      OBVIOUS
  <2>1. CASE Air
      BY <2>1, AirKeeps
  <2>2. CASE Line
      BY <2>2, LineKeeps
  <2>3. CASE ReadStream
      BY <2>3, ReadStreamKeeps
  <2>4. CASE WriteStream
      BY <2>4, WriteStreamKeeps
  <2>5. CASE Read
      BY <2>5, ReadKeeps
  <2>6. CASE UNCHANGED vars
      BY <2>6 DEF vars, process, IInv, TypeOK, CellsOfSent
  <2> QED BY <2>1, <2>2, <2>3, <2>4, <2>5, <2>6 DEF Next
<1> QED BY <1>1, <1>2, PTL DEF Spec

(* The type invariant of the link: what Decode makes is a package, and the *)
(* UART keeps no more than its ring and its FIFO hold.                     *)
THEOREM TypeCorrect == Spec => []TypeOK
<1>1. IInv => TypeOK
    BY DEF IInv
<1> QED BY <1>1, Invariant, PTL

(* What Decode accepts was sent, with this payload, area and address; only *)
(* a message that ends just before the area, or amid the address, has the  *)
(* reader's error code in its place (TitaniumProtocol::Decode).            *)
THEOREM AcceptedIsSent == Spec => AcceptedWasSent
<1>1. IInv /\ [Next]_vars =>
        (read_pc = "READ" /\ read_pc' = "IDLE" /\ package' # NoPackage =>
            \E p \in sent : package' =
                [area |-> IF Remaining = HEADER_OFFSET - 3 THEN ShortArea ELSE p.area,
                 address |-> IF Remaining = HEADER_OFFSET - 1
                             THEN ShortAddress ELSE p.address,
                 payload |-> p.payload])
  <2> SUFFICES ASSUME IInv, [Next]_vars,
                      read_pc = "READ", read_pc' = "IDLE", package' # NoPackage
               PROVE  \E p \in sent : package' =
                [area |-> IF Remaining = HEADER_OFFSET - 3 THEN ShortArea ELSE p.area,
                 address |-> IF Remaining = HEADER_OFFSET - 1
                             THEN ShortAddress ELSE p.address,
                 payload |-> p.payload]
      OBVIOUS
  <2>1. PICK p \in sent : package' =
                [area |-> IF Remaining = 7 THEN ShortArea ELSE p.area,
                 address |-> IF Remaining = 9 THEN ShortAddress ELSE p.address,
                 payload |-> p.payload]
      BY OnlyReadDecodes, ReadGets
  <2>2. HEADER_OFFSET - 3 = 7 /\ HEADER_OFFSET - 1 = 9
      BY DEF HEADER_OFFSET
  <2> QED BY <2>1, <2>2
<1> QED BY <1>1, Invariant, PTL DEF Spec, AcceptedWasSent

-----------------------------------------------------------------------------
(* Four bytes are the reserved uuid just when the numbers are.             *)
LEMMA ReservedUUID ==
    ASSUME NEW uuid \in [1 .. 4 -> Octets]
    PROVE  ValidateUUID(Bytes(uuid)) <=> uuid # <<255, 255, 255, 255>>
<1> DEFINE reserved == <<255, 255, 255, 255>>
<1>1. DOMAIN uuid = 1 .. 4 /\ DOMAIN reserved = 1 .. 4
    OBVIOUS
<1>2. uuid = [i \in 1 .. 4 |-> uuid[i]] /\ reserved = [i \in 1 .. 4 |-> reserved[i]]
    OBVIOUS
<1> HIDE DEF reserved
<1>3. ASSUME Bytes(uuid) = Bytes(reserved)
      PROVE  uuid = reserved
  <2>1. ASSUME NEW i \in 1 .. 4
        PROVE  uuid[i] = reserved[i]
    <3>1. Bytes(uuid)[i] = <<uuid[i]>> /\ Bytes(reserved)[i] = <<reserved[i]>>
        BY <1>1 DEF Bytes, Byte
    <3>2. <<uuid[i]>> = <<reserved[i]>>
        BY <1>3, <3>1
    <3> QED BY <3>2
  <2> QED BY <1>2, <2>1
<1> QED BY <1>3 DEF ValidateUUID, reserved

(* A frame that lies whole in what was received, cell by cell.             *)
LEMMA SoundCells ==
    ASSUME IInv, received_bytes \in 1 .. BufferSize,
           NEW p \in sent, NEW before \in 0 .. received_bytes - 1,
           IsPrefix(Encode(p), SubSeq(buffer_in, before + 1, received_bytes))
    PROVE  /\ Encode(p) = Frame(p)
           /\ before + Len(Frame(p)) <= received_bytes
           /\ \A i \in 1 .. Len(Frame(p)) : buffer_in[before + i] = Frame(p)[i]
<1> DEFINE S == CellOf(sent)
           P == CellOf({p})
           frame == Frame(p)
           rest == SubSeq(buffer_in, before + 1, received_bytes)
           size == Len(frame)
<1>1. Encode(p) = frame /\ frame \in Seq(P)
    BY EncodeIsFrame DEF IInv, TypeOK
<1>2. buffer_in \in [1 .. BufferSize -> S] /\ BufferSize \in Nat
    BY Sizes DEF IInv, CellsOfSent
<1> HIDE DEF S, P
<1>3. before \in Nat /\ received_bytes \in Nat /\ before < received_bytes
    BY <1>2
<1>4. /\ Len(rest) = received_bytes - before
      /\ \A i \in 1 .. received_bytes - before : rest[i] = buffer_in[before + i]
  <2> DEFINE m == before + 1
  <2>1. m \in Int /\ received_bytes \in Int /\ m <= received_bytes
        /\ received_bytes - m + 1 = received_bytes - before
      BY <1>3
  <2>2. ASSUME NEW i \in m .. received_bytes
        PROVE  buffer_in[i] \in S
    <3>1. i \in 1 .. BufferSize
        BY <1>2, <1>3
    <3> QED BY <1>2, <3>1
  <2>3. ASSUME NEW i \in 1 .. received_bytes - before
        PROVE  m + i - 1 = before + i
      BY <1>3
  <2> HIDE DEF m
  <2>4. /\ Len(SubSeq(buffer_in, m, received_bytes)) =
                IF m <= received_bytes THEN received_bytes - m + 1 ELSE 0
        /\ \A i \in 1 .. received_bytes - m + 1 :
                SubSeq(buffer_in, m, received_bytes)[i] = buffer_in[m + i - 1]
      BY <2>1, <2>2, SubSeqProperties
  <2>5. rest = SubSeq(buffer_in, m, received_bytes)
      BY DEF m
  <2> HIDE DEF rest
  <2> QED BY <2>1, <2>3, <2>4, <2>5
<1>5. size \in Nat
    BY <1>1, LenProperties
<1>6. size <= Len(rest) /\ SubSeq(frame, 1, size) = SubSeq(rest, 1, size)
    BY <1>1 DEF IsPrefix
<1> HIDE DEF frame, rest
<1>7. \A i \in 1 .. size : frame[i] \in P
    BY <1>1, ElementOfSeq
<1> HIDE DEF size
<1>8. ASSUME NEW i \in 1 .. size
      PROVE  SubSeq(frame, 1, size)[i] = frame[i]
  <2>1. \A j \in 1 .. size - 1 + 1 : SubSeq(frame, 1, size)[j] = frame[1 + j - 1]
      BY <1>5, <1>7, SubSeqProperties
  <2>2. i \in 1 .. size - 1 + 1 /\ 1 + i - 1 = i
      BY <1>5
  <2> QED BY <2>1, <2>2
<1>9. ASSUME NEW i \in 1 .. size
      PROVE  SubSeq(rest, 1, size)[i] = rest[i]
  <2>1. ASSUME NEW j \in 1 .. size
        PROVE  rest[j] \in S
    <3>1. j \in 1 .. received_bytes - before /\ before + j \in 1 .. BufferSize
        BY <1>2, <1>3, <1>4, <1>5, <1>6
    <3> QED BY <1>2, <1>4, <3>1
  <2>2. \A j \in 1 .. size - 1 + 1 : SubSeq(rest, 1, size)[j] = rest[1 + j - 1]
      BY <1>5, <2>1, SubSeqProperties
  <2>3. i \in 1 .. size - 1 + 1 /\ 1 + i - 1 = i
      BY <1>5
  <2> QED BY <2>2, <2>3
<1>10. before + size <= received_bytes
    BY <1>3, <1>4, <1>5, <1>6
<1>11. ASSUME NEW i \in 1 .. size
       PROVE  buffer_in[before + i] = frame[i]
  <2>1. i \in 1 .. received_bytes - before
      BY <1>3, <1>5, <1>10
  <2> QED BY <1>4, <1>6, <1>8, <1>9, <2>1
<1> QED BY <1>1, <1>10, <1>11 DEF frame, size

(* A frame received whole and first is accepted for what it is, unless its *)
(* uuid or its address is reserved: noise or the end of another frame      *)
(* before it, and whatever lies behind it, do not matter                   *)
(* (TitaniumProtocol::Decode).                                             *)
THEOREM UnharmedAccepted == Spec => UnharmedIsAccepted
<1>1. IInv /\ [Next]_vars =>
        (read_pc = "READ" /\ read_pc' = "IDLE" =>
            \A p \in sent : Sound(p) =>
                package' = IF Sendable(p) THEN Carried(p) ELSE NoPackage)
  <2> SUFFICES ASSUME IInv, [Next]_vars, read_pc = "READ", read_pc' = "IDLE",
                      NEW p \in sent, Sound(p)
               PROVE  package' = IF Sendable(p) THEN Carried(p) ELSE NoPackage
      OBVIOUS
  <2>1. package' = Decode(buffer_in, received_bytes)
      BY OnlyReadDecodes DEF Read
  <2>2. /\ received_bytes \in 1 .. BufferSize
        /\ DOMAIN buffer_in = 1 .. BufferSize
        /\ p \in Packages
      BY DEF IInv, TypeOK
  <2>3. PICK before \in 0 .. received_bytes - 1 :
            /\ IsPrefix(Encode(p), SubSeq(buffer_in, before + 1, received_bytes))
            /\ \A i \in 1 .. before : buffer_in[i] # Byte(START_BYTE)
      BY DEF Sound
  <2>4. /\ before + Len(Frame(p)) <= received_bytes
        /\ \A i \in 1 .. Len(Frame(p)) : buffer_in[before + i] = Frame(p)[i]
      BY <2>2, <2>3, SoundCells
  <2>5. /\ p \in TitaniumPackages /\ Len(p.payload) \in Words
        /\ ValidatePayloadLength(Len(p.payload))
      BY <2>2, PackagesAreSendable
  <2>6. Decode(buffer_in, received_bytes) =
            IF ValidateUUID(Bytes(p.uuid)) /\ ValidateAddress(p.address)
            THEN [area |-> p.area, address |-> p.address, payload |-> p.payload]
            ELSE NoPackage
      BY <2>2, <2>3, <2>4, <2>5, Sizes, DecodeUnharmed
  <2>7. ValidateUUID(Bytes(p.uuid)) <=> p.uuid # <<255, 255, 255, 255>>
    <3>1. p.uuid \in [1 .. 4 -> Octets]
        BY <2>5 DEF TitaniumPackages
    <3> QED BY <3>1, ReservedUUID
  <2>8. ValidateUUID(Bytes(p.uuid)) /\ ValidateAddress(p.address) <=> Sendable(p)
    <3>1. Sendable(p) <=> p.uuid # <<255, 255, 255, 255>> /\ ValidateAddress(p.address)
        BY DEF ValidateAddress, Sendable
    <3> QED BY <2>7, <3>1, Zenon
  <2> QED BY <2>1, <2>6, <2>8, Zenon DEF Carried
<1> QED BY <1>1, Invariant, PTL DEF Spec, UnharmedIsAccepted
=============================================================================
