-------------------------- MODULE TitaniumProtocol --------------------------
(***************************************************************************)
(* TitaniumProtocol: how a package becomes a frame, and what Decode makes  *)
(* of the bytes a driver has left in the receive buffer.  A frame is       *)
(*                                                                         *)
(*   START  uuid(4)  length(2)  area(1)  address(2)  payload  crc(4)  END  *)
(*                                                                         *)
(* A buffer is a sequence of cells.  A cell is a byte, or one of the four  *)
(* bytes of the checksum of a sequence of cells: the CRC is taken to tell  *)
(* any two sequences apart.                                                *)
(***************************************************************************)
EXTENDS Integers, Sequences, FiniteSetsExt

CONSTANTS
    BufferSize,     \* buffer_size() of the driver
    NoPackage       \* what Decode leaves when it does not accept

Octets == 0 .. 255      \* uint8_t
Words == 0 .. 65535     \* uint16_t

TitaniumPackages == [uuid : [1 .. 4 -> Octets], area : Octets, address : Words,
                     payload : Seq(Octets)]

(* Decode drops the uuid: a package it makes has one of its own.           *)
DecodedPackages == [area : Octets, address : Words, payload : Seq(Octets)]

(* buffer_size() is a uint16_t.                                            *)
ASSUME ProtocolAssumption ==
    /\ BufferSize \in Words \ {0}
    /\ NoPackage \notin DecodedPackages

START_BYTE == 2
END_BYTE == 3
MAXIMUM_MESSAGE_SIZE == 1024
HEADER_OFFSET == 10             \* START, uuid, length, area, address
FRAMING == HEADER_OFFSET + 5    \* with checksum and END

-----------------------------------------------------------------------------
Byte(b) == <<b>>
Bytes(numbers) == [i \in DOMAIN numbers |-> Byte(numbers[i])]
Le16(n) == Bytes(<<n % 256, n \div 256>>)

(* A checksum cell taken for another field may be any number: whichever it *)
(* is, no checksum matches what was read across two frames.                *)
Number(cell) == IF Len(cell) = 1 THEN cell[1] ELSE 255
Number16(cells) == Number(cells[1]) + 256 * Number(cells[2])

CalculatedCRC32(cells) == [i \in 1 .. 4 |-> <<cells, i>>]

Body(p) ==
    Bytes(<<START_BYTE>> \o p.uuid) \o Le16(Len(p.payload))
        \o Bytes(<<p.area>>) \o Le16(p.address) \o Bytes(p.payload)

Frame(p) == Body(p) \o CalculatedCRC32(Body(p)) \o Bytes(<<END_BYTE>>)

(* Nothing is written for a package that does not fit.                     *)
Encode(p) == IF Len(p.payload) + FRAMING <= BufferSize THEN Frame(p) ELSE <<>>

-----------------------------------------------------------------------------
(* The readers get what is left of the message as a uint16_t, and compare  *)
(* it with 0: a count below zero passes.                                   *)
Unsigned16(n) == n % 65536

(* Mutant: START is counted as well.                                       *)
ExhaustedEarly(remaining) == Unsigned16(remaining) <= 1

Exhausted(remaining) == Unsigned16(remaining) = 0

(* What a reader returns for an exhausted message: the error codes, as the *)
(* width of the result leaves them.                                        *)
ShortUUID == Bytes(<<247, 255, 255, 255>>)      \* -9
ShortLength == 65534                            \* -2
ShortArea == 252                                \* -4
ShortAddress == 65531                           \* -5
ShortCRC == Bytes(<<251, 255, 255, 255>>)       \* -5
ShortEnd == Byte(248)                           \* -8

Beyond == Byte(-1)              \* a cell past the end of the buffer

Cells(memory, from, n) ==
    [i \in 1 .. n |-> IF from + i \in DOMAIN memory THEN memory[from + i] ELSE Beyond]

GetUUID(memory, start, remaining) ==
    IF Unsigned16(remaining) <= 4 THEN ShortUUID ELSE Cells(memory, start + 1, 4)

GetPayloadLength(memory, start, remaining) ==
    IF Exhausted(remaining) THEN ShortLength ELSE Number16(Cells(memory, start + 5, 2))

(* Mutant: the area is read as wide as the address.                        *)
GetWideArea(memory, start, remaining) ==
    IF Exhausted(remaining) THEN ShortArea ELSE Number16(Cells(memory, start + 7, 2))

GetMemoryArea(memory, start, remaining) ==
    IF Exhausted(remaining) THEN ShortArea ELSE Number(Cells(memory, start + 7, 1)[1])

GetAddress(memory, start, remaining) ==
    IF Exhausted(remaining) THEN ShortAddress ELSE Number16(Cells(memory, start + 8, 2))

GetPayload(memory, start, length) ==
    [i \in 1 .. length |-> Number(Cells(memory, start + HEADER_OFFSET, length)[i])]

GetCRC(memory, start, length, remaining) ==
    IF Exhausted(remaining) THEN ShortCRC
    ELSE Cells(memory, start + HEADER_OFFSET + length, 4)

GetEndByte(memory, start, length, remaining) ==
    IF Exhausted(remaining) THEN ShortEnd
    ELSE Cells(memory, start + HEADER_OFFSET + length + 4, 1)[1]

ValidateUUID(uuid) == uuid # Bytes(<<255, 255, 255, 255>>)
ValidatePayloadLength(length) == length <= MAXIMUM_MESSAGE_SIZE
ValidateAddress(address) == address # 65535

(* Mutant: what the check returns is not looked at.                        *)
ValidateAnyCRC(crc, memory, start, length) == Len(crc) = 4

ValidateCRC(crc, memory, start, length) ==
    crc = CalculatedCRC32(Cells(memory, start, HEADER_OFFSET + length))

(* The offset of the first START among the bytes received, if there is one. *)
Starts(memory, size) == {i \in 0 .. size - 1 : memory[i + 1] = Byte(START_BYTE)}

(* Decode gives up at the first field that is not valid; the memory area   *)
(* always is.                                                              *)
Decode(memory, size) ==
    IF Starts(memory, size) = {}
    THEN NoPackage
    ELSE LET start     == Min(Starts(memory, size))
             remaining == size - start
             uuid      == GetUUID(memory, start, remaining - 4)
             length    == GetPayloadLength(memory, start, remaining - 6)
             area      == GetMemoryArea(memory, start, remaining - 7)
             address   == GetAddress(memory, start, remaining - 9)
             left      == remaining - 9 - length
         IN  IF /\ ValidateUUID(uuid)
                /\ ValidatePayloadLength(length)
                /\ ValidateAddress(address)
                /\ ~Exhausted(left)
                /\ ValidateCRC(GetCRC(memory, start, length, left - 4), memory, start, length)
                /\ GetEndByte(memory, start, length, left - 5) = Byte(END_BYTE)
             THEN [area |-> area, address |-> address,
                   payload |-> GetPayload(memory, start, length)]
             ELSE NoPackage
=============================================================================
