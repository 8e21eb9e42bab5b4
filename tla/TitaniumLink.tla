---------------------------- MODULE TitaniumLink ----------------------------
(***************************************************************************)
(* Frames on their way from one device's Encode to another's Decode, over  *)
(* LoRa or over UART.  The receive buffer is allocated once and never      *)
(* cleared: a message that is shorter than an earlier one lies on top of   *)
(* it.  The air (external) loses frames, cuts them off, alters a byte, and *)
(* adds noise.  The UART's line adds noise, and its stream is cut wherever *)
(* a Read, a flush or an overrun happens to fall.                          *)
(***************************************************************************)
EXTENDS TitaniumProtocol, FiniteSets, SequencesExt

CONSTANTS
    FifoSize,   \* external: the UART's hardware FIFO
    Packages,   \* the packages other devices send
    Noise,      \* what may come in before a frame, or instead of one
    Wrong,      \* what a byte may be altered to
    MaxSent,    \* bound: packages sent in a behaviour
    MaxFaults   \* bound: faults of the UART's line

(* A uuid is random (esp_random), so that no two packages have the same; a *)
(* payload comes out of a response_buffer of 256 bytes.                    *)
ASSUME LinkAssumption ==
    /\ Packages \subseteq TitaniumPackages
    /\ \A p, q \in Packages : p.uuid = q.uuid => p = q
    /\ \A p \in Packages : Len(p.payload) <= 256
    /\ Noise \subseteq Seq(Octets)
    /\ Wrong \subseteq Octets
    /\ FifoSize \in Nat
    /\ MaxSent \in Nat
    /\ MaxFaults \in Nat

VARIABLES
    driver,         \* which one InstallDriver was given
    buffer_in,      \* _buffer_in
    received_bytes, \* _received_bytes
    package,        \* what Decode accepted
    read_pc,        \* the state of the communication process
    sent,           \* the packages sent so far, see MaxSent
    faults,         \* the faults so far, see MaxFaults
    coming,         \* of the UART's driver
    ring            \* of the UART's driver

process == <<driver, buffer_in, received_bytes, package, read_pc>>
vars == <<process, sent, faults, coming, ring>>

UART == INSTANCE UARTDriver WITH buffer_size <- BufferSize

Init ==
    /\ driver \in {"LoRaDriver", "UARTDriver"}
    /\ buffer_in = [i \in 1 .. BufferSize |-> Byte(0)]
    /\ received_bytes = 0
    /\ package = NoPackage
    /\ read_pc = "IDLE"
    /\ sent = {}
    /\ faults = 0
    /\ UART!Init

(* What the driver's Read leaves in the buffer; nothing received is no     *)
(* reason to decode.                                                       *)
Receive(message) ==
    /\ read_pc = "IDLE"
    /\ Len(message) \in 1 .. BufferSize
    /\ read_pc' = "READ"
    /\ received_bytes' = Len(message)
    /\ buffer_in' = [i \in 1 .. BufferSize |->
                        IF i <= Len(message) THEN message[i] ELSE buffer_in[i]]
    /\ package' = NoPackage
    /\ UNCHANGED <<driver, faults>>

(* A package is sent once.                                                 *)
Send(p) ==
    /\ Encode(p) # <<>>
    /\ p \notin sent
    /\ Cardinality(sent) < MaxSent
    /\ sent' = sent \cup {p}

Cut(frame) == {SubSeq(frame, 1, length) : length \in 1 .. Len(frame) - 1}

Altered(frame) ==
    {[frame EXCEPT ![at] = Byte(wrong)] : at \in DOMAIN frame, wrong \in Wrong}

Behind(frame) == {Bytes(noise) \o frame : noise \in Noise}

Air ==
    /\ driver = "LoRaDriver"
    /\ \/ \E noise \in Noise : Receive(Bytes(noise)) /\ UNCHANGED sent
       \/ \E p \in Packages :
            /\ Send(p)
            /\ \E message \in Behind(Encode(p)) \cup Cut(Encode(p)) \cup Altered(Encode(p)) :
                    Receive(message)
    /\ UNCHANGED <<coming, ring>>

(* A frame comes in whole; or, as a fault, noise comes in, or a part of    *)
(* what is on the line: the parts may be read, or flushed, one by one.     *)
Line ==
    /\ driver = "UARTDriver"
    /\ \/ /\ \E p \in Packages :
                /\ Send(p)
                /\ \E message \in Behind(Encode(p)) : UART!Begin(message)
          /\ UNCHANGED faults
       \/ /\ UART!Arrive(Len(coming))
          /\ UNCHANGED <<sent, faults>>
       \/ /\ faults < MaxFaults
          /\ faults' = faults + 1
          /\ \/ \E noise \in Noise : UART!Begin(Bytes(noise))
             \/ \E n \in 1 .. Len(coming) - 1 : UART!Arrive(n)
          /\ UNCHANGED sent
    /\ UNCHANGED process

(* Idle, with the UART.                                                    *)
ReadStream ==
    /\ driver = "UARTDriver"
    /\ Receive(UART!Received)
    /\ UART!Read
    /\ UNCHANGED sent

(* Continuos sends what a list asks for between two Reads.                 *)
WriteStream ==
    /\ driver = "UARTDriver"
    /\ read_pc = "IDLE"
    /\ UART!Write
    /\ UNCHANGED <<process, sent, faults>>

(* The state READ of the communication process.                            *)
Read ==
    /\ read_pc = "READ"
    /\ read_pc' = "IDLE"
    /\ package' = Decode(buffer_in, received_bytes)
    /\ received_bytes' = IF package' = NoPackage THEN received_bytes ELSE 0
    /\ UNCHANGED <<driver, buffer_in, sent, faults, coming, ring>>

Next == Air \/ Line \/ ReadStream \/ WriteStream \/ Read

Spec == Init /\ [][Next]_vars

-----------------------------------------------------------------------------
Carried(p) == [area |-> p.area, address |-> p.address, payload |-> p.payload]

TypeOK ==
    /\ DOMAIN buffer_in = 1 .. BufferSize
    /\ received_bytes \in 0 .. BufferSize
    /\ package \in DecodedPackages \cup {NoPackage}
    /\ read_pc \in {"IDLE", "READ"}
    /\ sent \subseteq Packages
    /\ faults \in 0 .. MaxFaults
    /\ Len(ring) <= BufferSize + FifoSize

(* What was received, from its first START on.                             *)
Remaining == received_bytes - Min(Starts(buffer_in, received_bytes))

(* Whatever the air does, wherever a Read, a flush or an overrun cuts the  *)
(* UART's stream, and whatever older messages have left in the buffer:     *)
(* what Decode accepts was sent, with this payload, area and address.      *)
(* Only a message that ends just before the area, or amid the address, has *)
(* the reader's error code in its place: leftovers of the same frame stand *)
(* for the rest, and no validator looks for these codes.                   *)
AcceptedWasSent ==
    [][read_pc = "READ" /\ read_pc' = "IDLE" /\ package' # NoPackage =>
        \E p \in sent : package' =
            [area |-> IF Remaining = HEADER_OFFSET - 3 THEN ShortArea ELSE p.area,
             address |-> IF Remaining = HEADER_OFFSET - 1 THEN ShortAddress ELSE p.address,
             payload |-> p.payload]]_vars

(* What was received holds the frame of p whole, and no START before it.   *)
Sound(p) ==
    \E before \in 0 .. received_bytes - 1 :
        /\ IsPrefix(Encode(p), SubSeq(buffer_in, before + 1, received_bytes))
        /\ \A i \in 1 .. before : buffer_in[i] # Byte(START_BYTE)

(* A frame that arrives unharmed is accepted for what it is, unless its    *)
(* uuid or its address is one of the two that stand for an error: noise or *)
(* the end of another frame before it, other frames and leftovers behind   *)
(* it do not matter.                                                       *)
Sendable(p) == p.uuid # <<255, 255, 255, 255>> /\ p.address # 65535

UnharmedIsAccepted ==
    [][read_pc = "READ" /\ read_pc' = "IDLE" =>
        \A p \in sent : Sound(p) =>
            package' = IF Sendable(p) THEN Carried(p) ELSE NoPackage]_vars

(* TitaniumProtocol.cpp:388-393: Decode decodes the received message, of   *)
(* the size it is given: what it accepts was received, whole, and is not   *)
(* a leftover of an earlier message.                                       *)
AcceptedIsReceived ==
    [][read_pc = "READ" /\ package' # NoPackage =>
        FRAMING + Len(package'.payload) <= received_bytes]_vars
=============================================================================
