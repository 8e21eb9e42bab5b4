---------------------------- MODULE AreaContents ----------------------------
(***************************************************************************)
(* What one shared memory area of Titanium can hold, the calls the tasks   *)
(* make on it, and what a call makes of the bytes: the data side of        *)
(* HAL/memory/SharedMemory.h.  No state lives here; the abstract register  *)
(* (AreaRegister) and the detailed area (SharedMemory) both extend it.     *)
(*                                                                         *)
(* A value stands for the bytes of one protobuf message, or of one raw     *)
(* body posted over HTTP; only its encoded size and whether nanopb accepts *)
(* it as a message of the area's type matter.                              *)
(***************************************************************************)
EXTENDS Integers

CONSTANTS
    Value,          \* byte strings the tasks write
    Decodable,      \* the values that are a message of the area's type
    Size,           \* their length in bytes
    AreaSize,       \* size_in_bytes given to SignUpSharedArea
    BufferSize,     \* buffer_size the raw readers pass
    Access,         \* access type given to SignUpSharedArea
    EmptyIsMessage, \* does nanopb accept zero bytes (no required field)?
    Zeroed,         \* what memset leaves in the area
    Partial         \* what an encoder that ran out of space leaves there

ASSUME ContentsAssumption ==
    /\ Decodable \subseteq Value
    /\ Size \in [Value -> Nat]
    /\ AreaSize \in Nat
    /\ BufferSize \in Nat
    /\ Access \in {"READ_ONLY", "WRITE_ONLY", "READ_WRITE"}
    /\ EmptyIsMessage \in BOOLEAN
    /\ Zeroed \notin Value
    /\ Partial \notin Value
    /\ Zeroed # Partial

-----------------------------------------------------------------------------
(* The calls.  Form tells the two overloads of Write and of Read apart: a  *)
(* protobuf message that is encoded or decoded, or a plain buffer.         *)

Form == {"message", "buffer"}

WriteCall == [op: {"write"}, form: {"message"}, value: Decodable]
                \cup [op: {"write"}, form: {"buffer"}, value: Value]

ReadCall == [op: {"read"}, form: Form, silent: BOOLEAN]

PollCall == [op: {"poll"}]      \* IsAreaDataUpdated

Call == WriteCall \cup ReadCall \cup PollCall

IsWrite(c) == c.op = "write"
IsRead(c)  == c.op = "read"

(* The early returns of the manager's and the area's Write and Read: the   *)
(* other calls never reach the mutex.                                      *)
Admitted(c) ==
    \/ /\ IsWrite(c)
       /\ Access # "READ_ONLY"
       /\ c.form = "buffer" => Size[c.value] <= AreaSize
    \/ /\ IsRead(c)
       /\ Access # "WRITE_ONLY"
       /\ c.form = "buffer" => AreaSize <= BufferSize

-----------------------------------------------------------------------------
(* The contents: the bytes in _data and the number in _written_bytes.      *)

ByteRange == 256                    \* _written_bytes is a uint8_t

(* Mutant: a member as wide as the size it counts.                         *)
KeepLength(n) == n

Wrap(n) == n % ByteRange

Body == Value \cup {Zeroed, Partial}
Content == [body: Body, length: 0 .. ByteRange - 1]

Blank == [body |-> Zeroed, length |-> 0]

(* pb_encode stops when the stream is full and the length is then 0; the   *)
(* raw overload copies whatever it was given.                              *)
EncodeFails(c) == c.form = "message" /\ Size[c.value] > AreaSize

EncodedBody(c)   == IF EncodeFails(c) THEN Partial ELSE c.value
EncodedLength(c) == IF EncodeFails(c) THEN 0 ELSE Wrap(Size[c.value])

Encoded(c) == [body |-> EncodedBody(c), length |-> EncodedLength(c)]

(* pb_decode on the first `length` bytes, or memcpy_s of them.             *)
Delivers(form, content) ==
    IF form = "buffer"
    THEN content.length > 0
    ELSE \/ content.body \in Decodable /\ content.length = Size[content.body]
         \/ content.length = 0 /\ EmptyIsMessage

(* What a call that takes effect makes of an area: a Write its content,    *)
(* with the flag up, a Read that is not silent takes the flag down.        *)
Effect(c, cell) ==
    IF IsWrite(c) THEN [content |-> Encoded(c), fresh |-> TRUE]
                  ELSE [content |-> cell.content, fresh |-> cell.fresh /\ c.silent]

(* A content some Write, or the constructor, left as a whole.              *)
WholeContent == {Blank} \cup {Encoded(c) : c \in WriteCall}
=============================================================================
