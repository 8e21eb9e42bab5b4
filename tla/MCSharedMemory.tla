--------------------------- MODULE MCSharedMemory ---------------------------
(***************************************************************************)
(* Bounded instances of SharedMemory.  The area is the broker              *)
(* configuration's (258 bytes), the one whose messages reach past what a   *)
(* byte can count: a short message, a message of exactly 256 bytes, one    *)
(* that does not fit, and a raw body that is no message.                   *)
(***************************************************************************)
EXTENDS SharedMemory, TLC

CONSTANTS short, wraps, huge, raw

MCValue == {short, wraps, huge, raw}
MCDecodable == {short, wraps, huge}
MCSize == (short :> 4) @@ (wraps :> 256) @@ (huge :> 300) @@ (raw :> 5)

(* Two values are enough to see one writer take another's answer.          *)
MCTwoValues == {short, huge}
MCTwoSizes == (short :> 4) @@ (huge :> 300)
=============================================================================
