----------------------------- MODULE UARTDriver -----------------------------
(***************************************************************************)
(* UARTDriver: a stream without packets.  ESP-IDF's driver (external)      *)
(* keeps what comes in over the line in a ring, and in the hardware FIFO   *)
(* when the ring is full; Read takes what is there after at most a second, *)
(* wherever a message begins or ends, and every Write ends with a flush.   *)
(***************************************************************************)
EXTENDS Integers, Sequences

CONSTANTS
    buffer_size,    \* _buffer_size, of the ring and of a Read
    FifoSize        \* external: what the hardware FIFO has room for

VARIABLES
    coming,         \* external: the rest of the message that is on the line
    ring            \* external: what came in and was not read, FIFO included

(* The constructor flushes.                                                *)
Init ==
    /\ coming = <<>>
    /\ ring = <<>>

Begin(message) ==
    /\ coming = <<>>
    /\ coming' = message
    /\ UNCHANGED ring

(* The next n come in.  A FIFO that overflows is emptied.                  *)
Arrive(n) ==
    /\ n \in 1 .. Len(coming)
    /\ coming' = SubSeq(coming, n + 1, Len(coming))
    /\ LET all == ring \o SubSeq(coming, 1, n)
       IN  ring' = IF Len(all) <= buffer_size + FifoSize
                   THEN all
                   ELSE SubSeq(all, 1, buffer_size)

(* What a Read that ends now returns.                                      *)
Received == SubSeq(ring, 1, IF Len(ring) < buffer_size THEN Len(ring) ELSE buffer_size)

Read ==
    /\ ring' = SubSeq(ring, Len(Received) + 1, Len(ring))
    /\ UNCHANGED coming

(* What is sent goes to another device; what was received is flushed.      *)
Write ==
    /\ ring' = <<>>
    /\ UNCHANGED coming
=============================================================================
