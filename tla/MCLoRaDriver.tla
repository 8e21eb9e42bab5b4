---------------------------- MODULE MCLoRaDriver ----------------------------
(***************************************************************************)
(* Bounded instances of LoRaDriver: two frames to tell one Write from the  *)
(* next, two packets, and enough receptions for one packet to meet every   *)
(* step of Read and Write, a second to overtake it, and a third to follow. *)
(* After a reset the registers hold either nothing or everything: whatever *)
(* the driver relies on, the constructor has to write.                     *)
(***************************************************************************)
EXTENDS LoRaDriver, TLC

MCPowerOn == {[register \in Register |-> {}], [register \in Register |-> 0 .. 23]}
=============================================================================
