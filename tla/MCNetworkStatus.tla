--------------------------- MODULE MCNetworkStatus ---------------------------
(***************************************************************************)
(* Bounded instances of NetworkStatus: two credentials, a few Wi-Fi events *)
(* and posts, enough for an event to meet every step of the network task   *)
(* and for a second event to undo the first.                               *)
(***************************************************************************)
EXTENDS NetworkStatus, TLC
=============================================================================
