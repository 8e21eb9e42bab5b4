----------------------- MODULE MCCommunicationProcess -----------------------
(***************************************************************************)
(* Bounded instances of CommunicationProcess: an area that another task    *)
(* watches, with two values of different length; a request for it; a list  *)
(* that sends it, one that asks for the area of the list itself, and one   *)
(* of 272 bytes.  Packages for this device, for all, and for another.      *)
(***************************************************************************)
EXTENDS CommunicationProcess, TLC

CONSTANTS short, long, ask, often, seldom, wraps

MCValue == {short, long, ask, often, seldom, wraps}
MCSize == (short :> 4) @@ (long :> 98) @@ (ask :> 30) @@ (often :> 34)
            @@ (seldom :> 66) @@ (wraps :> 272)
MCRequested == [v \in MCValue |-> IF v = ask THEN 1 ELSE 0]
MCLists == {often, seldom, wraps}

Entry(area, interval) == [area |-> area, interval |-> interval]
MCEntries == (often :> <<Entry(1, 100)>>)
                @@ (seldom :> <<Entry(7, 100), Entry(1, 250000)>>)
                @@ (wraps :> <<Entry(1, 100), Entry(1, 100)>>)

(* Credentials, and the two areas of the LoRa process.                     *)
MCAreaSize == (1 :> 98) @@ (6 :> 32) @@ (7 :> 272)

Message(address, area, value) == [address |-> address, area |-> area, value |-> value]
MCPackage == {Message(4117, 1, long), Message(0, 1, short), Message(9, 1, short)}

MCPosts == {[area |-> 1, value |-> long], [area |-> 1, value |-> short],
            [area |-> 6, value |-> ask],
            [area |-> 7, value |-> often], [area |-> 7, value |-> seldom],
            [area |-> 7, value |-> wraps]}
=============================================================================
