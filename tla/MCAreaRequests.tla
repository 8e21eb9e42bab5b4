--------------------------- MODULE MCAreaRequests ---------------------------
(***************************************************************************)
(* The processes and areas of main.cpp.  Bodies and messages: a text, a    *)
(* message with a zero byte in it, one that begins with a zero, and one of *)
(* 256 bytes, which the broker area can just hold.  One id is out of the   *)
(* range of a byte, one is no area.                                        *)
(***************************************************************************)
EXTENDS AreaRequests, TLC

CONSTANTS text, message, zero, full

MCBoot == <<"network", "http", "uart", "lora", "mqtt">>
MCSignsUp == ("network" :> <<1, 2>>) @@ ("http" :> <<>>) @@ ("uart" :> <<4, 5>>)
                @@ ("lora" :> <<6, 7>>) @@ ("mqtt" :> <<3>>)
MCNeeds == ("network" :> {1, 2}) @@ ("http" :> {1, 2}) @@ ("uart" :> {4, 5})
                @@ ("lora" :> {6, 7}) @@ ("mqtt" :> {2})
MCAreaSize == (1 :> 98) @@ (2 :> 4) @@ (3 :> 258) @@ (4 :> 32) @@ (5 :> 272)
                @@ (6 :> 32) @@ (7 :> 272)

MCValue == {text, message, zero, full}
MCSize == (text :> 5) @@ (message :> 4) @@ (zero :> 3) @@ (full :> 256)
MCTextSize == (text :> 5) @@ (message :> 1) @@ (zero :> 0) @@ (full :> 256)

MCKeys == {0, 2, 3, 5, 259}
MCPosts == {[key |-> 3, value |-> text], [key |-> 259, value |-> message],
            [key |-> 3, value |-> zero], [key |-> 3, value |-> full],
            [key |-> 2, value |-> text], [key |-> 5, value |-> text]}
MCStores == {[task |-> "network", area |-> 2, value |-> message],
             [task |-> "uart", area |-> 3, value |-> message]}
=============================================================================
