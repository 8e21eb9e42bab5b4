-------------------------- MODULE HTTPServerProcess --------------------------
(***************************************************************************)
(* HTTPServerProcess: the task that starts the HTTP server once a link is  *)
(* up, and the handler of the server that stores new Wi-Fi credentials.    *)
(* The task consumes the update flag of the network information area.      *)
(***************************************************************************)
EXTENDS Naturals

CONSTANTS Credential, NoData

VARIABLES
    http_pc,        \* where Execute is
    http_seen,      \* _connection_status
    server_status,  \* _server_status
    server_up,      \* external: httpd runs
    posts,          \* bound: credentials still to be posted
    cred,           \* area NETWORK_CREDENTIALS
    info            \* area NETWORK_INFORMATION

vars == <<http_pc, http_seen, server_status, server_up, posts, cred, info>>

Disconnected == [ap |-> FALSE, sta |-> FALSE]
Up(status) == status.ap \/ status.sta
DecodedStatus(value) == IF value = NoData THEN Disconnected ELSE value

(* _last_connection_status: nothing in the class assigns it.               *)
LastSeen == Disconnected

Init(bound) ==
    /\ http_pc = "read"
    /\ http_seen = Disconnected
    /\ server_status = "DISCONNECTED"
    /\ server_up = FALSE
    /\ posts = bound

ReadStatus ==
    /\ http_pc = "read"
    /\ http_pc' = "decide"
    /\ http_seen' = DecodedStatus(info.value)
    /\ info' = [info EXCEPT !.fresh = FALSE]
    /\ UNCHANGED <<server_status, server_up, posts, cred>>

Changed == http_seen # LastSeen

(* Mutant: only a station connection starts the server.                    *)
StartingOnStation == Changed /\ http_seen.sta /\ server_status # "CONNECTED"

Starting == Changed /\ Up(http_seen) /\ server_status # "CONNECTED"

(* The stopping branch asks for a status that is not CONNECTED.            *)
Stopping == Changed /\ ~Up(http_seen) /\ server_status # "CONNECTED"

(* httpd_start may fail; the status is CONNECTED all the same.             *)
Decide ==
    /\ http_pc = "decide"
    /\ http_pc' = "read"
    /\ server_up' \in IF Starting THEN BOOLEAN ELSE {server_up /\ ~Stopping}
    /\ server_status' = CASE Starting -> "CONNECTED"
                          [] Stopping -> "DISCONNECTED"
                          [] OTHER    -> server_status
    /\ UNCHANGED <<http_seen, posts, cred, info>>

Execute == ReadStatus \/ Decide

(* post_uri_wifi_credentials, on the task of httpd.                        *)
PostCredentials(credential) ==
    /\ server_up
    /\ posts > 0
    /\ posts' = posts - 1
    /\ cred' = [value |-> credential, fresh |-> TRUE]
    /\ UNCHANGED <<http_pc, http_seen, server_status, server_up, info>>

Next == Execute \/ \E credential \in Credential : PostCredentials(credential)
=============================================================================
