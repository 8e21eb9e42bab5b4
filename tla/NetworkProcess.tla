--------------------------- MODULE NetworkProcess ---------------------------
(***************************************************************************)
(* NetworkProcess: the FreeRTOS task that configures the Wi-Fi station and *)
(* publishes the connection status, the event handler that the default     *)
(* event loop runs on its own task, and the Wi-Fi driver that posts the    *)
(* events (external).  The two areas it uses, the network credentials and  *)
(* the network information, are atomic registers with an update flag, the  *)
(* form in which SharedMemory is shown to implement them.                  *)
(***************************************************************************)
EXTENDS Integers, Sequences

CONSTANTS
    Credential,     \* SSID and password pairs a user may enter
    NoData,         \* an area nothing was written to
    Empty,          \* the credentials after a Read that could not decode
    MaxEvents       \* bound: events the Wi-Fi driver posts in a behaviour

ASSUME NetworkAssumption ==
    /\ NoData \notin Credential \cup [ap : BOOLEAN, sta : BOOLEAN]
    /\ Empty \notin Credential
    /\ MaxEvents \in Nat

VARIABLES
    connection,     \* _connection_proto, written by the handler
    need_update,    \* _need_update_network_data
    net_pc,         \* where Execute is
    draft,          \* the part of connection pb_encode has already read
    cred_proto,     \* _cred_proto
    station,        \* the credentials the Wi-Fi driver was last given
    handler,        \* what the event handler is in the middle of
    cred,           \* area NETWORK_CREDENTIALS
    info,           \* area NETWORK_INFORMATION
    link,           \* external: the true state of the two Wi-Fi links
    trying,         \* external: esp_wifi_connect was called
    events,         \* external: the queue of the default event loop
    posted,         \* how many events were posted, see MaxEvents
    overtaken       \* history: a change was recorded that the last Write missed

task == <<net_pc, draft, cred_proto, station>>
wifi == <<link, events, posted>>
vars == <<connection, need_update, net_pc, draft, cred_proto, station, handler,
          cred, info, link, trying, events, posted, overtaken>>

Status == [ap : BOOLEAN, sta : BOOLEAN]
Disconnected == [ap |-> FALSE, sta |-> FALSE]

Event == {"AP_STACONNECTED", "AP_STADISCONNECTED",
          "STA_CONNECTED", "STA_DISCONNECTED"}

(* What the tasks make of an area nothing was written to: the messages     *)
(* have required fields, so decoding fails and leaves the defaults.        *)
DecodedStatus(value)     == IF value = NoData THEN Disconnected ELSE value

(* Mutant: the undecoded value is used.                                    *)
UndecodedCredential(value) == value

DecodedCredential(value) == IF value = NoData THEN Empty ELSE value

NetLocation == {"initialize", "deleted",
                "boot_read", "boot_config", "boot_connect",
                "poll", "read", "config", "connect",
                "check", "encode_ap", "encode_sta", "reset", "sleep"}

Init ==
    /\ connection = Disconnected
    /\ need_update = FALSE
    /\ net_pc = "initialize"
    /\ draft = FALSE
    /\ cred_proto = Empty
    /\ station = Empty
    /\ handler = "idle"
    /\ cred = [value |-> NoData, fresh |-> FALSE]
    /\ info = [value |-> NoData, fresh |-> FALSE]
    /\ link = Disconnected
    /\ trying = FALSE
    /\ events = <<>>
    /\ posted = 0
    /\ overtaken = FALSE

-----------------------------------------------------------------------------
(* The Wi-Fi driver, once esp_wifi_start may have run.  The access point   *)
(* takes one client (AP::max_connections), so its link is up or down.      *)

Running == net_pc # "initialize"

Post(event) ==
    /\ Running
    /\ posted < MaxEvents
    /\ posted' = posted + 1
    /\ events' = Append(events, event)
    /\ UNCHANGED <<connection, need_update, task, handler, cred, info, overtaken>>

ClientJoins ==
    /\ ~link.ap
    /\ link' = [link EXCEPT !.ap = TRUE]
    /\ Post("AP_STACONNECTED")
    /\ UNCHANGED trying

ClientLeaves ==
    /\ link.ap
    /\ link' = [link EXCEPT !.ap = FALSE]
    /\ Post("AP_STADISCONNECTED")
    /\ UNCHANGED trying

StationAssociates ==
    /\ trying
    /\ ~link.sta
    /\ station # Empty
    /\ trying' = FALSE
    /\ link' = [link EXCEPT !.sta = TRUE]
    /\ Post("STA_CONNECTED")

(* The station loses its access point, or an attempt to connect fails.     *)
StationDrops ==
    /\ trying \/ link.sta
    /\ trying' = FALSE
    /\ link' = [link EXCEPT !.sta = FALSE]
    /\ Post("STA_DISCONNECTED")

Driver == ClientJoins \/ ClientLeaves \/ StationAssociates \/ StationDrops

-----------------------------------------------------------------------------
(* Mutant: a client that leaves is recorded like a lost station.           *)
RecordedAsConnected(event) ==
    CASE event \in {"AP_STACONNECTED", "AP_STADISCONNECTED"} ->
            [connection EXCEPT !.ap = TRUE]
      [] OTHER -> [connection EXCEPT !.sta = TRUE]

(* WiFiAppEventHandler, SetAPConnection and SetSTAConnection.  A lost      *)
(* station connection is retried at once, and recorded as CONNECTED.       *)

Recorded(event) ==
    CASE event = "AP_STACONNECTED"    -> [connection EXCEPT !.ap = TRUE]
      [] event = "AP_STADISCONNECTED" -> [connection EXCEPT !.ap = FALSE]
      [] event = "STA_CONNECTED"      -> [connection EXCEPT !.sta = TRUE]
      [] event = "STA_DISCONNECTED"   -> [connection EXCEPT !.sta = TRUE]

(* The Write under way misses a change of a field it has already read.     *)
Missed(event) ==
    \/ net_pc = "encode_sta" /\ Recorded(event).ap # connection.ap
    \/ net_pc = "reset" /\ Recorded(event) # connection

HandleEvent ==
    /\ handler = "idle"
    /\ events # <<>>
    /\ events' = Tail(events)
    /\ trying' = (trying \/ Head(events) = "STA_DISCONNECTED")
    /\ connection' = Recorded(Head(events))
    /\ handler' = "recorded"
    /\ overtaken' = (overtaken \/ Missed(Head(events)))
    /\ UNCHANGED <<need_update, task, cred, info, link, posted>>

FlagUpdate ==
    /\ handler = "recorded"
    /\ need_update' = TRUE
    /\ handler' = "idle"
    /\ UNCHANGED <<connection, task, cred, info, link, trying, events, posted, overtaken>>

Handler == HandleEvent \/ FlagUpdate

-----------------------------------------------------------------------------
(* Execute.                                                                *)

Goto(from, to) ==
    /\ net_pc = from
    /\ net_pc' = to

Initialize ==
    /\ Goto("initialize", "boot_read")
    /\ need_update' = FALSE
    /\ connection' = Disconnected
    /\ UNCHANGED <<draft, cred_proto, station, handler, cred, info, trying, wifi, overtaken>>

(* A driver call of Initialize failed: vTaskDelete.                        *)
InitializeFails ==
    /\ Goto("initialize", "deleted")
    /\ UNCHANGED <<connection, need_update, draft, cred_proto, station, handler,
                   cred, info, trying, wifi, overtaken>>

(* SetCredentials: a consuming Read, whose result is not looked at.        *)
ReadCredentials(from, to) ==
    /\ Goto(from, to)
    /\ cred_proto' = DecodedCredential(cred.value)
    /\ cred' = [cred EXCEPT !.fresh = FALSE]
    /\ UNCHANGED <<connection, need_update, draft, station, handler, info, trying,
                   wifi, overtaken>>

(* The rest of SetStationMode: esp_wifi_set_config.                        *)
ConfigureStation(from, to) ==
    /\ Goto(from, to)
    /\ station' = cred_proto
    /\ UNCHANGED <<connection, need_update, draft, cred_proto, handler, cred, info,
                   trying, wifi, overtaken>>

(* Mutant: the update flag goes down once the station is configured.       *)
ConnectAndConsume(from, to) ==
    /\ Goto(from, to)
    /\ trying' = TRUE
    /\ cred' = [cred EXCEPT !.fresh = FALSE]
    /\ UNCHANGED <<connection, need_update, draft, cred_proto, station, handler,
                   info, wifi, overtaken>>

Connect(from, to) ==                    \* esp_wifi_connect
    /\ Goto(from, to)
    /\ trying' = TRUE
    /\ UNCHANGED <<connection, need_update, draft, cred_proto, station, handler,
                   cred, info, wifi, overtaken>>

Step(from, to) ==                       \* a step that changes nothing else
    /\ Goto(from, to)
    /\ UNCHANGED <<connection, need_update, draft, cred_proto, station, handler,
                   cred, info, trying, wifi, overtaken>>

(* Mutant: the credentials are only read at boot.                          *)
PollNothing == Step("poll", "check")

PollCredentials == Step("poll", IF cred.fresh THEN "read" ELSE "check")
CheckUpdate     == Step("check", IF need_update THEN "encode_ap" ELSE "sleep")
Sleep           == Step("sleep", "poll")

(* Write encodes connection in place, one field after the other, while the *)
(* handler may change it.                                                  *)
EncodeAP ==
    /\ Goto("encode_ap", "encode_sta")
    /\ draft' = connection.ap
    /\ overtaken' = FALSE
    /\ UNCHANGED <<connection, need_update, cred_proto, station, handler, cred, info,
                   trying, wifi>>

(* Mutant: an update nobody has read yet is not overwritten.               *)
EncodeSTAIfRead ==
    /\ Goto("encode_sta", "reset")
    /\ info' = IF info.fresh THEN info
               ELSE [value |-> [ap |-> draft, sta |-> connection.sta], fresh |-> TRUE]
    /\ UNCHANGED <<connection, need_update, draft, cred_proto, station, handler,
                   cred, trying, wifi, overtaken>>

EncodeSTA ==
    /\ Goto("encode_sta", "reset")
    /\ info' = [value |-> [ap |-> draft, sta |-> connection.sta], fresh |-> TRUE]
    /\ UNCHANGED <<connection, need_update, draft, cred_proto, station, handler,
                   cred, trying, wifi, overtaken>>

ResetUpdate ==
    /\ Goto("reset", "sleep")
    /\ need_update' = FALSE
    /\ UNCHANGED <<connection, draft, cred_proto, station, handler, cred, info,
                   trying, wifi, overtaken>>

Execute ==
    \/ Initialize
    \/ InitializeFails
    \/ ReadCredentials("boot_read", "boot_config")
    \/ ConfigureStation("boot_config", "boot_connect")
    \/ Connect("boot_connect", "poll")
    \/ PollCredentials
    \/ ReadCredentials("read", "config")
    \/ ConfigureStation("config", "connect")
    \/ Connect("connect", "check")
    \/ CheckUpdate
    \/ EncodeAP
    \/ EncodeSTA
    \/ ResetUpdate
    \/ Sleep

Next == Driver \/ Handler \/ Execute

Fairness == WF_vars(Handler) /\ WF_vars(Execute)
=============================================================================
