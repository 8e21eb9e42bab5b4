---------------------------- MODULE NetworkStatus ----------------------------
(***************************************************************************)
(* The network side of the device: the Wi-Fi task and its event handler,   *)
(* the HTTP server task and the MQTT task, which meet only in two shared   *)
(* memory areas.  A status travels from the radio through the handler and  *)
(* the network task into NETWORK_INFORMATION, and from there to the HTTP   *)
(* server and the MQTT client; credentials travel back from an HTTP        *)
(* request through NETWORK_CREDENTIALS to the Wi-Fi station.               *)
(***************************************************************************)
EXTENDS NetworkProcess

CONSTANT MaxPosts       \* bound: credentials posted over HTTP in a behaviour

ASSUME PostsAssumption == MaxPosts \in Nat

VARIABLES
    http_pc, http_seen, server_status, server_up, posts,
    mqtt_pc, mqtt_seen, mqtt_last, client_status, mqtt_started, broker

Http == INSTANCE HTTPServerProcess
Mqtt == INSTANCE MQTTClientProcess

netOwn  == <<connection, need_update, task, handler, wifi, trying, overtaken>>
httpOwn == <<http_pc, http_seen, server_status, server_up, posts>>
mqttOwn == <<mqtt_pc, mqtt_seen, mqtt_last, client_status, mqtt_started, broker>>

allVars == <<netOwn, httpOwn, mqttOwn, cred, info>>

SystemInit ==
    /\ Init
    /\ Http!Init(MaxPosts)
    /\ Mqtt!Init

NetworkStep == Next /\ UNCHANGED <<httpOwn, mqttOwn>>
HttpStep    == Http!Next /\ UNCHANGED <<netOwn, mqttOwn>>
MqttStep    == Mqtt!Next /\ UNCHANGED <<netOwn, cred, httpOwn>>

SystemNext == NetworkStep \/ HttpStep \/ MqttStep

(* The tasks and the event loop keep running: each task sleeps between two *)
(* rounds, so none of them starves another.  Nothing is assumed of the     *)
(* Wi-Fi links or of the users of the HTTP server.                         *)
SystemFairness ==
    /\ WF_allVars(Handler /\ UNCHANGED <<httpOwn, mqttOwn>>)
    /\ WF_allVars(Execute /\ UNCHANGED <<httpOwn, mqttOwn>>)
    /\ WF_allVars(Http!Execute /\ UNCHANGED <<netOwn, mqttOwn>>)
    /\ WF_allVars(MqttStep)

System == SystemInit /\ [][SystemNext]_allVars

FairSystem == System /\ SystemFairness

-----------------------------------------------------------------------------
TypeOK ==
    /\ connection \in Status
    /\ need_update \in BOOLEAN
    /\ net_pc \in NetLocation
    /\ draft \in BOOLEAN
    /\ {cred_proto, station} \subseteq Credential \cup {Empty}
    /\ handler \in {"idle", "recorded"}
    /\ cred \in [value : Credential \cup {NoData}, fresh : BOOLEAN]
    /\ info \in [value : Status \cup {NoData}, fresh : BOOLEAN]
    /\ link \in Status
    /\ trying \in BOOLEAN
    /\ events \in Seq(Event)
    /\ posted \in 0 .. MaxEvents
    /\ overtaken \in BOOLEAN
    /\ http_pc \in {"read", "decide"}
    /\ {http_seen, mqtt_seen, mqtt_last} \subseteq Status
    /\ {server_status, client_status} \subseteq {"CONNECTED", "DISCONNECTED"}
    /\ {server_up, mqtt_started} \subseteq BOOLEAN
    /\ posts \in 0 .. MaxPosts
    /\ mqtt_pc \in {"initialize", "deleted", "read", "publish", "decide"}
    /\ broker \in {NoData} \cup {Mqtt!Payload(status) : status \in Status}

(* Credentials a user posted are not forgotten: as long as the station is  *)
(* not configured with what the area holds, either the update flag of the  *)
(* area is up or the network task is on its way from the Read that took    *)
(* the flag down to the configuration that uses what it read.              *)
CredentialsNotForgotten ==
    station # DecodedCredential(cred.value) =>
        \/ cred.fresh
        \/ net_pc \in {"boot_config", "config"} /\ cred_proto = DecodedCredential(cred.value)

(* The status the handler has recorded for the access point is the state   *)
(* of that link as soon as the handler has caught up with the driver.      *)
AccessPointRecorded == events = <<>> => connection.ap = link.ap

(* Execute writes the area when need_update tells it to, and clears the    *)
(* flag after.  Whenever nothing is pending, the area holds what the       *)
(* handler recorded, unless the handler changed a field after the last     *)
(* Write had read it and before the flag was cleared.                      *)
Quiet == handler = "idle" /\ ~need_update /\ net_pc \in {"poll", "check", "sleep"}

PublishedUnlessOvertaken ==
    Quiet /\ ~overtaken => DecodedStatus(info.value) = connection

(* The MQTT client runs exactly while a status it reads says that a link   *)
(* is up; this is what its two flags agree on, whatever the interleaving.  *)
ClientAgrees ==
    mqtt_pc \in {"read", "publish"} =>
        /\ (client_status = "CONNECTED") = mqtt_started
        /\ mqtt_started = Mqtt!Up(mqtt_last)

(* Once the area stops changing, the MQTT client ends up running or        *)
(* stopped as the area says, and, running, the broker ends up with what    *)
(* the client library makes of the area.                                   *)
InfoUp == Http!Up(DecodedStatus(info.value))

ClientFollowsArea ==
    /\ <>[]InfoUp  => <>[](mqtt_started \/ mqtt_pc = "deleted")
    /\ <>[]~InfoUp => <>[]~mqtt_started

BrokerFollowsArea ==
    \A status \in Status :
        <>[](info.value = status /\ InfoUp) =>
            <>[](broker = Mqtt!Payload(status) \/ mqtt_pc = "deleted")

(* If a link stays up as far as the area knows, the HTTP task has tried    *)
(* to start the server and keeps it on its books.                          *)
ServerFollowsArea == <>[]InfoUp => <>[](server_status = "CONNECTED")

(* A posted credential reaches the Wi-Fi station, or a later one does.     *)
CredentialsApplied ==
    \A credential \in Credential :
        <>[](cred.value = credential) => <>[](station = credential \/ net_pc = "deleted")

(* NetworkProcess.cpp:142: Execute "Continuously writes connection status  *)
(* to memory": with nothing pending, the area holds the recorded status.   *)
StatusPublished == Quiet => DecodedStatus(info.value) = connection

(* titanium.proto:37 calls sta_connected the "Status of the station (STA)  *)
(* connection": with all events handled it is the state of that link.      *)
StationRecorded == events = <<>> => connection.sta = link.sta
=============================================================================
