-------------------------- MODULE MQTTClientProcess --------------------------
(***************************************************************************)
(* MQTTClientProcess: the task that runs the MQTT client while a link is   *)
(* up and publishes the areas to the broker.  It reads the network         *)
(* information silently, so it never takes the flag from the HTTP task.    *)
(***************************************************************************)
CONSTANT NoData

VARIABLES
    mqtt_pc,        \* where Execute is
    mqtt_seen,      \* _connection_status
    mqtt_last,      \* _last_connection_status
    client_status,  \* _client_status
    mqtt_started,   \* _is_mqtt_started
    broker,         \* external: the payload last published
    info            \* area NETWORK_INFORMATION

vars == <<mqtt_pc, mqtt_seen, mqtt_last, client_status, mqtt_started, broker, info>>

Disconnected == [ap |-> FALSE, sta |-> FALSE]
Up(status) == status.ap \/ status.sta
DecodedStatus(value) == IF value = NoData THEN Disconnected ELSE value

Init ==
    /\ mqtt_pc = "initialize"
    /\ mqtt_seen = Disconnected
    /\ mqtt_last = Disconnected
    /\ client_status = "DISCONNECTED"
    /\ mqtt_started = FALSE
    /\ broker = NoData

Initialize ==           \* a call of the client library may fail: vTaskDelete
    /\ mqtt_pc = "initialize"
    /\ mqtt_pc' \in {"read", "deleted"}
    /\ UNCHANGED <<mqtt_seen, mqtt_last, client_status, mqtt_started, broker, info>>

(* Mutant: only a change is published.                                     *)
ReadStatusForChange ==
    /\ mqtt_pc = "read"
    /\ mqtt_pc' = IF client_status = "CONNECTED" /\ mqtt_seen # DecodedStatus(info.value)
                  THEN "publish" ELSE "decide"
    /\ mqtt_seen' = DecodedStatus(info.value)
    /\ UNCHANGED <<mqtt_last, client_status, mqtt_started, broker, info>>

ReadStatus ==
    /\ mqtt_pc = "read"
    /\ mqtt_pc' = IF client_status = "CONNECTED" THEN "publish" ELSE "decide"
    /\ mqtt_seen' = DecodedStatus(info.value)
    /\ UNCHANGED <<mqtt_last, client_status, mqtt_started, broker, info>>

(* The client library takes the payload for a C string, so it ends at the  *)
(* first byte that is 0: at the first of the two fields that is            *)
(* DISCONNECTED.  What is left of the message is the fields before it.     *)
Payload(status) ==
    IF status.ap THEN IF status.sta THEN <<TRUE, TRUE>> ELSE <<TRUE>> ELSE <<>>

(* PublishMemoryArea(NETWORK_INFORMATION): another silent Read; an area    *)
(* with no bytes is skipped.                                               *)
Publish ==
    /\ mqtt_pc = "publish"
    /\ mqtt_pc' = "decide"
    /\ broker' = IF info.value = NoData THEN broker ELSE Payload(info.value)
    /\ UNCHANGED <<mqtt_seen, mqtt_last, client_status, mqtt_started, info>>

Starting == Up(mqtt_seen) /\ client_status # "CONNECTED"
Stopping == ~Up(mqtt_seen) /\ client_status = "CONNECTED"

(* Mutant: the client is stopped, the flag is not.                         *)
StartedForGood == mqtt_started \/ Starting

(* StartMQTTClient and StopMQTTClient only act on a change of              *)
(* _is_mqtt_started; what the client library answers is ignored.           *)
Started == (mqtt_started \/ Starting) /\ ~Stopping

(* Mutant: the last status is compared with, and never updated.            *)
FollowForgetting ==
    /\ mqtt_last' = mqtt_last
    /\ mqtt_started' = Started
    /\ client_status' = CASE Starting -> "CONNECTED"
                          [] Stopping -> "DISCONNECTED"
                          [] OTHER    -> client_status

Follow ==
    /\ mqtt_last' = mqtt_seen
    /\ mqtt_started' = Started
    /\ client_status' = CASE Starting -> "CONNECTED"
                          [] Stopping -> "DISCONNECTED"
                          [] OTHER    -> client_status

Decide ==
    /\ mqtt_pc = "decide"
    /\ mqtt_pc' = "read"
    /\ IF mqtt_seen # mqtt_last
       THEN Follow
       ELSE UNCHANGED <<mqtt_last, client_status, mqtt_started>>
    /\ UNCHANGED <<mqtt_seen, broker, info>>

Next == Initialize \/ ReadStatus \/ Publish \/ Decide
=============================================================================
