------------------------- MODULE NetworkStatus_proofs -------------------------
(***************************************************************************)
(* The safety of the network side for every set of credentials and every   *)
(* number of Wi-Fi events and of posts: nothing a user posted is           *)
(* forgotten, the handler's record of the access point is the last word of *)
(* the driver, the area follows that record up to the race of the reset,   *)
(* and the two flags of the MQTT client agree.                             *)
(***************************************************************************)
EXTENDS NetworkStatus, TLAPS

(* Until Initialize the Wi-Fi driver posts nothing, so what Initialize     *)
(* resets has its first value.                                             *)
NothingBeforeInitialize ==
    net_pc = "initialize" =>
        /\ connection = Disconnected
        /\ link = Disconnected
        /\ need_update = FALSE
        /\ handler = "idle"
        /\ events = <<>>

(* Whatever the station holds, the network task has the area's credentials *)
(* in hand between the Read and the configuration.                         *)
CredentialsInHand ==
    net_pc \in {"boot_config", "config"} =>
        cred.fresh \/ cred_proto = DecodedCredential(cred.value)

(* The last event of the access point tells the state of its link; once    *)
(* none is queued, the handler's record does.                              *)
ApEvent == {"AP_STACONNECTED", "AP_STADISCONNECTED"}

LastOfAccessPoint ==
    /\ \A i \in 1 .. Len(events) :
         /\ events[i] \in ApEvent
         /\ \A j \in 1 .. Len(events) : j > i => events[j] \notin ApEvent
         => link.ap = (events[i] = "AP_STACONNECTED")
    /\ (\A i \in 1 .. Len(events) : events[i] \notin ApEvent)
         => connection.ap = link.ap

(* The network task writes the area only while need_update is up.  What it *)
(* has read of the record, and then what it wrote, is the record, unless   *)
(* the handler changed that since.                                         *)
Publishing ==
    /\ net_pc \in {"encode_ap", "encode_sta", "reset"} => need_update
    /\ net_pc = "encode_sta" /\ ~overtaken => draft = connection.ap
    /\ net_pc = "reset" /\ ~overtaken => info.value = connection
    /\ handler = "idle" /\ ~need_update /\ ~overtaken
         => DecodedStatus(info.value) = connection

(* The client's flags agree wherever its task is.                          *)
FlagsAgree ==
    /\ (client_status = "CONNECTED") = mqtt_started
    /\ mqtt_started = Mqtt!Up(mqtt_last)

IInv ==
    /\ TypeOK
    /\ NothingBeforeInitialize
    /\ CredentialsInHand
    /\ CredentialsNotForgotten
    /\ LastOfAccessPoint
    /\ Publishing
    /\ FlagsAgree

-----------------------------------------------------------------------------
(* A client joins the access point: its event is the last.                 *)
LEMMA ClientJoinsInv ==
    ASSUME IInv, ClientJoins, UNCHANGED <<httpOwn, mqttOwn>>
    PROVE  IInv'
<1> USE NetworkAssumption, PostsAssumption
      DEF IInv, ClientJoins, Post, Running, httpOwn, mqttOwn, task, wifi
<1>1. TypeOK'
  <2>1. /\ connection' \in Status
        /\ need_update' \in BOOLEAN
        /\ net_pc' \in NetLocation
        /\ draft' \in BOOLEAN
        /\ handler' \in {"idle", "recorded"}
        /\ link' \in Status
        /\ trying' \in BOOLEAN
        /\ overtaken' \in BOOLEAN
    BY DEF TypeOK, Status, NetLocation, Disconnected
  <2>2. /\ {cred_proto', station'} \subseteq Credential \cup {Empty}
        /\ cred' \in [value : Credential \cup {NoData}, fresh : BOOLEAN]
        /\ info' \in [value : Status \cup {NoData}, fresh : BOOLEAN]
    BY DEF TypeOK, DecodedCredential
  <2>3. events' \in Seq(Event) /\ posted' \in 0 .. MaxEvents
    BY DEF TypeOK, Event
  <2>4. /\ http_pc' \in {"read", "decide"}
        /\ {http_seen', mqtt_seen', mqtt_last'} \subseteq Status
        /\ posts' \in 0 .. MaxPosts
        /\ mqtt_pc' \in {"initialize", "deleted", "read", "publish", "decide"}
    BY DEF TypeOK
  <2>5. {server_status', client_status'} \subseteq {"CONNECTED", "DISCONNECTED"}
    BY DEF TypeOK
  <2>6. {server_up', mqtt_started'} \subseteq BOOLEAN
    BY DEF TypeOK
  <2>7. broker' \in {NoData} \cup {Mqtt!Payload(status) : status \in Status}
    BY DEF TypeOK
  <2> QED BY ONLY <2>1, <2>2, <2>3, <2>4, <2>5, <2>6, <2>7, Zenon DEF TypeOK
<1>2. NothingBeforeInitialize'
    BY DEF TypeOK, NothingBeforeInitialize
<1>3. (CredentialsInHand /\ CredentialsNotForgotten)'
    BY DEF TypeOK, CredentialsInHand, CredentialsNotForgotten
<1>4. LastOfAccessPoint'
  <2>1. /\ events' \in Seq(Event) /\ Len(events') = Len(events) + 1
        /\ events'[Len(events')] = "AP_STACONNECTED"
    BY DEF TypeOK, Event
  <2>2. Len(events') \in 1 .. Len(events')
    BY <2>1
  <2>3. link'.ap = TRUE
    BY DEF TypeOK, Status
  <2>4. ASSUME NEW i \in 1 .. Len(events'), events'[i] \in ApEvent,
               \A j \in 1 .. Len(events') : j > i => events'[j] \notin ApEvent
        PROVE  link'.ap = (events'[i] = "AP_STACONNECTED")
    <3>1. i = Len(events')
      BY <2>1, <2>2, <2>4 DEF ApEvent
    <3> QED BY <3>1, <2>1, <2>3
  <2> QED BY <2>1, <2>2, <2>4 DEF LastOfAccessPoint, ApEvent
<1>5. Publishing'
    BY DEF TypeOK, Publishing
<1>6. FlagsAgree'
    BY DEF TypeOK, FlagsAgree
<1> QED BY <1>1, <1>2, <1>3, <1>4, <1>5, <1>6

(* A client leaves the access point.                                       *)
LEMMA ClientLeavesInv ==
    ASSUME IInv, ClientLeaves, UNCHANGED <<httpOwn, mqttOwn>>
    PROVE  IInv'
<1> USE NetworkAssumption, PostsAssumption
      DEF IInv, ClientLeaves, Post, Running, httpOwn, mqttOwn, task, wifi
<1>1. TypeOK'
  <2>1. /\ connection' \in Status
        /\ need_update' \in BOOLEAN
        /\ net_pc' \in NetLocation
        /\ draft' \in BOOLEAN
        /\ handler' \in {"idle", "recorded"}
        /\ link' \in Status
        /\ trying' \in BOOLEAN
        /\ overtaken' \in BOOLEAN
    <3>1. connection' \in Status
      BY DEF TypeOK, Status
    <3>2. link' \in Status
      BY DEF TypeOK, Status
    <3>3. need_update' \in BOOLEAN /\ net_pc' \in NetLocation /\ draft' \in BOOLEAN
      BY DEF TypeOK, NetLocation
    <3>4. handler' \in {"idle", "recorded"} /\ trying' \in BOOLEAN /\ overtaken' \in BOOLEAN
      BY DEF TypeOK
    <3> QED BY ONLY <3>1, <3>2, <3>3, <3>4, Zenon
  <2>2. /\ {cred_proto', station'} \subseteq Credential \cup {Empty}
        /\ cred' \in [value : Credential \cup {NoData}, fresh : BOOLEAN]
        /\ info' \in [value : Status \cup {NoData}, fresh : BOOLEAN]
    BY DEF TypeOK, DecodedCredential
  <2>3. events' \in Seq(Event) /\ posted' \in 0 .. MaxEvents
    BY DEF TypeOK, Event
  <2>4. /\ http_pc' \in {"read", "decide"}
        /\ {http_seen', mqtt_seen', mqtt_last'} \subseteq Status
        /\ posts' \in 0 .. MaxPosts
        /\ mqtt_pc' \in {"initialize", "deleted", "read", "publish", "decide"}
    BY DEF TypeOK
  <2>5. {server_status', client_status'} \subseteq {"CONNECTED", "DISCONNECTED"}
    BY DEF TypeOK
  <2>6. {server_up', mqtt_started'} \subseteq BOOLEAN
    BY DEF TypeOK
  <2>7. broker' \in {NoData} \cup {Mqtt!Payload(status) : status \in Status}
    BY DEF TypeOK
  <2> QED BY ONLY <2>1, <2>2, <2>3, <2>4, <2>5, <2>6, <2>7, Zenon DEF TypeOK
<1>2. NothingBeforeInitialize'
    BY DEF TypeOK, NothingBeforeInitialize
<1>3. (CredentialsInHand /\ CredentialsNotForgotten)'
    BY DEF TypeOK, CredentialsInHand, CredentialsNotForgotten
<1>4. LastOfAccessPoint'
  <2>1. /\ events' \in Seq(Event) /\ Len(events') = Len(events) + 1
        /\ events'[Len(events')] = "AP_STADISCONNECTED"
    BY DEF TypeOK, Event
  <2>2. Len(events') \in 1 .. Len(events')
    BY <2>1
  <2>3. link'.ap = FALSE
    BY DEF TypeOK, Status
  <2>4. ASSUME NEW i \in 1 .. Len(events'), events'[i] \in ApEvent,
               \A j \in 1 .. Len(events') : j > i => events'[j] \notin ApEvent
        PROVE  link'.ap = (events'[i] = "AP_STACONNECTED")
    <3>1. i = Len(events')
      BY <2>1, <2>2, <2>4 DEF ApEvent
    <3> QED BY <3>1, <2>1, <2>3
  <2> QED BY <2>1, <2>2, <2>4 DEF LastOfAccessPoint, ApEvent
<1>5. Publishing'
    BY DEF TypeOK, Publishing
<1>6. FlagsAgree'
    BY DEF TypeOK, FlagsAgree
<1> QED BY <1>1, <1>2, <1>3, <1>4, <1>5, <1>6

(* The station connects: the event is not one of the access point.         *)
LEMMA StationAssociatesInv ==
    ASSUME IInv, StationAssociates, UNCHANGED <<httpOwn, mqttOwn>>
    PROVE  IInv'
<1> USE NetworkAssumption, PostsAssumption
      DEF IInv, StationAssociates, Post, Running, httpOwn, mqttOwn, task, wifi
<1>1. TypeOK'
  <2>1. /\ connection' \in Status
        /\ need_update' \in BOOLEAN
        /\ net_pc' \in NetLocation
        /\ draft' \in BOOLEAN
        /\ handler' \in {"idle", "recorded"}
        /\ link' \in Status
        /\ trying' \in BOOLEAN
        /\ overtaken' \in BOOLEAN
    BY DEF TypeOK, Status, NetLocation, Disconnected
  <2>2. /\ {cred_proto', station'} \subseteq Credential \cup {Empty}
        /\ cred' \in [value : Credential \cup {NoData}, fresh : BOOLEAN]
        /\ info' \in [value : Status \cup {NoData}, fresh : BOOLEAN]
    BY DEF TypeOK, DecodedCredential
  <2>3. events' \in Seq(Event) /\ posted' \in 0 .. MaxEvents
    BY DEF TypeOK, Event
  <2>4. /\ http_pc' \in {"read", "decide"}
        /\ {http_seen', mqtt_seen', mqtt_last'} \subseteq Status
        /\ posts' \in 0 .. MaxPosts
        /\ mqtt_pc' \in {"initialize", "deleted", "read", "publish", "decide"}
    BY DEF TypeOK
  <2>5. {server_status', client_status'} \subseteq {"CONNECTED", "DISCONNECTED"}
    BY DEF TypeOK
  <2>6. {server_up', mqtt_started'} \subseteq BOOLEAN
    BY DEF TypeOK
  <2>7. broker' \in {NoData} \cup {Mqtt!Payload(status) : status \in Status}
    BY DEF TypeOK
  <2> QED BY ONLY <2>1, <2>2, <2>3, <2>4, <2>5, <2>6, <2>7, Zenon DEF TypeOK
<1>2. NothingBeforeInitialize'
    BY DEF TypeOK, NothingBeforeInitialize
<1>3. (CredentialsInHand /\ CredentialsNotForgotten)'
    BY DEF TypeOK, CredentialsInHand, CredentialsNotForgotten
<1>4. LastOfAccessPoint'
    BY DEF TypeOK, LastOfAccessPoint, ApEvent
<1>5. Publishing'
    BY DEF TypeOK, Publishing
<1>6. FlagsAgree'
    BY DEF TypeOK, FlagsAgree
<1> QED BY <1>1, <1>2, <1>3, <1>4, <1>5, <1>6

(* The station's link is lost, or an attempt fails.                        *)
LEMMA StationDropsInv ==
    ASSUME IInv, StationDrops, UNCHANGED <<httpOwn, mqttOwn>>
    PROVE  IInv'
<1> USE NetworkAssumption, PostsAssumption
      DEF IInv, StationDrops, Post, Running, httpOwn, mqttOwn, task, wifi
<1>1. TypeOK'
  <2>1. /\ connection' \in Status
        /\ need_update' \in BOOLEAN
        /\ net_pc' \in NetLocation
        /\ draft' \in BOOLEAN
        /\ handler' \in {"idle", "recorded"}
        /\ link' \in Status
        /\ trying' \in BOOLEAN
        /\ overtaken' \in BOOLEAN
    <3>1. UNCHANGED <<connection, need_update, net_pc, draft, handler, overtaken>>
      OBVIOUS
    <3>2. TypeOK
      OBVIOUS
    <3>3. trying' = FALSE /\ link' = [link EXCEPT !.sta = FALSE]
      OBVIOUS
    <3>4. link' \in Status
      BY ONLY <3>2, <3>3 DEF TypeOK, Status
    <3> QED BY ONLY <3>1, <3>2, <3>3, <3>4, Zenon DEF TypeOK
  <2>2. /\ {cred_proto', station'} \subseteq Credential \cup {Empty}
        /\ cred' \in [value : Credential \cup {NoData}, fresh : BOOLEAN]
        /\ info' \in [value : Status \cup {NoData}, fresh : BOOLEAN]
    <3>1. UNCHANGED <<cred_proto, station, cred, info>>
      OBVIOUS
    <3>2. TypeOK
      OBVIOUS
    <3> QED BY ONLY <3>1, <3>2, Zenon DEF TypeOK
  <2>3. events' \in Seq(Event) /\ posted' \in 0 .. MaxEvents
    BY DEF TypeOK, Event
  <2>4. /\ http_pc' \in {"read", "decide"}
        /\ {http_seen', mqtt_seen', mqtt_last'} \subseteq Status
        /\ posts' \in 0 .. MaxPosts
        /\ mqtt_pc' \in {"initialize", "deleted", "read", "publish", "decide"}
    BY DEF TypeOK
  <2>5. {server_status', client_status'} \subseteq {"CONNECTED", "DISCONNECTED"}
    BY DEF TypeOK
  <2>6. {server_up', mqtt_started'} \subseteq BOOLEAN
    BY DEF TypeOK
  <2>7. broker' \in {NoData} \cup {Mqtt!Payload(status) : status \in Status}
    BY DEF TypeOK
  <2> QED BY ONLY <2>1, <2>2, <2>3, <2>4, <2>5, <2>6, <2>7, Zenon DEF TypeOK
<1>2. NothingBeforeInitialize'
    BY DEF TypeOK, NothingBeforeInitialize
<1>3. (CredentialsInHand /\ CredentialsNotForgotten)'
    BY DEF TypeOK, CredentialsInHand, CredentialsNotForgotten
<1>4. LastOfAccessPoint'
    BY DEF TypeOK, LastOfAccessPoint, ApEvent
<1>5. Publishing'
    BY DEF TypeOK, Publishing
<1>6. FlagsAgree'
    BY DEF TypeOK, FlagsAgree
<1> QED BY <1>1, <1>2, <1>3, <1>4, <1>5, <1>6

(* The handler takes the first event of the queue.                         *)
LEMMA HandleEventInv ==
    ASSUME IInv, HandleEvent, UNCHANGED <<httpOwn, mqttOwn>>
    PROVE  IInv'
<1> USE NetworkAssumption, PostsAssumption
      DEF IInv, HandleEvent, Recorded, httpOwn, mqttOwn, task, wifi
<1>1. TypeOK'
  <2>0. Head(events) \in Event
    BY DEF TypeOK
  <2>1. /\ connection' \in Status
        /\ need_update' \in BOOLEAN
        /\ net_pc' \in NetLocation
        /\ draft' \in BOOLEAN
        /\ handler' \in {"idle", "recorded"}
        /\ link' \in Status
        /\ trying' \in BOOLEAN
        /\ overtaken' \in BOOLEAN
    <3>1. connection' \in Status
      BY <2>0 DEF TypeOK, Status, Event
    <3>2. link' \in Status
      BY DEF TypeOK, Status
    <3>3. need_update' \in BOOLEAN /\ net_pc' \in NetLocation /\ draft' \in BOOLEAN
      BY DEF TypeOK, NetLocation
    <3>4. handler' \in {"idle", "recorded"} /\ trying' \in BOOLEAN /\ overtaken' \in BOOLEAN
      BY DEF TypeOK
    <3> QED BY ONLY <3>1, <3>2, <3>3, <3>4, Zenon
  <2>2. /\ {cred_proto', station'} \subseteq Credential \cup {Empty}
        /\ cred' \in [value : Credential \cup {NoData}, fresh : BOOLEAN]
        /\ info' \in [value : Status \cup {NoData}, fresh : BOOLEAN]
    BY DEF TypeOK, DecodedCredential
  <2>3. events' \in Seq(Event) /\ posted' \in 0 .. MaxEvents
    BY DEF TypeOK, Event
  <2>4. /\ http_pc' \in {"read", "decide"}
        /\ {http_seen', mqtt_seen', mqtt_last'} \subseteq Status
        /\ posts' \in 0 .. MaxPosts
        /\ mqtt_pc' \in {"initialize", "deleted", "read", "publish", "decide"}
    BY DEF TypeOK
  <2>5. {server_status', client_status'} \subseteq {"CONNECTED", "DISCONNECTED"}
    BY DEF TypeOK
  <2>6. {server_up', mqtt_started'} \subseteq BOOLEAN
    BY DEF TypeOK
  <2>7. broker' \in {NoData} \cup {Mqtt!Payload(status) : status \in Status}
    BY DEF TypeOK
  <2> QED BY ONLY <2>1, <2>2, <2>3, <2>4, <2>5, <2>6, <2>7, Zenon DEF TypeOK
<1>2. NothingBeforeInitialize'
    BY DEF TypeOK, NothingBeforeInitialize
<1>3. (CredentialsInHand /\ CredentialsNotForgotten)'
    BY DEF TypeOK, CredentialsInHand, CredentialsNotForgotten
<1>4. LastOfAccessPoint'
  <2>1. /\ Len(events) \in Nat \ {0} /\ Len(events') = Len(events) - 1
        /\ \A i \in 1 .. Len(events') : events'[i] = events[i + 1]
        /\ Head(events) = events[1]
    BY DEF TypeOK
  <2>2. ASSUME NEW i \in 1 .. Len(events'), events'[i] \in ApEvent,
               \A j \in 1 .. Len(events') : j > i => events'[j] \notin ApEvent
        PROVE  link'.ap = (events'[i] = "AP_STACONNECTED")
    <3>1. i + 1 \in 1 .. Len(events) /\ events[i + 1] = events'[i]
      BY <2>1
    <3>2. ASSUME NEW j \in 1 .. Len(events), j > i + 1
          PROVE  events[j] \notin ApEvent
      <4>1. j - 1 \in 1 .. Len(events') /\ j - 1 > i /\ events'[j - 1] = events[j]
        BY <2>1, <3>2
      <4> QED BY <4>1, <2>2
    <3> QED BY <2>2, <3>1, <3>2 DEF LastOfAccessPoint
  <2>3. ASSUME \A i \in 1 .. Len(events') : events'[i] \notin ApEvent
        PROVE  connection'.ap = link'.ap
    <3>1. ASSUME NEW j \in 1 .. Len(events), j > 1
          PROVE  events[j] \notin ApEvent
      <4>1. j - 1 \in 1 .. Len(events') /\ events'[j - 1] = events[j]
        BY <2>1, <3>1
      <4> QED BY <4>1, <2>3
    <3>2. CASE events[1] \in ApEvent
      <4>1. 1 \in 1 .. Len(events)
        BY <2>1
      <4>2. link.ap = (events[1] = "AP_STACONNECTED")
        BY <3>1, <3>2, <4>1 DEF LastOfAccessPoint
      <4>3. connection'.ap = (events[1] = "AP_STACONNECTED")
        BY <2>1, <3>2 DEF ApEvent, TypeOK, Status
      <4> QED BY <4>2, <4>3
    <3>3. CASE events[1] \notin ApEvent
      <4>1. connection.ap = link.ap
        BY <3>1, <3>3, <2>1 DEF LastOfAccessPoint
      <4>2. events[1] \in Event
        BY <2>1 DEF TypeOK
      <4>3. connection'.ap = connection.ap
        BY <2>1, <3>3, <4>2 DEF ApEvent, Event, TypeOK, Status
      <4> QED BY <4>1, <4>3
    <3> QED BY <3>2, <3>3
  <2> QED BY <2>2, <2>3 DEF LastOfAccessPoint
<1>5. Publishing'
  <2>1. /\ net_pc' = net_pc /\ draft' = draft /\ info' = info
        /\ need_update' = need_update /\ handler' = "recorded"
        /\ connection' = Recorded(Head(events))
        /\ overtaken' = (overtaken \/ Missed(Head(events)))
    BY DEF HandleEvent
  <2>2. net_pc' \in {"encode_ap", "encode_sta", "reset"} => need_update'
    BY ONLY <2>1, IInv DEF IInv, Publishing
  <2>3. net_pc' = "encode_sta" /\ ~overtaken' => draft' = connection'.ap
    BY ONLY <2>1, IInv, Zenon DEF IInv, Publishing, Missed
  <2>4. net_pc' = "reset" /\ ~overtaken' => info'.value = connection'
    BY ONLY <2>1, IInv, Zenon DEF IInv, Publishing, Missed
  <2> QED BY ONLY <2>1, <2>2, <2>3, <2>4 DEF Publishing
<1>6. FlagsAgree'
    BY DEF TypeOK, FlagsAgree
<1> QED BY <1>1, <1>2, <1>3, <1>4, <1>5, <1>6

(* The handler raises need_update: the network task will write.            *)
LEMMA FlagUpdateInv ==
    ASSUME IInv, FlagUpdate, UNCHANGED <<httpOwn, mqttOwn>>
    PROVE  IInv'
<1> USE NetworkAssumption, PostsAssumption
      DEF IInv, FlagUpdate, httpOwn, mqttOwn, task, wifi
<1>1. TypeOK'
    BY DEF TypeOK, Status, Event, NetLocation, Disconnected
<1>2. NothingBeforeInitialize'
    BY DEF TypeOK, NothingBeforeInitialize
<1>3. (CredentialsInHand /\ CredentialsNotForgotten)'
    BY DEF TypeOK, CredentialsInHand, CredentialsNotForgotten
<1>4. LastOfAccessPoint'
    BY DEF TypeOK, LastOfAccessPoint, ApEvent
<1>5. Publishing'
    BY DEF TypeOK, Publishing
<1>6. FlagsAgree'
    BY DEF TypeOK, FlagsAgree
<1> QED BY <1>1, <1>2, <1>3, <1>4, <1>5, <1>6

(* Initialize resets what still has its first value.                       *)
LEMMA InitializeInv ==
    ASSUME IInv, Initialize, UNCHANGED <<httpOwn, mqttOwn>>
    PROVE  IInv'
<1> USE NetworkAssumption, PostsAssumption
      DEF IInv, Initialize, Goto, httpOwn, mqttOwn, task, wifi
<1>1. TypeOK'
  <2>1. /\ connection' \in Status
        /\ need_update' \in BOOLEAN
        /\ net_pc' \in NetLocation
        /\ draft' \in BOOLEAN
        /\ handler' \in {"idle", "recorded"}
        /\ link' \in Status
        /\ trying' \in BOOLEAN
        /\ overtaken' \in BOOLEAN
    BY DEF TypeOK, Status, NetLocation, Disconnected
  <2>2. /\ {cred_proto', station'} \subseteq Credential \cup {Empty}
        /\ cred' \in [value : Credential \cup {NoData}, fresh : BOOLEAN]
        /\ info' \in [value : Status \cup {NoData}, fresh : BOOLEAN]
    BY DEF TypeOK, DecodedCredential
  <2>3. events' \in Seq(Event) /\ posted' \in 0 .. MaxEvents
    BY DEF TypeOK, Event
  <2>4. /\ http_pc' \in {"read", "decide"}
        /\ {http_seen', mqtt_seen', mqtt_last'} \subseteq Status
        /\ posts' \in 0 .. MaxPosts
        /\ mqtt_pc' \in {"initialize", "deleted", "read", "publish", "decide"}
    BY DEF TypeOK
  <2>5. {server_status', client_status'} \subseteq {"CONNECTED", "DISCONNECTED"}
    BY DEF TypeOK
  <2>6. {server_up', mqtt_started'} \subseteq BOOLEAN
    BY DEF TypeOK
  <2>7. broker' \in {NoData} \cup {Mqtt!Payload(status) : status \in Status}
    BY DEF TypeOK
  <2> QED BY ONLY <2>1, <2>2, <2>3, <2>4, <2>5, <2>6, <2>7, Zenon DEF TypeOK
<1>2. NothingBeforeInitialize'
    BY DEF TypeOK, NothingBeforeInitialize
<1>3. (CredentialsInHand /\ CredentialsNotForgotten)'
    BY DEF TypeOK, CredentialsInHand, CredentialsNotForgotten
<1>4. LastOfAccessPoint'
    BY DEF TypeOK, LastOfAccessPoint, ApEvent, NothingBeforeInitialize, Disconnected
<1>5. Publishing'
    BY DEF TypeOK, Publishing, NothingBeforeInitialize, Disconnected
<1>6. FlagsAgree'
    BY DEF TypeOK, FlagsAgree
<1> QED BY <1>1, <1>2, <1>3, <1>4, <1>5, <1>6

(* Initialize fails.                                                       *)
LEMMA InitializeFailsInv ==
    ASSUME IInv, InitializeFails, UNCHANGED <<httpOwn, mqttOwn>>
    PROVE  IInv'
<1> USE NetworkAssumption, PostsAssumption
      DEF IInv, InitializeFails, Goto, httpOwn, mqttOwn, task, wifi
<1>1. TypeOK'
    BY DEF TypeOK, Status, Event, NetLocation, Disconnected
<1>2. NothingBeforeInitialize'
    BY DEF TypeOK, NothingBeforeInitialize
<1>3. (CredentialsInHand /\ CredentialsNotForgotten)'
    BY DEF TypeOK, CredentialsInHand, CredentialsNotForgotten
<1>4. LastOfAccessPoint'
    BY DEF TypeOK, LastOfAccessPoint, ApEvent
<1>5. Publishing'
    BY DEF TypeOK, Publishing
<1>6. FlagsAgree'
    BY DEF TypeOK, FlagsAgree
<1> QED BY <1>1, <1>2, <1>3, <1>4, <1>5, <1>6

(* A consuming Read takes the update flag and the credentials.             *)
LEMMA ReadCredentialsInv ==
    ASSUME NEW from, NEW to,
           <<from, to>> \in {<<"boot_read", "boot_config">>, <<"read", "config">>},
           IInv, ReadCredentials(from, to), UNCHANGED <<httpOwn, mqttOwn>>
    PROVE  IInv'
<1> USE NetworkAssumption, PostsAssumption
      DEF IInv, ReadCredentials, Goto, httpOwn, mqttOwn, task, wifi
<1>1. TypeOK'
  <2>1. /\ connection' \in Status
        /\ need_update' \in BOOLEAN
        /\ net_pc' \in NetLocation
        /\ draft' \in BOOLEAN
        /\ handler' \in {"idle", "recorded"}
        /\ link' \in Status
        /\ trying' \in BOOLEAN
        /\ overtaken' \in BOOLEAN
    BY DEF TypeOK, Status, NetLocation, Disconnected
  <2>2. /\ {cred_proto', station'} \subseteq Credential \cup {Empty}
        /\ cred' \in [value : Credential \cup {NoData}, fresh : BOOLEAN]
        /\ info' \in [value : Status \cup {NoData}, fresh : BOOLEAN]
    BY DEF TypeOK, DecodedCredential
  <2>3. events' \in Seq(Event) /\ posted' \in 0 .. MaxEvents
    BY DEF TypeOK, Event
  <2>4. /\ http_pc' \in {"read", "decide"}
        /\ {http_seen', mqtt_seen', mqtt_last'} \subseteq Status
        /\ posts' \in 0 .. MaxPosts
        /\ mqtt_pc' \in {"initialize", "deleted", "read", "publish", "decide"}
    BY DEF TypeOK
  <2>5. {server_status', client_status'} \subseteq {"CONNECTED", "DISCONNECTED"}
    BY DEF TypeOK
  <2>6. {server_up', mqtt_started'} \subseteq BOOLEAN
    BY DEF TypeOK
  <2>7. broker' \in {NoData} \cup {Mqtt!Payload(status) : status \in Status}
    BY DEF TypeOK
  <2> QED BY ONLY <2>1, <2>2, <2>3, <2>4, <2>5, <2>6, <2>7, Zenon DEF TypeOK
<1>2. NothingBeforeInitialize'
    BY DEF TypeOK, NothingBeforeInitialize
<1>3. (CredentialsInHand /\ CredentialsNotForgotten)'
    BY DEF TypeOK, CredentialsInHand, CredentialsNotForgotten
<1>4. LastOfAccessPoint'
    BY DEF TypeOK, LastOfAccessPoint, ApEvent
<1>5. Publishing'
    BY DEF TypeOK, Publishing
<1>6. FlagsAgree'
    BY DEF TypeOK, FlagsAgree
<1> QED BY <1>1, <1>2, <1>3, <1>4, <1>5, <1>6

(* The station is configured with the credentials in hand.                 *)
LEMMA ConfigureStationInv ==
    ASSUME NEW from, NEW to,
           <<from, to>> \in {<<"boot_config", "boot_connect">>, <<"config", "connect">>},
           IInv, ConfigureStation(from, to), UNCHANGED <<httpOwn, mqttOwn>>
    PROVE  IInv'
<1> USE NetworkAssumption, PostsAssumption
      DEF IInv, ConfigureStation, Goto, httpOwn, mqttOwn, task, wifi
<1>1. TypeOK'
    BY DEF TypeOK, Status, Event, NetLocation, Disconnected
<1>2. NothingBeforeInitialize'
    BY DEF TypeOK, NothingBeforeInitialize
<1>3. (CredentialsInHand /\ CredentialsNotForgotten)'
    BY DEF TypeOK, CredentialsInHand, CredentialsNotForgotten
<1>4. LastOfAccessPoint'
    BY DEF TypeOK, LastOfAccessPoint, ApEvent
<1>5. Publishing'
    BY DEF TypeOK, Publishing
<1>6. FlagsAgree'
    BY DEF TypeOK, FlagsAgree
<1> QED BY <1>1, <1>2, <1>3, <1>4, <1>5, <1>6

(* The station is told to connect.                                         *)
LEMMA ConnectInv ==
    ASSUME NEW from, NEW to,
           <<from, to>> \in {<<"boot_connect", "poll">>, <<"connect", "check">>},
           IInv, Connect(from, to), UNCHANGED <<httpOwn, mqttOwn>>
    PROVE  IInv'
<1> USE NetworkAssumption, PostsAssumption
      DEF IInv, Connect, Goto, httpOwn, mqttOwn, task, wifi
<1>1. TypeOK'
    BY DEF TypeOK, Status, Event, NetLocation, Disconnected
<1>2. NothingBeforeInitialize'
    BY DEF TypeOK, NothingBeforeInitialize
<1>3. (CredentialsInHand /\ CredentialsNotForgotten)'
    BY DEF TypeOK, CredentialsInHand, CredentialsNotForgotten
<1>4. LastOfAccessPoint'
    BY DEF TypeOK, LastOfAccessPoint, ApEvent
<1>5. Publishing'
    BY DEF TypeOK, Publishing
<1>6. FlagsAgree'
    BY DEF TypeOK, FlagsAgree
<1> QED BY <1>1, <1>2, <1>3, <1>4, <1>5, <1>6

(* A poll of the credentials' flag.                                        *)
LEMMA PollCredentialsInv ==
    ASSUME IInv, PollCredentials, UNCHANGED <<httpOwn, mqttOwn>>
    PROVE  IInv'
<1> USE NetworkAssumption, PostsAssumption
      DEF IInv, PollCredentials, Step, Goto, httpOwn, mqttOwn, task, wifi
<1>1. TypeOK'
    BY DEF TypeOK, Status, Event, NetLocation, Disconnected
<1>2. NothingBeforeInitialize'
    BY DEF TypeOK, NothingBeforeInitialize
<1>3. (CredentialsInHand /\ CredentialsNotForgotten)'
    BY DEF TypeOK, CredentialsInHand, CredentialsNotForgotten
<1>4. LastOfAccessPoint'
    BY DEF TypeOK, LastOfAccessPoint, ApEvent
<1>5. Publishing'
    BY DEF TypeOK, Publishing
<1>6. FlagsAgree'
    BY DEF TypeOK, FlagsAgree
<1> QED BY <1>1, <1>2, <1>3, <1>4, <1>5, <1>6

(* A look at need_update: past it the flag is up until the reset.          *)
LEMMA CheckUpdateInv ==
    ASSUME IInv, CheckUpdate, UNCHANGED <<httpOwn, mqttOwn>>
    PROVE  IInv'
<1> USE NetworkAssumption, PostsAssumption
      DEF IInv, CheckUpdate, Step, Goto, httpOwn, mqttOwn, task, wifi
<1>1. TypeOK'
    BY DEF TypeOK, Status, Event, NetLocation, Disconnected
<1>2. NothingBeforeInitialize'
    BY DEF TypeOK, NothingBeforeInitialize
<1>3. (CredentialsInHand /\ CredentialsNotForgotten)'
    BY DEF TypeOK, CredentialsInHand, CredentialsNotForgotten
<1>4. LastOfAccessPoint'
    BY DEF TypeOK, LastOfAccessPoint, ApEvent
<1>5. Publishing'
    BY DEF TypeOK, Publishing
<1>6. FlagsAgree'
    BY DEF TypeOK, FlagsAgree
<1> QED BY <1>1, <1>2, <1>3, <1>4, <1>5, <1>6

(* The network task sleeps.                                                *)
LEMMA SleepInv ==
    ASSUME IInv, Sleep, UNCHANGED <<httpOwn, mqttOwn>>
    PROVE  IInv'
<1> USE NetworkAssumption, PostsAssumption
      DEF IInv, Sleep, Step, Goto, httpOwn, mqttOwn, task, wifi
<1>1. TypeOK'
    BY DEF TypeOK, Status, Event, NetLocation, Disconnected
<1>2. NothingBeforeInitialize'
    BY DEF TypeOK, NothingBeforeInitialize
<1>3. (CredentialsInHand /\ CredentialsNotForgotten)'
    BY DEF TypeOK, CredentialsInHand, CredentialsNotForgotten
<1>4. LastOfAccessPoint'
    BY DEF TypeOK, LastOfAccessPoint, ApEvent
<1>5. Publishing'
    BY DEF TypeOK, Publishing
<1>6. FlagsAgree'
    BY DEF TypeOK, FlagsAgree
<1> QED BY <1>1, <1>2, <1>3, <1>4, <1>5, <1>6

(* The first field is encoded.                                             *)
LEMMA EncodeAPInv ==
    ASSUME IInv, EncodeAP, UNCHANGED <<httpOwn, mqttOwn>>
    PROVE  IInv'
<1> USE NetworkAssumption, PostsAssumption
      DEF IInv, EncodeAP, Goto, httpOwn, mqttOwn, task, wifi
<1>1. TypeOK'
  <2>1. /\ connection' \in Status
        /\ need_update' \in BOOLEAN
        /\ net_pc' \in NetLocation
        /\ handler' \in {"idle", "recorded"}
        /\ link' \in Status
        /\ trying' \in BOOLEAN
    BY DEF TypeOK, NetLocation
  <2>2. draft' \in BOOLEAN
    BY DEF TypeOK, Status
  <2>3. overtaken' \in BOOLEAN
    OBVIOUS
  <2>4. /\ {cred_proto', station'} \subseteq Credential \cup {Empty}
        /\ cred' \in [value : Credential \cup {NoData}, fresh : BOOLEAN]
        /\ info' \in [value : Status \cup {NoData}, fresh : BOOLEAN]
    BY DEF TypeOK
  <2>5. events' \in Seq(Event) /\ posted' \in 0 .. MaxEvents
    BY DEF TypeOK
  <2>6. /\ http_pc' \in {"read", "decide"}
        /\ {http_seen', mqtt_seen', mqtt_last'} \subseteq Status
        /\ posts' \in 0 .. MaxPosts
        /\ mqtt_pc' \in {"initialize", "deleted", "read", "publish", "decide"}
    BY DEF TypeOK
  <2>7. /\ {server_status', client_status'} \subseteq {"CONNECTED", "DISCONNECTED"}
        /\ {server_up', mqtt_started'} \subseteq BOOLEAN
        /\ broker' \in {NoData} \cup {Mqtt!Payload(status) : status \in Status}
    BY DEF TypeOK
  <2> QED BY ONLY <2>1, <2>2, <2>3, <2>4, <2>5, <2>6, <2>7, Zenon DEF TypeOK
<1>2. NothingBeforeInitialize'
    BY DEF TypeOK, NothingBeforeInitialize
<1>3. (CredentialsInHand /\ CredentialsNotForgotten)'
    BY DEF TypeOK, CredentialsInHand, CredentialsNotForgotten
<1>4. LastOfAccessPoint'
    BY DEF TypeOK, LastOfAccessPoint, ApEvent
<1>5. Publishing'
    BY DEF TypeOK, Publishing
<1>6. FlagsAgree'
    BY DEF TypeOK, FlagsAgree
<1> QED BY <1>1, <1>2, <1>3, <1>4, <1>5, <1>6

(* The second field is encoded and the area written.                       *)
LEMMA EncodeSTAInv ==
    ASSUME IInv, EncodeSTA, UNCHANGED <<httpOwn, mqttOwn>>
    PROVE  IInv'
<1> USE NetworkAssumption, PostsAssumption
      DEF IInv, EncodeSTA, Goto, httpOwn, mqttOwn, task, wifi
<1>1. TypeOK'
    BY DEF TypeOK, Status, Event, NetLocation, Disconnected
<1>2. NothingBeforeInitialize'
    BY DEF TypeOK, NothingBeforeInitialize
<1>3. (CredentialsInHand /\ CredentialsNotForgotten)'
    BY DEF TypeOK, CredentialsInHand, CredentialsNotForgotten
<1>4. LastOfAccessPoint'
    BY DEF TypeOK, LastOfAccessPoint, ApEvent
<1>5. Publishing'
    BY DEF TypeOK, Publishing, Status
<1>6. FlagsAgree'
    BY DEF TypeOK, FlagsAgree
<1> QED BY <1>1, <1>2, <1>3, <1>4, <1>5, <1>6

(* The reset: what the area holds is the record, unless it was overtaken.  *)
LEMMA ResetUpdateInv ==
    ASSUME IInv, ResetUpdate, UNCHANGED <<httpOwn, mqttOwn>>
    PROVE  IInv'
<1> USE NetworkAssumption, PostsAssumption
      DEF IInv, ResetUpdate, Goto, httpOwn, mqttOwn, task, wifi
<1>1. TypeOK'
  <2>1. /\ connection' \in Status
        /\ need_update' \in BOOLEAN
        /\ net_pc' \in NetLocation
        /\ handler' \in {"idle", "recorded"}
        /\ link' \in Status
        /\ trying' \in BOOLEAN
    BY DEF TypeOK, NetLocation
  <2>2. draft' \in BOOLEAN
    BY DEF TypeOK
  <2>3. overtaken' \in BOOLEAN
    BY DEF TypeOK
  <2>4. /\ {cred_proto', station'} \subseteq Credential \cup {Empty}
        /\ cred' \in [value : Credential \cup {NoData}, fresh : BOOLEAN]
        /\ info' \in [value : Status \cup {NoData}, fresh : BOOLEAN]
    BY DEF TypeOK
  <2>5. events' \in Seq(Event) /\ posted' \in 0 .. MaxEvents
    BY DEF TypeOK
  <2>6. /\ http_pc' \in {"read", "decide"}
        /\ {http_seen', mqtt_seen', mqtt_last'} \subseteq Status
        /\ posts' \in 0 .. MaxPosts
        /\ mqtt_pc' \in {"initialize", "deleted", "read", "publish", "decide"}
    BY DEF TypeOK
  <2>7. /\ {server_status', client_status'} \subseteq {"CONNECTED", "DISCONNECTED"}
        /\ {server_up', mqtt_started'} \subseteq BOOLEAN
        /\ broker' \in {NoData} \cup {Mqtt!Payload(status) : status \in Status}
    BY DEF TypeOK
  <2> QED BY ONLY <2>1, <2>2, <2>3, <2>4, <2>5, <2>6, <2>7, Zenon DEF TypeOK
<1>2. NothingBeforeInitialize'
    BY DEF TypeOK, NothingBeforeInitialize
<1>3. (CredentialsInHand /\ CredentialsNotForgotten)'
    BY DEF TypeOK, CredentialsInHand, CredentialsNotForgotten
<1>4. LastOfAccessPoint'
    BY DEF TypeOK, LastOfAccessPoint, ApEvent
<1>5. Publishing'
  <2>1. net_pc = "reset" /\ net_pc' = "sleep" /\ overtaken' = overtaken
        /\ info' = info /\ connection' = connection
    OBVIOUS
  <2>2. connection # NoData
    BY NetworkAssumption DEF TypeOK, Status
  <2>3. ~overtaken => info.value = connection
    BY <2>1 DEF Publishing
  <2>4. ~overtaken' => DecodedStatus(info'.value) = connection'
    BY ONLY <2>1, <2>2, <2>3, Zenon DEF DecodedStatus
  <2> QED BY ONLY <2>1, <2>4, Zenon DEF Publishing
<1>6. FlagsAgree'
    BY DEF TypeOK, FlagsAgree
<1> QED BY <1>1, <1>2, <1>3, <1>4, <1>5, <1>6

(* The HTTP task reads the status and consumes its update flag.            *)
LEMMA HttpReadStatusInv ==
    ASSUME IInv, Http!ReadStatus, UNCHANGED <<netOwn, mqttOwn>>
    PROVE  IInv'
<1> USE NetworkAssumption, PostsAssumption
      DEF IInv, Http!ReadStatus, netOwn, mqttOwn, task, wifi
<1>1. TypeOK'
  <2>1. /\ connection' \in Status
        /\ need_update' \in BOOLEAN
        /\ net_pc' \in NetLocation
        /\ draft' \in BOOLEAN
        /\ handler' \in {"idle", "recorded"}
        /\ link' \in Status
        /\ trying' \in BOOLEAN
        /\ overtaken' \in BOOLEAN
    BY DEF TypeOK, Status, NetLocation, Disconnected
  <2>2. /\ {cred_proto', station'} \subseteq Credential \cup {Empty}
        /\ cred' \in [value : Credential \cup {NoData}, fresh : BOOLEAN]
        /\ info' \in [value : Status \cup {NoData}, fresh : BOOLEAN]
    BY DEF TypeOK, DecodedCredential
  <2>3. events' \in Seq(Event) /\ posted' \in 0 .. MaxEvents
    BY DEF TypeOK, Event
  <2>4. /\ http_pc' \in {"read", "decide"}
        /\ {http_seen', mqtt_seen', mqtt_last'} \subseteq Status
        /\ posts' \in 0 .. MaxPosts
        /\ mqtt_pc' \in {"initialize", "deleted", "read", "publish", "decide"}
    BY DEF TypeOK, Http!DecodedStatus, Http!Disconnected, Status
  <2>5. {server_status', client_status'} \subseteq {"CONNECTED", "DISCONNECTED"}
    BY DEF TypeOK
  <2>6. {server_up', mqtt_started'} \subseteq BOOLEAN
    BY DEF TypeOK
  <2>7. broker' \in {NoData} \cup {Mqtt!Payload(status) : status \in Status}
    BY DEF TypeOK
  <2> QED BY ONLY <2>1, <2>2, <2>3, <2>4, <2>5, <2>6, <2>7, Zenon DEF TypeOK
<1>2. NothingBeforeInitialize'
    BY DEF TypeOK, NothingBeforeInitialize
<1>3. (CredentialsInHand /\ CredentialsNotForgotten)'
    BY DEF TypeOK, CredentialsInHand, CredentialsNotForgotten
<1>4. LastOfAccessPoint'
    BY DEF TypeOK, LastOfAccessPoint, ApEvent
<1>5. Publishing'
    BY DEF TypeOK, Publishing
<1>6. FlagsAgree'
    BY DEF TypeOK, FlagsAgree
<1> QED BY <1>1, <1>2, <1>3, <1>4, <1>5, <1>6

(* The HTTP task starts the server, or not.                                *)
LEMMA HttpDecideInv ==
    ASSUME IInv, Http!Decide, UNCHANGED <<netOwn, mqttOwn>>
    PROVE  IInv'
<1> USE NetworkAssumption, PostsAssumption
      DEF IInv, Http!Decide, netOwn, mqttOwn, task, wifi
<1>1. TypeOK'
  <2>1. /\ connection' \in Status
        /\ need_update' \in BOOLEAN
        /\ net_pc' \in NetLocation
        /\ draft' \in BOOLEAN
        /\ handler' \in {"idle", "recorded"}
        /\ link' \in Status
        /\ trying' \in BOOLEAN
        /\ overtaken' \in BOOLEAN
    BY DEF TypeOK, Status, NetLocation, Disconnected
  <2>2. /\ {cred_proto', station'} \subseteq Credential \cup {Empty}
        /\ cred' \in [value : Credential \cup {NoData}, fresh : BOOLEAN]
        /\ info' \in [value : Status \cup {NoData}, fresh : BOOLEAN]
    BY DEF TypeOK, DecodedCredential
  <2>3. events' \in Seq(Event) /\ posted' \in 0 .. MaxEvents
    BY DEF TypeOK, Event
  <2>4. /\ http_pc' \in {"read", "decide"}
        /\ {http_seen', mqtt_seen', mqtt_last'} \subseteq Status
        /\ posts' \in 0 .. MaxPosts
        /\ mqtt_pc' \in {"initialize", "deleted", "read", "publish", "decide"}
    BY DEF TypeOK
  <2>5. {server_status', client_status'} \subseteq {"CONNECTED", "DISCONNECTED"}
    BY DEF TypeOK
  <2>6. {server_up', mqtt_started'} \subseteq BOOLEAN
    BY DEF TypeOK
  <2>7. broker' \in {NoData} \cup {Mqtt!Payload(status) : status \in Status}
    BY DEF TypeOK
  <2> QED BY ONLY <2>1, <2>2, <2>3, <2>4, <2>5, <2>6, <2>7, Zenon DEF TypeOK
<1>2. NothingBeforeInitialize'
    BY DEF TypeOK, NothingBeforeInitialize
<1>3. (CredentialsInHand /\ CredentialsNotForgotten)'
    BY DEF TypeOK, CredentialsInHand, CredentialsNotForgotten
<1>4. LastOfAccessPoint'
    BY DEF TypeOK, LastOfAccessPoint, ApEvent
<1>5. Publishing'
    BY DEF TypeOK, Publishing
<1>6. FlagsAgree'
    BY DEF TypeOK, FlagsAgree
<1> QED BY <1>1, <1>2, <1>3, <1>4, <1>5, <1>6

(* New credentials come in: the area's flag goes up.                       *)
LEMMA PostCredentialsInv ==
    ASSUME NEW credential \in Credential,
           IInv, Http!PostCredentials(credential), UNCHANGED <<netOwn, mqttOwn>>
    PROVE  IInv'
<1> USE NetworkAssumption, PostsAssumption
      DEF IInv, Http!PostCredentials, netOwn, mqttOwn, task, wifi
<1>1. TypeOK'
    BY DEF TypeOK, Status, Event, NetLocation, Disconnected
<1>2. NothingBeforeInitialize'
    BY DEF TypeOK, NothingBeforeInitialize
<1>3. (CredentialsInHand /\ CredentialsNotForgotten)'
    BY DEF TypeOK, CredentialsInHand, CredentialsNotForgotten
<1>4. LastOfAccessPoint'
    BY DEF TypeOK, LastOfAccessPoint, ApEvent
<1>5. Publishing'
    BY DEF TypeOK, Publishing
<1>6. FlagsAgree'
    BY DEF TypeOK, FlagsAgree
<1> QED BY <1>1, <1>2, <1>3, <1>4, <1>5, <1>6

(* The MQTT client is set up.                                              *)
LEMMA MqttInitializeInv ==
    ASSUME IInv, Mqtt!Initialize, UNCHANGED <<netOwn, cred, httpOwn>>
    PROVE  IInv'
<1> USE NetworkAssumption, PostsAssumption
      DEF IInv, Mqtt!Initialize, netOwn, httpOwn, task, wifi
<1>1. TypeOK'
    BY DEF TypeOK, Status, Event, NetLocation, Disconnected
<1>2. NothingBeforeInitialize'
    BY DEF TypeOK, NothingBeforeInitialize
<1>3. (CredentialsInHand /\ CredentialsNotForgotten)'
    BY DEF TypeOK, CredentialsInHand, CredentialsNotForgotten
<1>4. LastOfAccessPoint'
    BY DEF TypeOK, LastOfAccessPoint, ApEvent
<1>5. Publishing'
    BY DEF TypeOK, Publishing
<1>6. FlagsAgree'
    BY DEF TypeOK, FlagsAgree
<1> QED BY <1>1, <1>2, <1>3, <1>4, <1>5, <1>6

(* The MQTT task reads the status.                                         *)
LEMMA MqttReadStatusInv ==
    ASSUME IInv, Mqtt!ReadStatus, UNCHANGED <<netOwn, cred, httpOwn>>
    PROVE  IInv'
<1> USE NetworkAssumption, PostsAssumption
      DEF IInv, Mqtt!ReadStatus, netOwn, httpOwn, task, wifi
<1>1. TypeOK'
    BY DEF TypeOK, Status, Event, NetLocation, Disconnected, Mqtt!DecodedStatus, Mqtt!Disconnected
<1>2. NothingBeforeInitialize'
    BY DEF TypeOK, NothingBeforeInitialize
<1>3. (CredentialsInHand /\ CredentialsNotForgotten)'
    BY DEF TypeOK, CredentialsInHand, CredentialsNotForgotten
<1>4. LastOfAccessPoint'
    BY DEF TypeOK, LastOfAccessPoint, ApEvent
<1>5. Publishing'
    BY DEF TypeOK, Publishing
<1>6. FlagsAgree'
    BY DEF TypeOK, FlagsAgree
<1> QED BY <1>1, <1>2, <1>3, <1>4, <1>5, <1>6

(* The MQTT task publishes the status.                                     *)
LEMMA MqttPublishInv ==
    ASSUME IInv, Mqtt!Publish, UNCHANGED <<netOwn, cred, httpOwn>>
    PROVE  IInv'
<1> USE NetworkAssumption, PostsAssumption
      DEF IInv, Mqtt!Publish, netOwn, httpOwn, task, wifi
<1>1. TypeOK'
    BY DEF TypeOK, Status, Event, NetLocation, Disconnected
<1>2. NothingBeforeInitialize'
    BY DEF TypeOK, NothingBeforeInitialize
<1>3. (CredentialsInHand /\ CredentialsNotForgotten)'
    BY DEF TypeOK, CredentialsInHand, CredentialsNotForgotten
<1>4. LastOfAccessPoint'
    BY DEF TypeOK, LastOfAccessPoint, ApEvent
<1>5. Publishing'
    BY DEF TypeOK, Publishing
<1>6. FlagsAgree'
    BY DEF TypeOK, FlagsAgree
<1> QED BY <1>1, <1>2, <1>3, <1>4, <1>5, <1>6

(* The MQTT client is started or stopped, and its flags with it.           *)
LEMMA MqttDecideInv ==
    ASSUME IInv, Mqtt!Decide, UNCHANGED <<netOwn, cred, httpOwn>>
    PROVE  IInv'
<1> USE NetworkAssumption, PostsAssumption
      DEF IInv, Mqtt!Decide, Mqtt!Follow, Mqtt!Started, Mqtt!Starting, Mqtt!Stopping, netOwn, httpOwn, task, wifi
<1>1. TypeOK'
    BY DEF TypeOK, Status, Event, NetLocation, Disconnected
<1>2. NothingBeforeInitialize'
    BY DEF TypeOK, NothingBeforeInitialize
<1>3. (CredentialsInHand /\ CredentialsNotForgotten)'
    BY DEF TypeOK, CredentialsInHand, CredentialsNotForgotten
<1>4. LastOfAccessPoint'
    BY DEF TypeOK, LastOfAccessPoint, ApEvent
<1>5. Publishing'
    BY DEF TypeOK, Publishing
<1>6. FlagsAgree'
    BY DEF TypeOK, FlagsAgree, Mqtt!Up, Status
<1> QED BY <1>1, <1>2, <1>3, <1>4, <1>5, <1>6

(* The first state.                                                        *)
LEMMA InitInv == SystemInit => IInv
<1> SUFFICES ASSUME SystemInit PROVE IInv
    OBVIOUS
<1> USE NetworkAssumption, PostsAssumption
     DEF SystemInit, Init, Http!Init, Mqtt!Init, Http!Disconnected, Mqtt!Disconnected
<1>1. TypeOK
  <2>1. /\ connection \in Status
        /\ need_update \in BOOLEAN
        /\ net_pc \in NetLocation
        /\ draft \in BOOLEAN
        /\ handler \in {"idle", "recorded"}
        /\ link \in Status
        /\ trying \in BOOLEAN
        /\ overtaken \in BOOLEAN
    BY DEF Status, NetLocation, Disconnected
  <2>2. /\ {cred_proto, station} \subseteq Credential \cup {Empty}
        /\ cred \in [value : Credential \cup {NoData}, fresh : BOOLEAN]
        /\ info \in [value : Status \cup {NoData}, fresh : BOOLEAN]
    OBVIOUS
  <2>3. events \in Seq(Event) /\ posted \in 0 .. MaxEvents
    OBVIOUS
  <2>4. /\ http_pc \in {"read", "decide"}
        /\ {http_seen, mqtt_seen, mqtt_last} \subseteq Status
        /\ posts \in 0 .. MaxPosts
        /\ mqtt_pc \in {"initialize", "deleted", "read", "publish", "decide"}
    BY DEF Status
  <2>5. {server_status, client_status} \subseteq {"CONNECTED", "DISCONNECTED"}
    OBVIOUS
  <2>6. {server_up, mqtt_started} \subseteq BOOLEAN
    OBVIOUS
  <2>7. broker \in {NoData} \cup {Mqtt!Payload(status) : status \in Status}
    OBVIOUS
  <2> QED BY ONLY <2>1, <2>2, <2>3, <2>4, <2>5, <2>6, <2>7, Zenon DEF TypeOK
<1>2. NothingBeforeInitialize /\ CredentialsInHand /\ CredentialsNotForgotten
    BY DEF NothingBeforeInitialize, CredentialsInHand, CredentialsNotForgotten,
           DecodedCredential
<1>3. LastOfAccessPoint /\ Publishing
    BY DEF LastOfAccessPoint, Publishing, DecodedStatus
<1>4. FlagsAgree
    BY DEF FlagsAgree, Mqtt!Up
<1> QED BY <1>1, <1>2, <1>3, <1>4 DEF IInv

(* Every step of the three tasks, the handler, the server and the driver.  *)
LEMMA StepInv == IInv /\ [SystemNext]_allVars => IInv'
<1> SUFFICES ASSUME IInv, [SystemNext]_allVars PROVE IInv'
    OBVIOUS
<1>1. CASE NetworkStep
  <2>1. UNCHANGED <<httpOwn, mqttOwn>>
    BY <1>1 DEF NetworkStep
  <2>2. CASE Driver
    BY <2>1, <2>2, ClientJoinsInv, ClientLeavesInv, StationAssociatesInv,
       StationDropsInv DEF Driver
  <2>3. CASE Handler
    BY <2>1, <2>3, HandleEventInv, FlagUpdateInv DEF Handler
  <2>4. CASE Execute
    <3>1. CASE \/ ReadCredentials("boot_read", "boot_config")
               \/ ReadCredentials("read", "config")
      BY <2>1, <3>1, ReadCredentialsInv
    <3>2. CASE \/ ConfigureStation("boot_config", "boot_connect")
               \/ ConfigureStation("config", "connect")
      BY <2>1, <3>2, ConfigureStationInv
    <3>3. CASE Connect("boot_connect", "poll") \/ Connect("connect", "check")
      BY <2>1, <3>3, ConnectInv
    <3> QED BY <2>1, <2>4, <3>1, <3>2, <3>3, InitializeInv, InitializeFailsInv,
               PollCredentialsInv, CheckUpdateInv, EncodeAPInv, EncodeSTAInv,
               ResetUpdateInv, SleepInv DEF Execute
  <2> QED BY <1>1, <2>2, <2>3, <2>4 DEF NetworkStep, Next
<1>2. CASE HttpStep
    BY <1>2, HttpReadStatusInv, HttpDecideInv, PostCredentialsInv
       DEF HttpStep, Http!Next, Http!Execute
<1>3. CASE MqttStep
    BY <1>3, MqttInitializeInv, MqttReadStatusInv, MqttPublishInv, MqttDecideInv
       DEF MqttStep, Mqtt!Next
<1>4. CASE UNCHANGED allVars
  <2> USE <1>4 DEF IInv, allVars, netOwn, httpOwn, mqttOwn, task, wifi
  <2>1. TypeOK'
    BY DEF TypeOK
  <2>2. (NothingBeforeInitialize /\ CredentialsInHand /\ CredentialsNotForgotten)'
    BY DEF NothingBeforeInitialize, CredentialsInHand, CredentialsNotForgotten
  <2>3. (LastOfAccessPoint /\ Publishing /\ FlagsAgree)'
    BY DEF LastOfAccessPoint, Publishing, FlagsAgree
  <2> QED BY <2>1, <2>2, <2>3
<1> QED BY <1>1, <1>2, <1>3, <1>4 DEF SystemNext

(* The inductive invariant holds in every reachable state.                 *)
THEOREM Invariant == System => []IInv
<1> QED BY InitInv, StepInv, PTL DEF System

(* Every variable of the network side has its type.                        *)
THEOREM TypeCorrect == System => []TypeOK
<1>1. IInv => TypeOK
    BY DEF IInv
<1> QED BY <1>1, Invariant, PTL

(* Credentials a user posted are never forgotten, whatever the HTTP task   *)
(* and the network task do to the update flag of the area in between.      *)
THEOREM NothingForgotten == System => []CredentialsNotForgotten
<1>1. IInv => CredentialsNotForgotten
    BY DEF IInv
<1> QED BY <1>1, Invariant, PTL

(* Once the handler has caught up, its record of the access point is the   *)
(* state of that link.                                                     *)
THEOREM AccessPointCatchesUp == System => []AccessPointRecorded
<1>1. IInv => AccessPointRecorded
    BY DEF IInv, LastOfAccessPoint, AccessPointRecorded
<1> QED BY <1>1, Invariant, PTL

(* With nothing pending, the area holds the recorded status, unless the    *)
(* handler changed a field of it after the last Write had read that.       *)
THEOREM PublishedUpToTheRace == System => []PublishedUnlessOvertaken
<1>1. IInv => PublishedUnlessOvertaken
    BY DEF IInv, Publishing, Quiet, PublishedUnlessOvertaken
<1> QED BY <1>1, Invariant, PTL

(* The two flags of the MQTT client agree with the status it acted on.     *)
THEOREM ClientFlagsAgree == System => []ClientAgrees
<1>1. IInv => ClientAgrees
    BY DEF IInv, FlagsAgree, ClientAgrees
<1> QED BY <1>1, Invariant, PTL
-----------------------------------------------------------------------------
(* The two areas, seen as ones that AreaContents describes: messages of    *)
(* Bytes[v] bytes each, in an area of Room bytes.                          *)
Contents(Values, Bytes, Room) ==
    INSTANCE AreaContents
        WITH Value <- Values, Decodable <- Values, Size <- Bytes, AreaSize <- Room,
             BufferSize <- Room, Access <- "READ_WRITE", EmptyIsMessage <- FALSE,
             Zeroed <- NoData, Partial <- "partial"

Cell(Bytes, stored) ==
    [content |-> [body   |-> stored.value,
                  length |-> IF stored.value = NoData THEN 0 ELSE Bytes[stored.value] % 256],
     fresh   |-> stored.fresh]

ByOneCall(Values, Bytes, Room, stored, next) ==
    \E c \in Contents(Values, Bytes, Room)!Call :
        /\ Contents(Values, Bytes, Room)!Admitted(c)
        /\ Cell(Bytes, next) = Contents(Values, Bytes, Room)!Effect(c, Cell(Bytes, stored))

(* Every message fits into its area, and its size into the length's byte.  *)
Sized(Values, Bytes, Room) ==
    /\ Room \in Nat
    /\ \A v \in Values : Bytes[v] \in 0 .. 255 /\ Bytes[v] <= Room

(* A message that fits is stored whole.                                    *)
LEMMA WriteIsCall ==
    ASSUME NEW Values, NEW Bytes, NEW Room, Sized(Values, Bytes, Room), NoData \notin Values,
           NEW stored, NEW v \in Values
    PROVE  ByOneCall(Values, Bytes, Room, stored, [value |-> v, fresh |-> TRUE])
<1> DEFINE c == [op |-> "write", form |-> "message", value |-> v]
<1>1. c \in Contents(Values, Bytes, Room)!Call
    BY DEF Contents!Call, Contents!WriteCall
<1>2. Contents(Values, Bytes, Room)!Admitted(c)
    BY DEF Contents!Admitted, Contents!IsWrite
<1>3. ~Contents(Values, Bytes, Room)!EncodeFails(c)
    BY DEF Sized, Contents!EncodeFails
<1>4. Contents(Values, Bytes, Room)!Effect(c, Cell(Bytes, stored)) =
        [content |-> [body |-> v, length |-> Bytes[v] % 256], fresh |-> TRUE]
    BY <1>3 DEF Contents!Effect, Contents!IsWrite, Contents!Encoded, Contents!EncodedBody,
                Contents!EncodedLength, Contents!Wrap, Contents!ByteRange
<1>5. Cell(Bytes, [value |-> v, fresh |-> TRUE]) =
        [content |-> [body |-> v, length |-> Bytes[v] % 256], fresh |-> TRUE]
    BY DEF Cell
<1> QED BY <1>1, <1>2, <1>4, <1>5 DEF ByOneCall

(* A Read that is not silent keeps what is there.                          *)
LEMMA ReadIsCall ==
    ASSUME NEW Values, NEW Bytes, NEW Room, NEW stored, NEW next,
           next.value = stored.value, next.fresh = FALSE
    PROVE  ByOneCall(Values, Bytes, Room, stored, next)
<1> DEFINE c == [op |-> "read", form |-> "message", silent |-> FALSE]
<1>1. c \in Contents(Values, Bytes, Room)!Call
    BY DEF Contents!Call, Contents!ReadCall, Contents!Form
<1>2. Contents(Values, Bytes, Room)!Admitted(c)
    BY DEF Contents!Admitted, Contents!IsRead
<1>3. Cell(Bytes, next) = Contents(Values, Bytes, Room)!Effect(c, Cell(Bytes, stored))
    BY DEF Contents!Effect, Contents!IsWrite, Cell
<1> QED BY <1>1, <1>2, <1>3 DEF ByOneCall

(* What a step of the system makes of the two areas.                       *)
LEMMA StepMakesOneCall ==
    ASSUME IInv, SystemNext
    PROVE  /\ \/ cred' = cred
              \/ \E v \in Credential : cred' = [value |-> v, fresh |-> TRUE]
              \/ cred' = [cred EXCEPT !.fresh = FALSE]
           /\ \/ info' = info
              \/ \E v \in Status : info' = [value |-> v, fresh |-> TRUE]
              \/ info' = [info EXCEPT !.fresh = FALSE]
<1> USE DEF netOwn, httpOwn, mqttOwn, task, wifi, Goto
<1>1. CASE NetworkStep
  <2>1. CASE Driver \/ Handler
    BY <2>1 DEF Driver, ClientJoins, ClientLeaves, StationAssociates, StationDrops, Post,
                Handler, HandleEvent, FlagUpdate
  <2>2. CASE \/ ReadCredentials("boot_read", "boot_config")
             \/ ReadCredentials("read", "config")
    BY <2>2 DEF ReadCredentials
  <2>3. CASE EncodeSTA
    <3>1. [ap |-> draft, sta |-> connection.sta] \in Status
      BY DEF IInv, TypeOK, Status
    <3> QED BY <2>3, <3>1 DEF EncodeSTA
  <2>4. CASE \/ ConfigureStation("boot_config", "boot_connect")
             \/ ConfigureStation("config", "connect")
             \/ Connect("boot_connect", "poll") \/ Connect("connect", "check")
             \/ Initialize \/ InitializeFails \/ EncodeAP \/ ResetUpdate
             \/ PollCredentials \/ CheckUpdate \/ Sleep
    BY <2>4 DEF ConfigureStation, Connect, Initialize, InitializeFails, EncodeAP, ResetUpdate,
                PollCredentials, CheckUpdate, Sleep, Step
  <2> QED BY <1>1, <2>1, <2>2, <2>3, <2>4 DEF NetworkStep, Next, Execute
<1>2. CASE HttpStep
    BY <1>2 DEF HttpStep, Http!Next, Http!Execute, Http!ReadStatus, Http!Decide,
                Http!PostCredentials
<1>3. CASE MqttStep
    BY <1>3 DEF MqttStep, Mqtt!Next, Mqtt!Initialize, Mqtt!ReadStatus, Mqtt!Publish, Mqtt!Decide
<1> QED BY <1>1, <1>2, <1>3 DEF SystemNext

(* The two areas are registers: what changes one is the effect of one      *)
(* admitted call, of the kind SharedMemory carries out, for messages of    *)
(* any size that the areas and the length's byte have room for.            *)
THEOREM AreasAreRegisters ==
    ASSUME NEW CONSTANT Bytes, NEW CONSTANT CredRoom, NEW CONSTANT InfoRoom,
           Sized(Credential, Bytes, CredRoom), Sized(Status, Bytes, InfoRoom)
    PROVE  System =>
             [][/\ UNCHANGED cred \/ ByOneCall(Credential, Bytes, CredRoom, cred, cred')
                /\ UNCHANGED info \/ ByOneCall(Status, Bytes, InfoRoom, info, info')]_allVars
<1> DEFINE Changes ==
      /\ UNCHANGED cred \/ ByOneCall(Credential, Bytes, CredRoom, cred, cred')
      /\ UNCHANGED info \/ ByOneCall(Status, Bytes, InfoRoom, info, info')
<1>1. IInv /\ [SystemNext]_allVars => [Changes]_allVars
  <2> SUFFICES ASSUME IInv, SystemNext PROVE Changes
    OBVIOUS
  <2>1. NoData \notin Credential /\ NoData \notin Status
    BY NetworkAssumption DEF Status
  <2>2. ASSUME cred' = [cred EXCEPT !.fresh = FALSE]
        PROVE  ByOneCall(Credential, Bytes, CredRoom, cred, cred')
    <3>1. cred'.value = cred.value /\ cred'.fresh = FALSE
      BY <2>2 DEF IInv, TypeOK
    <3> QED BY ONLY <3>1, ReadIsCall, Zenon
  <2>3. ASSUME info' = [info EXCEPT !.fresh = FALSE]
        PROVE  ByOneCall(Status, Bytes, InfoRoom, info, info')
    <3>1. info'.value = info.value /\ info'.fresh = FALSE
      BY <2>3 DEF IInv, TypeOK
    <3> QED BY ONLY <3>1, ReadIsCall, Zenon
  <2>4. ASSUME NEW v \in Credential, cred' = [value |-> v, fresh |-> TRUE]
        PROVE  ByOneCall(Credential, Bytes, CredRoom, cred, cred')
    BY <2>1, <2>4, WriteIsCall, Zenon
  <2>5. ASSUME NEW v \in Status, info' = [value |-> v, fresh |-> TRUE]
        PROVE  ByOneCall(Status, Bytes, InfoRoom, info, info')
    BY <2>1, <2>5, WriteIsCall, Zenon
  <2> QED BY <2>2, <2>3, <2>4, <2>5, StepMakesOneCall, Zenon
<1> QED BY <1>1, Invariant, PTL DEF System
=============================================================================
