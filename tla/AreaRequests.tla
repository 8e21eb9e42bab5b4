---------------------------- MODULE AreaRequests ----------------------------
(***************************************************************************)
(* The two ways in and out of any area, by its number: requests to the     *)
(* HTTP server, which read an area or store the body they bring, and the   *)
(* MQTT client, which publishes one area after the other.  Both begin      *)
(* while main may still be signing up areas, and other tasks write areas   *)
(* between any two of their steps.                                         *)
(*                                                                         *)
(* An area holds the first `count` bytes `of` some value.  The areas are   *)
(* atomic registers (see SharedMemory), but for the length: the manager    *)
(* and Write look at it after the mutex was given.  GET and publishing     *)
(* read silently, so that update flags play no part here.                  *)
(***************************************************************************)
EXTENDS AreaTable

CONSTANTS
    Value,          \* bodies and messages
    Size,           \* their length in bytes
    TextSize,       \* the bytes before the first that is 0
    Keys,           \* the ids that requests ask for
    Posts,          \* what is posted: id, value
    Stores          \* what other tasks write: task, area, value

MAXIMUM_REQUEST_REPLY == 1024
PublishBytes == 512         \* response_buffer of PublishMemoryArea

(* A body as long as the buffer would leave no byte for the zero that ends *)
(* it.  The guard of the table lets id 32 pass, one too many: no area, but *)
(* no entry of the table either.  Neither is asked for here.               *)
ASSUME RequestsAssumption ==
    /\ Size \in [Value -> Nat]
    /\ \A v \in Value : TextSize[v] \in 0 .. Size[v]
    /\ \A v \in Value : Size[v] # MAXIMUM_REQUEST_REPLY
    /\ Keys \subseteq 0 .. 999
    /\ \A key \in Keys : key % 256 # TableSize
    /\ Posts \subseteq [key : Keys, value : Value]
    /\ Stores \subseteq [task : Process, area : Area, value : Value]
    /\ NoValue \notin Value

VARIABLES
    http_pc,        \* where the request is
    key,            \* what it asks for
    copy,           \* response_buffer, or what was posted
    reply,          \* what was sent in answer
    seen,           \* history: what the area held right after the manager's call
    mqtt_pc,        \* where PublishMemoryArea is
    mqtt_index,     \* the loop's i
    mqtt_copy,      \* its response_buffer
    broker          \* external: what was published last, by area

http == <<http_pc, key, copy, reply, seen>>
mqtt == <<mqtt_pc, mqtt_index, mqtt_copy, broker>>
vars == <<mem, boot, http, mqtt>>

Bytes(v, n) == [of |-> v, count |-> n]
Nothing == Bytes(NoValue, 0)
Nok == [answer |-> "NOK", bytes |-> Nothing]
Ok(bytes) == [answer |-> "OK", bytes |-> bytes]
Refused == [answer |-> "400", bytes |-> Nothing]

Init ==
    /\ TableInit
    /\ http_pc = "idle"
    /\ key = 0
    /\ copy = Nothing
    /\ reply = Refused
    /\ seen = Nothing
    /\ mqtt_pc = "sleep"
    /\ mqtt_index = 1
    /\ mqtt_copy = Nothing
    /\ broker = [a \in Area |-> Nothing]

-----------------------------------------------------------------------------
(* The manager.                                                            *)

Reachable(index) == index <= TableSize /\ index \in DOMAIN mem

Content(bytes) == [of |-> bytes.of, count |-> bytes.count, length |-> bytes.count % 256]

Write(index, bytes) == mem' = [mem EXCEPT ![index] = Content(bytes)]

Fits(index, bytes) == Reachable(index) /\ bytes.count <= AreaSize[index]

(* What memcpy_s copies under the mutex; no bytes are an error to it.      *)
Readable(index, buffer_size) ==
    Reachable(index) /\ AreaSize[index] <= buffer_size /\ mem[index].length > 0

Copied(index) == Bytes(mem[index].of, mem[index].length)

-----------------------------------------------------------------------------
(* The HTTP server: one request at a time.                                 *)

(* GetRequestKey has the id as a number of 16 bits, the manager takes 8.   *)
Index(id) == id % 256

Answer(answered) ==
    /\ http_pc' = "idle"
    /\ reply' = answered
    /\ key' = 0
    /\ copy' = Nothing
    /\ seen' = Nothing

Begin(next_pc, id, bytes) ==
    /\ http_pc' = next_pc
    /\ key' = id
    /\ copy' = bytes
    /\ reply' = Refused
    /\ seen' = Copied(Index(id))'

Get(id) ==
    /\ "http" \in running
    /\ http_pc = "idle"
    /\ UNCHANGED <<mem, boot, mqtt>>
    /\ IF Readable(Index(id), MAXIMUM_REQUEST_REPLY)
       THEN Begin("get", id, Copied(Index(id)))
       ELSE Answer(Nok)

(* Mutant: a byte more, for the zero that ends a text.                     *)
GetLengthAndZero ==
    /\ http_pc = "get"
    /\ Answer(Ok(Bytes(copy.of, mem[Index(key)].length + 1)))
    /\ UNCHANGED <<mem, boot, mqtt>>

(* The length by now; beyond what was copied, response_buffer still holds  *)
(* what an earlier request left there.  After the bytes the server sends   *)
(* "OK", as it does after a POST; the reply here is both.                  *)
GetLength ==
    /\ http_pc = "get"
    /\ LET length == mem[Index(key)].length IN
        Answer(IF length > 0 THEN Ok(Bytes(copy.of, length)) ELSE Nok)
    /\ UNCHANGED <<mem, boot, mqtt>>

(* GetRequestKey refuses an id that is missing or has more than 3 digits,  *)
(* GetRequestData a body that is too long or does not come in whole.       *)
RequestRefused ==
    /\ "http" \in running
    /\ http_pc = "idle"
    /\ Answer(Refused)
    /\ UNCHANGED <<mem, boot, mqtt>>

(* Mutant: the size is looked at after the Write.                          *)
PostUnsized(id, value) ==
    /\ "http" \in running
    /\ http_pc = "idle"
    /\ Size[value] <= MAXIMUM_REQUEST_REPLY
    /\ LET body == Bytes(value, TextSize[value]) IN
        IF Reachable(Index(id))
        THEN /\ Write(Index(id), body)
             /\ IF Fits(Index(id), body) THEN Begin("post", id, body) ELSE Answer(Nok)
        ELSE Answer(Nok) /\ UNCHANGED mem
    /\ UNCHANGED <<boot, mqtt>>

(* The body is taken for text: it ends at its first zero.                  *)
Post(id, value) ==
    /\ "http" \in running
    /\ http_pc = "idle"
    /\ Size[value] <= MAXIMUM_REQUEST_REPLY
    /\ LET body == Bytes(value, TextSize[value]) IN
        IF Fits(Index(id), body)
        THEN Write(Index(id), body) /\ Begin("post", id, body)
        ELSE Answer(Nok) /\ UNCHANGED mem
    /\ UNCHANGED <<boot, mqtt>>

(* Mutant: a Write that was tried is a Write that worked.                  *)
PostAnswerAlways ==
    /\ http_pc = "post"
    /\ Answer(Ok(Nothing))
    /\ UNCHANGED <<mem, boot, mqtt>>

(* Write's last line, outside the mutex.                                   *)
PostAnswer ==
    /\ http_pc = "post"
    /\ Answer(IF mem[Index(key)].length > 0 THEN Ok(Nothing) ELSE Nok)
    /\ UNCHANGED <<mem, boot, mqtt>>

Http ==
    \/ \E id \in Keys : Get(id)
    \/ GetLength
    \/ RequestRefused
    \/ \E post \in Posts : Post(post.key, post.value)
    \/ PostAnswer

-----------------------------------------------------------------------------
(* The MQTT client, as long as it is connected.                            *)

StartRound ==
    /\ "mqtt" \in running
    /\ mqtt_pc = "sleep"
    /\ mqtt_pc' = "loop"
    /\ mqtt_index' = 1
    /\ UNCHANGED <<mem, boot, http, mqtt_copy, broker>>

InLoop == mqtt_pc = "loop" /\ mqtt_index < num_areas

PublishRead ==
    /\ InLoop
    /\ Readable(mqtt_index, PublishBytes)
    /\ mqtt_pc' = "publish"
    /\ mqtt_copy' = Copied(mqtt_index)
    /\ UNCHANGED <<mem, boot, http, mqtt_index, broker>>

PublishNothing ==
    /\ InLoop
    /\ ~Readable(mqtt_index, PublishBytes)
    /\ mqtt_index' = mqtt_index + 1
    /\ UNCHANGED <<mem, boot, http, mqtt_pc, mqtt_copy, broker>>

(* The client library is given length 0 and takes the copy for text; what  *)
(* follows it in response_buffer is 0.                                     *)
AsText(bytes) ==
    Bytes(bytes.of, IF bytes.count < TextSize[bytes.of] THEN bytes.count
                                                       ELSE TextSize[bytes.of])

(* Mutant: an area is published once.                                      *)
PublishOnce ==
    /\ mqtt_pc = "publish"
    /\ broker' = IF mem[mqtt_index].length > 0 /\ broker[mqtt_index] = Nothing
                 THEN [broker EXCEPT ![mqtt_index] = AsText(mqtt_copy)]
                 ELSE broker
    /\ mqtt_pc' = "loop"
    /\ mqtt_index' = mqtt_index + 1
    /\ mqtt_copy' = Nothing
    /\ UNCHANGED <<mem, boot, http>>

(* The area is skipped if it has no bytes by now.                          *)
Publish ==
    /\ mqtt_pc = "publish"
    /\ broker' = IF mem[mqtt_index].length > 0
                 THEN [broker EXCEPT ![mqtt_index] = AsText(mqtt_copy)]
                 ELSE broker
    /\ mqtt_pc' = "loop"
    /\ mqtt_index' = mqtt_index + 1
    /\ mqtt_copy' = Nothing
    /\ UNCHANGED <<mem, boot, http>>

EndRound ==
    /\ mqtt_pc = "loop"
    /\ mqtt_index >= num_areas
    /\ mqtt_pc' = "sleep"
    /\ UNCHANGED <<mem, boot, http, mqtt_index, mqtt_copy, broker>>

Mqtt == StartRound \/ PublishRead \/ PublishNothing \/ Publish \/ EndRound

-----------------------------------------------------------------------------
(* The network task writes the status, the communication tasks what they   *)
(* receive.                                                                *)
Store(task, area, value) ==
    /\ task \in running
    /\ Fits(area, Bytes(value, Size[value]))
    /\ Write(area, Bytes(value, Size[value]))
    /\ UNCHANGED <<boot, http, mqtt>>

Next ==
    \/ Main /\ UNCHANGED <<http, mqtt>>
    \/ Http
    \/ Mqtt
    \/ \E store \in Stores : Store(store.task, store.area, store.value)

Spec == Init /\ [][Next]_vars

(* main and the MQTT task go on; requests come as they like.               *)
Fairness == WF_vars(Main /\ UNCHANGED <<http, mqtt>>) /\ WF_vars(Mqtt)

FairSpec == Spec /\ Fairness

-----------------------------------------------------------------------------
Held == {Nothing} \cup [of : Value, count : Nat]

TypeOK ==
    /\ TableTypeOK
    /\ \A a \in DOMAIN mem :
        /\ mem[a].count <= AreaSize[a]
        /\ Bytes(mem[a].of, mem[a].count) \in Held
        /\ mem[a].length \in 0 .. 255
    /\ http_pc \in {"idle", "get", "post"}
    /\ key \in Keys \cup {0}
    /\ {copy, seen, mqtt_copy, reply.bytes} \subseteq Held
    /\ reply.answer \in {"OK", "NOK", "400"}
    /\ mqtt_pc \in {"sleep", "loop", "publish"}
    /\ mqtt_index \in 1 .. TableSize
    /\ broker \in [Area -> Held]

(* The answer to a GET is what the area held when it was copied, bytes and *)
(* number; or, at worst, as many of those bytes as the area holds by now,  *)
(* another number only if another task has written it in between.          *)
AnswerIsHeld ==
    [][http_pc = "get" /\ http_pc' = "idle" =>
        \E count \in {seen.count, Copied(Index(key)).count} :
            reply' = IF count > 0 THEN Ok(Bytes(seen.of, count)) ELSE Nok]_vars

(* A POST that is answered at once has changed no area.  Any other is in   *)
(* the area as far as it is text, with a length of 8 bits; the answer      *)
(* tells whether that can be read, or, at worst, whether what the area     *)
(* holds by now can, which another task may have written in between.       *)
PostAnswered ==
    /\ [][http_pc = "idle" /\ http_pc' = "idle" /\ http' # http => mem' = mem]_vars
    /\ [][http_pc = "post" /\ http_pc' = "idle" =>
            /\ seen = Bytes(copy.of, copy.count % 256)
            /\ \E bytes \in {seen, Copied(Index(key))} :
                    reply' = IF bytes.count > 0 THEN Ok(Nothing) ELSE Nok]_vars

(* Once the areas stop changing, the broker has all of those below the     *)
(* last, as text; the loop does not come to the last.                      *)
Published == \A a \in DOMAIN mem :
    a < num_areas /\ Readable(a, PublishBytes) => broker[a] = AsText(Copied(a))

BrokerReceives ==
    <>[][mem' = mem]_vars => <>[](Published \/ "mqtt" \notin running)
=============================================================================
