-------------------------- MODULE AreaRequests_proofs --------------------------
(***************************************************************************)
(* The safety of AreaRequests for every set of areas, processes, requests  *)
(* and messages, while main is still signing up areas and other tasks      *)
(* write them: what the answers to a GET and to a POST say of the area.    *)
(***************************************************************************)
EXTENDS AreaRequests, AreaTable_proofs

(* An area was never written, or holds a value; its length is the count's  *)
(* low byte.                                                               *)
ContentsHeld ==
    \A a \in DOMAIN mem :
        /\ mem[a].length = mem[a].count % 256
        /\ mem[a].of = NoValue => mem[a].count = 0

(* Between the manager's call and the look at the length, the area asked   *)
(* for stays; response_buffer is what it held, or it was left with as much *)
(* of the body as 8 bits of length can tell.                               *)
Requesting ==
    /\ http_pc # "idle" => key \in Keys /\ Index(key) \in DOMAIN mem
    /\ http_pc = "get" => copy = seen /\ seen.of \in Value /\ seen.count > 0
    /\ http_pc = "post" => seen = Bytes(copy.of, copy.count % 256)

(* The loop of PublishMemoryArea stays below the number of areas.          *)
Publishing ==
    mqtt_pc = "publish" =>
        /\ mqtt_index \in DOMAIN mem
        /\ mqtt_index < num_areas
        /\ mqtt_copy.of \in Value

IInv ==
    /\ TypeOK
    /\ TableInv
    /\ ContentsHeld
    /\ Requesting
    /\ Publishing

-----------------------------------------------------------------------------
(* What the table promises is about which areas there are, not about what  *)
(* they hold.                                                              *)
LEMMA TableKept ==
    ASSUME TableInv, DOMAIN mem' = DOMAIN mem, UNCHANGED boot
    PROVE  TableInv'
<1> USE DEF TableInv, boot
<1>1. TableTypeOK' /\ InStep'
    BY DEF TableTypeOK, InStep, Reached, Available
<1>2. TableFollowsMain'
    BY DEF TableFollowsMain, Passed, Reached, Available
<1>3. Counted' /\ TasksBehindMain'
    BY DEF Counted, TasksBehindMain, Available
<1> QED BY <1>1, <1>2, <1>3

(* main adds areas that hold nothing, and touches no other.                *)
LEMMA MainKeepsAreas ==
    ASSUME TableInv, Main
    PROVE  /\ DOMAIN mem \subseteq DOMAIN mem' /\ DOMAIN mem' \subseteq Area
           /\ \A a \in DOMAIN mem : mem'[a] = mem[a]
           /\ \A a \in DOMAIN mem' : a \notin DOMAIN mem => mem'[a] = Blank
           /\ num_areas' >= num_areas
<1>1. num_areas \in Nat
    BY TableNumbers DEF TableInv
<1>2. DOMAIN mem \subseteq Area
    BY DEF TableInv, TableTypeOK
<1>3. CASE \E p \in Process : SignUpSharedArea(p)
  <2>1. PICK p \in Process : SignUpSharedArea(p)
    BY <1>3
  <2>2. num_areas' = num_areas
    BY <2>1 DEF SignUpSharedArea
  <2> DEFINE area == SignsUp[p][signed + 1]
  <2>3. /\ area \in Area /\ DOMAIN mem' = DOMAIN mem \cup {area}
        /\ \A a \in DOMAIN mem : mem'[a] = mem[a]
        /\ mem'[area] = Blank
    BY <2>1, SignUpAddsArea
  <2> HIDE DEF area
  <2> QED BY <1>1, <1>2, <2>2, <2>3
<1>4. CASE \E p \in Process : InitializeProcess(p) \/ Skip(p)
    BY <1>1, <1>2, <1>4 DEF InitializeProcess, Skip
<1>5. CASE CountArea
    BY <1>1, <1>2, <1>5 DEF CountArea
<1> QED BY <1>3, <1>4, <1>5 DEF Main

(* A Read that copies bytes copies those of a value.                       *)
LEMMA CopiedHeld ==
    ASSUME TypeOK, ContentsHeld, NEW a \in DOMAIN mem, mem[a].length > 0
    PROVE  /\ Copied(a) \in Held
           /\ Copied(a).of \in Value
           /\ Copied(a).count = mem[a].length
<1> USE RequestsAssumption
<1>1. /\ Bytes(mem[a].of, mem[a].count) \in Held
      /\ mem[a].length \in 0 .. 255
    BY DEF TypeOK
<1>2. mem[a].of # NoValue
  <2>1. mem[a].of = NoValue => mem[a].length = 0 % 256
    BY DEF ContentsHeld
  <2> QED BY <1>1, <2>1
<1>3. mem[a].of \in Value
    BY <1>1, <1>2 DEF Held, Bytes, Nothing
<1> QED BY <1>1, <1>3 DEF Held, Copied, Bytes

(* What a call of Write leaves in an area that it fits in.                 *)
LEMMA WriteHeld ==
    ASSUME IInv, NEW a, NEW bytes \in [of : Value, count : Nat],
           Fits(a, bytes), Write(a, bytes), UNCHANGED boot
    PROVE  /\ TableInv'
           /\ ContentsHeld'
           /\ DOMAIN mem' = DOMAIN mem
           /\ a \in DOMAIN mem
           /\ \A x \in DOMAIN mem : mem'[x] = IF x = a THEN Content(bytes) ELSE mem[x]
           /\ \A x \in DOMAIN mem :
                 /\ mem'[x].count <= AreaSize[x]
                 /\ Bytes(mem'[x].of, mem'[x].count) \in Held
                 /\ mem'[x].length \in 0 .. 255
<1> USE RequestsAssumption DEF IInv
<1>1. DOMAIN mem' = DOMAIN mem /\ a \in DOMAIN mem /\ bytes.count <= AreaSize[a]
    BY DEF Write, Fits, Reachable
<1>2. \A x \in DOMAIN mem : mem'[x] = IF x = a THEN Content(bytes) ELSE mem[x]
    BY <1>1 DEF Write
<1>3. TableInv'
    BY <1>1, TableKept
<1>4. ASSUME NEW x \in DOMAIN mem
      PROVE  /\ mem'[x].count <= AreaSize[x]
             /\ Bytes(mem'[x].of, mem'[x].count) \in Held
             /\ mem'[x].length \in 0 .. 255
  <2>1. CASE x = a
    <3>1. mem'[x] = Content(bytes) /\ bytes.count \in Nat
      BY <1>2, <2>1
    <3>2. bytes.count % 256 \in 0 .. 255
      <4>1. \A n \in Nat : n % 256 \in 0 .. 255
        OBVIOUS
      <4> QED BY <3>1, <4>1
    <3> QED BY <1>1, <2>1, <3>1, <3>2 DEF Content, Bytes, Held
  <2>2. CASE x # a
    BY <1>2, <2>2 DEF TypeOK
  <2> QED BY <2>1, <2>2
<1>5. ContentsHeld'
    BY <1>1, <1>2 DEF ContentsHeld, Content
<1> QED BY <1>1, <1>2, <1>3, <1>4, <1>5

(* A request is answered: it holds no area any more.                       *)
LEMMA AnswerInv ==
    ASSUME IInv, NEW answered \in [answer : {"OK", "NOK", "400"}, bytes : Held],
           Answer(answered), UNCHANGED <<mem, boot, mqtt>>
    PROVE  IInv'
<1> USE RequestsAssumption DEF IInv, Answer, boot, mqtt
<1>1. TableInv'
    BY TableKept
<1>2. TypeOK'
  <2>1. /\ TableTypeOK'
        /\ \A a \in DOMAIN mem' :
             /\ mem'[a].count <= AreaSize[a]
             /\ Bytes(mem'[a].of, mem'[a].count) \in Held
             /\ mem'[a].length \in 0 .. 255
    BY <1>1 DEF TypeOK, TableInv
  <2>2. {copy', seen', mqtt_copy', reply'.bytes} \subseteq Held
    BY DEF TypeOK, Held
  <2>3. reply'.answer \in {"OK", "NOK", "400"}
    OBVIOUS
  <2>4. /\ http_pc' \in {"idle", "get", "post"}
        /\ key' \in Keys \cup {0}
        /\ mqtt_pc' \in {"sleep", "loop", "publish"}
        /\ mqtt_index' \in 1 .. TableSize
        /\ broker' \in [Area -> Held]
    BY DEF TypeOK
  <2> QED BY <2>1, <2>2, <2>3, <2>4 DEF TypeOK
<1>3. ContentsHeld' /\ Requesting' /\ Publishing'
    BY DEF ContentsHeld, Requesting, Publishing
<1> QED BY <1>1, <1>2, <1>3

(* The answers without bytes.                                              *)
LEMMA ShortAnswers ==
    {Nok, Refused, Ok(Nothing)} \subseteq [answer : {"OK", "NOK", "400"}, bytes : Held]
<1> QED BY DEF Nok, Refused, Ok, Held

(* A GET copies the area, or is answered at once.                          *)
LEMMA GetInv ==
    ASSUME NEW id \in Keys,
           IInv, Get(id)
    PROVE  IInv'
<1>1. CASE Answer(Nok)
    BY <1>1, AnswerInv, ShortAnswers DEF Get
<1>2. CASE /\ Readable(Index(id), MAXIMUM_REQUEST_REPLY)
           /\ Begin("get", id, Copied(Index(id)))
  <2> USE <1>2, RequestsAssumption DEF IInv, Get, Begin, boot, mqtt
  <2>1. /\ Index(id) \in DOMAIN mem
        /\ Copied(Index(id)) \in Held
        /\ Copied(Index(id)).of \in Value
        /\ Copied(Index(id)).count > 0
        /\ seen' = Copied(Index(id))
    BY CopiedHeld DEF Readable, Reachable, Copied
  <2>2. TableInv'
    BY TableKept
  <2>3. TypeOK'
    <3>1. {copy', seen', mqtt_copy', reply'.bytes} \subseteq Held
      BY <2>1 DEF TypeOK, Held, Refused
    <3>2. reply'.answer \in {"OK", "NOK", "400"}
      BY DEF Refused
    <3>3. /\ http_pc' \in {"idle", "get", "post"}
          /\ key' \in Keys \cup {0}
      OBVIOUS
    <3>4. /\ mqtt_pc' \in {"sleep", "loop", "publish"}
          /\ mqtt_index' \in 1 .. TableSize
          /\ broker' \in [Area -> Held]
      BY DEF TypeOK
    <3>5. \A a \in DOMAIN mem' :
            /\ mem'[a].count <= AreaSize[a]
            /\ Bytes(mem'[a].of, mem'[a].count) \in Held
            /\ mem'[a].length \in 0 .. 255
      BY DEF TypeOK
    <3> QED BY <2>2, <3>1, <3>2, <3>3, <3>4, <3>5 DEF TypeOK, TableInv
  <2>4. ContentsHeld' /\ Publishing'
    BY DEF ContentsHeld, Publishing
  <2>5. Requesting'
    BY <2>1 DEF Requesting
  <2> QED BY <2>2, <2>3, <2>4, <2>5
<1> QED BY <1>1, <1>2 DEF Get

(* The length is looked at, and the request answered.                      *)
LEMMA GetLengthInv ==
    ASSUME IInv, GetLength
    PROVE  IInv'
<1> DEFINE length == mem[Index(key)].length
<1>1. http_pc = "get" /\ UNCHANGED <<mem, boot, mqtt>>
    BY DEF GetLength
<1>2. CASE Answer(Nok)
    BY <1>1, <1>2, AnswerInv, ShortAnswers
<1>3. CASE Answer(Ok(Bytes(copy.of, length)))
  <2>1. copy.of \in Value /\ length \in Nat
    BY <1>1 DEF IInv, TypeOK, Requesting
  <2>2. Ok(Bytes(copy.of, length)) \in [answer : {"OK", "NOK", "400"}, bytes : Held]
    BY <2>1 DEF Ok, Bytes, Held
  <2> QED BY <1>1, <1>3, <2>2, AnswerInv
<1> QED BY <1>2, <1>3 DEF GetLength

(* A request is refused.                                                   *)
LEMMA RequestRefusedInv ==
    ASSUME IInv, RequestRefused
    PROVE  IInv'
<1> QED BY AnswerInv, ShortAnswers DEF RequestRefused

(* A body is stored, or the request is answered at once.                   *)
LEMMA PostInv ==
    ASSUME NEW post \in Posts,
           IInv, Post(post.key, post.value)
    PROVE  IInv'
<1> DEFINE id == post.key
           body == Bytes(post.value, TextSize[post.value])
<1>1. /\ UNCHANGED <<boot, mqtt>>
      /\ \/ Answer(Nok) /\ UNCHANGED mem
         \/ Fits(Index(id), body) /\ Write(Index(id), body) /\ Begin("post", id, body)
    BY DEF Post
<1>2. CASE Answer(Nok) /\ UNCHANGED mem
    BY <1>1, <1>2, AnswerInv, ShortAnswers
<1>3. CASE Fits(Index(id), body) /\ Write(Index(id), body) /\ Begin("post", id, body)
  <2>1. id \in Keys /\ body \in [of : Value, count : Nat]
    BY RequestsAssumption DEF Bytes
  <2> HIDE DEF id, body
  <2>2. /\ TableInv' /\ ContentsHeld'
        /\ DOMAIN mem' = DOMAIN mem /\ Index(id) \in DOMAIN mem
        /\ mem'[Index(id)] = Content(body)
        /\ \A a \in DOMAIN mem :
             /\ mem'[a].count <= AreaSize[a]
             /\ Bytes(mem'[a].of, mem'[a].count) \in Held
             /\ mem'[a].length \in 0 .. 255
    BY <1>1, <1>3, <2>1, WriteHeld
  <2>3. seen' = Bytes(body.of, body.count % 256) /\ seen' \in Held
    <3>1. seen' = Bytes(mem'[Index(id)].of, mem'[Index(id)].length)
      BY ONLY <1>3, Zenon DEF Begin, Copied
    <3>2. mem'[Index(id)].of = body.of /\ mem'[Index(id)].length = body.count % 256
      BY ONLY <2>2 DEF Content
    <3>3. body.of \in Value /\ body.count % 256 \in Nat
      BY ONLY <2>1
    <3> QED BY ONLY <3>1, <3>2, <3>3 DEF Held, Bytes
  <2> USE <1>1, <1>3 DEF IInv, Begin, boot, mqtt
  <2>4. TypeOK'
    <3>1. {copy', seen', mqtt_copy', reply'.bytes} \subseteq Held
      BY <2>1, <2>3 DEF TypeOK, Held, Refused
    <3>2. reply'.answer \in {"OK", "NOK", "400"}
      BY DEF Refused
    <3> QED BY <2>1, <2>2, <3>1, <3>2 DEF TypeOK, TableInv
  <2>5. Requesting'
    BY <2>1, <2>2, <2>3 DEF Requesting
  <2>6. Publishing'
    BY <2>2 DEF Publishing
  <2> QED BY <2>2, <2>4, <2>5, <2>6
<1> QED BY <1>1, <1>2, <1>3

(* The length is looked at, and the POST answered.                         *)
LEMMA PostAnswerInv ==
    ASSUME IInv, PostAnswer
    PROVE  IInv'
<1> QED BY AnswerInv, ShortAnswers DEF PostAnswer

(* A round of PublishMemoryArea begins.                                    *)
LEMMA StartRoundInv ==
    ASSUME IInv, StartRound
    PROVE  IInv'
<1> USE RequestsAssumption DEF IInv, StartRound, boot, http, mqtt
<1>1. TableInv'
    BY TableKept
<1>2. TypeOK'
    BY <1>1 DEF TypeOK, TableInv, TableSize
<1>3. ContentsHeld'
    BY DEF ContentsHeld
<1>4. Requesting'
    BY DEF Requesting
<1>5. Publishing'
    BY DEF Publishing
<1> QED BY <1>1, <1>2, <1>3, <1>4, <1>5

(* An area is copied.                                                      *)
LEMMA PublishReadInv ==
    ASSUME IInv, PublishRead
    PROVE  IInv'
<1> USE RequestsAssumption DEF IInv, PublishRead, InLoop, boot, http, mqtt
<1>0. /\ mqtt_index \in DOMAIN mem
      /\ Copied(mqtt_index) \in Held
      /\ Copied(mqtt_index).of \in Value
    BY CopiedHeld DEF Readable, Reachable
<1>1. TableInv'
    BY TableKept
<1>2. TypeOK'
    BY <1>0, <1>1 DEF TypeOK, TableInv
<1>3. ContentsHeld'
    BY DEF ContentsHeld
<1>4. Requesting'
    BY DEF Requesting
<1>5. Publishing'
    BY <1>0 DEF Publishing
<1> QED BY <1>1, <1>2, <1>3, <1>4, <1>5

(* An area is passed over.                                                 *)
LEMMA PublishNothingInv ==
    ASSUME IInv, PublishNothing
    PROVE  IInv'
<1> USE RequestsAssumption DEF IInv, PublishNothing, InLoop, boot, http, mqtt
<1>1. TableInv'
    BY TableKept
<1>2. TypeOK'
    BY <1>1 DEF TypeOK, TableInv, TableTypeOK, TableSize
<1>3. ContentsHeld'
    BY DEF ContentsHeld
<1>4. Requesting'
    BY DEF Requesting
<1>5. Publishing'
    BY DEF Publishing
<1> QED BY <1>1, <1>2, <1>3, <1>4, <1>5

(* What was copied is published, if the area has bytes by now.             *)
LEMMA PublishInv ==
    ASSUME IInv, Publish
    PROVE  IInv'
<1> USE RequestsAssumption DEF IInv, Publish, boot, http, mqtt
<1>0. AsText(mqtt_copy) \in Held
  <2>1. mqtt_copy.of \in Value /\ mqtt_copy \in Held
    BY DEF Publishing, TypeOK
  <2>2. mqtt_copy.count \in Nat
    BY <2>1 DEF Held, Nothing, Bytes
  <2>3. TextSize[mqtt_copy.of] \in Nat
    BY <2>1
  <2> QED BY <2>1, <2>2, <2>3 DEF AsText, Bytes, Held
<1>1. TableInv'
    BY TableKept
<1>2. TypeOK'
  <2>1. mqtt_index' \in 1 .. TableSize
    <3>1. /\ mqtt_index \in 1 .. TableSize /\ mqtt_index < num_areas
          /\ num_areas \in 0 .. TableSize
      BY DEF TypeOK, TableTypeOK, Publishing
    <3>2. mqtt_index' = mqtt_index + 1
      OBVIOUS
    <3> QED BY ONLY <3>1, <3>2 DEF TableSize
  <2>2. broker' \in [Area -> Held]
    <3>1. broker \in [Area -> Held]
      BY DEF TypeOK
    <3>2. broker' = [broker EXCEPT ![mqtt_index] = AsText(mqtt_copy)] \/ broker' = broker
      OBVIOUS
    <3> QED BY ONLY <1>0, <3>1, <3>2
  <2>3. {copy', seen', mqtt_copy', reply'.bytes} \subseteq Held
    BY DEF TypeOK, Held
  <2> QED BY <1>1, <2>1, <2>2, <2>3 DEF TypeOK, TableInv
<1>3. ContentsHeld'
    BY DEF ContentsHeld
<1>4. Requesting'
    BY DEF Requesting
<1>5. Publishing'
    BY DEF Publishing
<1> QED BY <1>1, <1>2, <1>3, <1>4, <1>5

(* The round ends.                                                         *)
LEMMA EndRoundInv ==
    ASSUME IInv, EndRound
    PROVE  IInv'
<1> USE RequestsAssumption DEF IInv, EndRound, boot, http, mqtt
<1>1. TableInv'
    BY TableKept
<1>2. TypeOK'
  <2>1. TableTypeOK'
    BY <1>1, Zenon DEF TableInv
  <2>2. mqtt_index' \in 1 .. TableSize /\ mqtt_pc' \in {"sleep", "loop", "publish"}
    BY DEF TypeOK, TableSize
  <2>3. {copy', seen', mqtt_copy', reply'.bytes} \subseteq Held
    BY DEF TypeOK
  <2> QED BY <2>1, <2>2, <2>3 DEF TypeOK
<1>3. ContentsHeld'
    BY DEF ContentsHeld
<1>4. Requesting'
    BY DEF Requesting
<1>5. Publishing'
    BY DEF Publishing
<1> QED BY <1>1, <1>2, <1>3, <1>4, <1>5

(* Another task writes an area.                                            *)
LEMMA StoreInv ==
    ASSUME NEW store \in Stores,
           IInv, Store(store.task, store.area, store.value)
    PROVE  IInv'
<1> DEFINE bytes == Bytes(store.value, Size[store.value])
           area == store.area
<1>1. /\ Fits(area, bytes) /\ Write(area, bytes)
      /\ UNCHANGED <<boot, http, mqtt>>
    BY DEF Store
<1>2. bytes \in [of : Value, count : Nat]
    BY RequestsAssumption DEF Bytes
<1> HIDE DEF bytes, area
<1>3. /\ TableInv' /\ ContentsHeld'
      /\ DOMAIN mem' = DOMAIN mem
      /\ \A a \in DOMAIN mem :
           /\ mem'[a].count <= AreaSize[a]
           /\ Bytes(mem'[a].of, mem'[a].count) \in Held
           /\ mem'[a].length \in 0 .. 255
    BY <1>1, <1>2, WriteHeld
<1> USE <1>1 DEF IInv, boot, http, mqtt
<1>4. TypeOK'
    BY <1>3 DEF TypeOK, TableInv
<1>5. Requesting'
    BY <1>3 DEF Requesting
<1>6. Publishing'
    BY <1>3 DEF Publishing
<1> QED BY <1>3, <1>4, <1>5, <1>6

(* main goes on meanwhile: the areas there are stay as they are.           *)
LEMMA MainKeepsInv ==
    ASSUME IInv, Main, UNCHANGED <<http, mqtt>>
    PROVE  IInv'
<1>1. TableInv'
    BY MainInv DEF IInv
<1>2. /\ DOMAIN mem \subseteq DOMAIN mem' /\ DOMAIN mem' \subseteq Area
      /\ \A a \in DOMAIN mem : mem'[a] = mem[a]
      /\ \A a \in DOMAIN mem' : a \notin DOMAIN mem => mem'[a] = Blank
      /\ num_areas' >= num_areas /\ num_areas \in Nat /\ num_areas' \in Nat
    BY <1>1, MainKeepsAreas, TableNumbers DEF IInv, TableInv, TableTypeOK, TableSize
<1> USE RequestsAssumption, TableAssumption DEF IInv, http, mqtt
<1>3. TypeOK'
  <2>1. ASSUME NEW a \in DOMAIN mem'
        PROVE  /\ mem'[a].count <= AreaSize[a]
               /\ Bytes(mem'[a].of, mem'[a].count) \in Held
               /\ mem'[a].length \in 0 .. 255
    <3>1. CASE a \in DOMAIN mem
      <4>1. mem'[a] = mem[a]
        BY <1>2, <3>1
      <4>2. TypeOK
        OBVIOUS
      <4>3. /\ mem[a].count <= AreaSize[a]
            /\ Bytes(mem[a].of, mem[a].count) \in Held
            /\ mem[a].length \in 0 .. 255
        BY ONLY <3>1, <4>2 DEF TypeOK
      <4> QED BY ONLY <4>1, <4>3
    <3>2. CASE a \notin DOMAIN mem
      <4>1. AreaSize[a] \in Nat
        <5>1. AreaSize \in [Area -> Nat] /\ DOMAIN mem' \subseteq Area
          BY ONLY <1>2, TableAssumption, Zenon
        <5> QED BY ONLY <2>1, <5>1
      <4>2. mem'[a] = Blank
        BY ONLY <1>2, <2>1, <3>2, Zenon
      <4>3. /\ Blank.count = 0 /\ Blank.length = 0
            /\ Bytes(Blank.of, Blank.count) = Nothing
        BY ONLY DEF Blank, Bytes, Nothing
      <4>4. Nothing \in Held /\ 0 <= AreaSize[a] /\ 0 \in 0 .. 255
        BY ONLY <4>1 DEF Held
      <4> QED BY ONLY <4>2, <4>3, <4>4
    <3> QED BY <3>1, <3>2
  <2> QED BY <1>1, <2>1 DEF TypeOK, TableInv
<1>4. ContentsHeld'
    BY <1>2 DEF ContentsHeld, Blank
<1>5. Requesting'
    BY <1>2 DEF Requesting
<1>6. Publishing'
  <2>1. mqtt_index \in Nat
    <3>1. mqtt_index \in 1 .. TableSize
      BY DEF TypeOK
    <3> QED BY ONLY <3>1 DEF TableSize
  <2>2. Publishing /\ UNCHANGED <<mqtt_pc, mqtt_index, mqtt_copy>>
    OBVIOUS
  <2> QED BY ONLY <1>2, <2>1, <2>2 DEF Publishing
<1> QED BY <1>1, <1>3, <1>4, <1>5, <1>6

(* The first state.                                                        *)
LEMMA InitInv == Init => IInv
<1> SUFFICES ASSUME Init PROVE IInv
    OBVIOUS
<1>1. TableInv
    BY TableInitInv DEF Init
<1>2. DOMAIN mem = {}
    BY DEF Init, TableInit
<1>3. TypeOK
  <2>1. {copy, seen, mqtt_copy, reply.bytes} \subseteq Held
    BY DEF Init, Refused, Held
  <2>2. reply.answer \in {"OK", "NOK", "400"}
    BY DEF Init, Refused
  <2>3. /\ http_pc \in {"idle", "get", "post"}
        /\ key \in Keys \cup {0}
        /\ mqtt_pc \in {"sleep", "loop", "publish"}
        /\ mqtt_index \in 1 .. TableSize
    BY DEF Init, TableSize
  <2>4. broker \in [Area -> Held]
    BY DEF Init, Held
  <2> QED BY <1>1, <1>2, <2>1, <2>2, <2>3, <2>4 DEF TypeOK, TableInv
<1>4. ContentsHeld /\ Requesting /\ Publishing
    BY <1>2 DEF Init, ContentsHeld, Requesting, Publishing
<1> QED BY <1>1, <1>3, <1>4 DEF IInv

(* Every step: main, the HTTP server, the MQTT client, the other tasks.    *)
LEMMA StepInv == IInv /\ [Next]_vars => IInv'
<1> SUFFICES ASSUME IInv, [Next]_vars PROVE IInv'
    OBVIOUS
<1>1. CASE Main /\ UNCHANGED <<http, mqtt>>
    BY <1>1, MainKeepsInv
<1>2. CASE Http
    BY <1>2, GetInv, GetLengthInv, RequestRefusedInv, PostInv, PostAnswerInv DEF Http
<1>3. CASE Mqtt
    BY <1>3, StartRoundInv, PublishReadInv, PublishNothingInv, PublishInv, EndRoundInv
       DEF Mqtt
<1>4. CASE \E store \in Stores : Store(store.task, store.area, store.value)
    BY <1>4, StoreInv
<1>5. CASE UNCHANGED vars
  <2> USE <1>5 DEF vars, boot, http, mqtt, IInv
  <2>1. TableInv'
    BY TableKept
  <2> QED BY <2>1 DEF TypeOK, TableInv, ContentsHeld, Requesting, Publishing
<1> QED BY <1>1, <1>2, <1>3, <1>4, <1>5 DEF Next

(* The inductive invariant holds in every reachable state.                 *)
THEOREM Invariant == Spec => []IInv
<1> QED BY InitInv, StepInv, PTL DEF Spec

(* Every variable of the table and of the requests has its type; no count  *)
(* is beyond the size of its area, no loop beyond the table.               *)
THEOREM TypeCorrect == Spec => []TypeOK
<1>1. IInv => TypeOK
    BY DEF IInv
<1> QED BY <1>1, Invariant, PTL

(* A task that runs finds the areas it uses by name, however main and the  *)
(* tasks that already run are interleaved.                                 *)
THEOREM AreasBeforeTasks == Spec => []TasksHaveAreas
<1>1. IInv => TasksHaveAreas
    BY TableHasNeeds DEF IInv
<1> QED BY <1>1, Invariant, PTL

(* Once main is done, counting from 1 reaches every area, whichever        *)
(* processes were left out.                                                *)
THEOREM CountIsComplete == Spec => []CountReachesAreas
<1>1. IInv => CountReachesAreas
    BY TableIsCounted DEF IInv
<1> QED BY <1>1, Invariant, PTL

(* The answer to a GET is what the area held when it was copied; or, only  *)
(* if the area holds another number of bytes by the answer, that many of   *)
(* the bytes that were copied.                                             *)
THEOREM GetAnswersArea == Spec => AnswerIsHeld
<1> DEFINE Answers ==
      http_pc = "get" /\ http_pc' = "idle" =>
        \E count \in {seen.count, Copied(Index(key)).count} :
            reply' = IF count > 0 THEN Ok(Bytes(seen.of, count)) ELSE Nok
<1>1. IInv /\ [Next]_vars => [Answers]_vars
  <2> SUFFICES ASSUME IInv, Next, http_pc = "get", http_pc' = "idle"
               PROVE  \E count \in {seen.count, Copied(Index(key)).count} :
                        reply' = IF count > 0 THEN Ok(Bytes(seen.of, count)) ELSE Nok
    OBVIOUS
  <2> DEFINE length == mem[Index(key)].length
  <2>1. GetLength
    BY DEF Next, Http, Mqtt, Get, RequestRefused, Post, PostAnswer, StartRound,
           PublishRead, PublishNothing, Publish, EndRound, Store, http
  <2>2. copy = seen
    BY DEF IInv, Requesting
  <2>3. reply' = IF length > 0 THEN Ok(Bytes(seen.of, length)) ELSE Nok
    BY <2>1, <2>2, Zenon DEF GetLength, Answer
  <2>4. Copied(Index(key)).count = length
    BY DEF Copied, Bytes
  <2> QED BY <2>3, <2>4
<1>2. [][Answers]_vars <=> AnswerIsHeld
    BY PTL DEF AnswerIsHeld
<1> QED BY <1>1, <1>2, Invariant, PTL DEF Spec

(* A POST that is answered at once changes no area; any other has left its *)
(* text in the area, with a length of 8 bits, and the answer tells whether *)
(* that can be read, or, only if that is not the same, whether what the    *)
(* area holds by the answer can.                                           *)
THEOREM PostAnswersArea == Spec => PostAnswered
<1> DEFINE Refuses == http_pc = "idle" /\ http_pc' = "idle" /\ http' # http => mem' = mem
           Answers ==
             http_pc = "post" /\ http_pc' = "idle" =>
               /\ seen = Bytes(copy.of, copy.count % 256)
               /\ \E bytes \in {seen, Copied(Index(key))} :
                       reply' = IF bytes.count > 0 THEN Ok(Nothing) ELSE Nok
<1>1. IInv /\ [Next]_vars => [Refuses]_vars
  <2> SUFFICES ASSUME IInv, Next, http_pc = "idle", http_pc' = "idle", http' # http
               PROVE  mem' = mem
    OBVIOUS
  <2>1. CASE \E store \in Stores : Store(store.task, store.area, store.value)
    BY <2>1 DEF Store
  <2>2. CASE \E post \in Posts : Post(post.key, post.value)
    BY <2>2 DEF Post, Begin
  <2> QED BY <2>1, <2>2 DEF Next, Http, Mqtt, Get, GetLength, RequestRefused, PostAnswer,
             StartRound, PublishRead, PublishNothing, Publish, EndRound, http
<1>2. IInv /\ [Next]_vars => [Answers]_vars
  <2> SUFFICES ASSUME IInv, Next, http_pc = "post", http_pc' = "idle"
               PROVE  /\ seen = Bytes(copy.of, copy.count % 256)
                      /\ \E bytes \in {seen, Copied(Index(key))} :
                              reply' = IF bytes.count > 0 THEN Ok(Nothing) ELSE Nok
    OBVIOUS
  <2>1. PostAnswer
    BY DEF Next, Http, Mqtt, Get, GetLength, RequestRefused, Post, StartRound,
           PublishRead, PublishNothing, Publish, EndRound, Store, http
  <2>2. seen = Bytes(copy.of, copy.count % 256)
    BY DEF IInv, Requesting
  <2>3. reply' = IF mem[Index(key)].length > 0 THEN Ok(Nothing) ELSE Nok
    BY <2>1, Zenon DEF PostAnswer, Answer
  <2>4. Copied(Index(key)).count = mem[Index(key)].length
    BY DEF Copied, Bytes
  <2> QED BY <2>2, <2>3, <2>4
<1>3. [][Refuses]_vars /\ [][Answers]_vars <=> PostAnswered
    BY PTL DEF PostAnswered
<1> QED BY <1>1, <1>2, <1>3, Invariant, PTL DEF Spec
=============================================================================
