---------------------- MODULE CommunicationProcess_proofs ----------------------
(***************************************************************************)
(* The safety of CommunicationProcess for every set of areas, values,      *)
(* packages and lists, and every length of a round: what a package         *)
(* changes, who may miss an update, which list is the current one, and     *)
(* what is sent for an entry of it.                                        *)
(***************************************************************************)
EXTENDS CommunicationProcess, TLAPS

Memory == [Area -> [value : Value \cup {NoValue}, length : 0 .. 255, fresh : BOOLEAN]]

(* The conjuncts of TypeOK that are not about mem, in groups: where the    *)
(* process and the waiting task are, what they hold, and the list.         *)
ControlOK ==
    /\ state \in {"IDLE", "IDLE_SINGLE", "READ", "SINGLE", "SINGLE_AREA", "CONTINUOS",
                  "LIST", "ENTRY", "LENGTH"}
    /\ count \in 0 .. MaxEntries
    /\ index \in 1 .. MaxEntries + 1
    /\ watcher \in {"poll", "read"}

ContentOK ==
    /\ received \in Package \cup {Nobody}
    /\ request \in Area \cup {Invalid}
    /\ {buffer, known} \subseteq Value \cup {NoValue}

ListOK ==
    /\ cp_list \in [1 .. MaxEntries -> PacketRequest]
    /\ elapsed \in [1 .. MaxEntries -> 0 .. MaxElapsed]

(* The length of an area is that of its value, so that an area with bytes  *)
(* holds a value.                                                          *)
LengthsHeld == \A a \in Area : mem[a].length = Length(mem[a].value)

(* Between the copy and the look at the length, the loop is at an entry of *)
(* the list, and response_buffer holds what was copied for it.             *)
CopiedFor(area, value) ==
    [area |-> area, value |-> value,
     length |-> IF value = NoValue THEN 0 ELSE Length(value)]

Transmitting ==
    state = "LENGTH" =>
        /\ index <= count
        /\ copied = CopiedFor(cp_list[index].area, buffer)
        /\ buffer # NoValue => cp_list[index].area \in Area

IInv ==
    /\ TypeOK
    /\ LengthsHeld
    /\ Transmitting
    /\ UpdateSeenUnlessTaken
    /\ ListFollowsArea

-----------------------------------------------------------------------------
(* A length has 8 bits.                                                    *)
LEMMA LengthType ==
    ASSUME NEW value \in Value \cup {NoValue}
    PROVE  Length(value) \in 0 .. 255
<1> USE CommunicationAssumption
<1>1. CASE value = NoValue
    BY <1>1 DEF Length
<1>2. CASE value \in Value
  <2>1. Length(value) = Size[value] % 256 /\ Size[value] \in Nat
    BY <1>2 DEF Length
  <2>2. \A n \in Nat : n % 256 \in 0 .. 255
    OBVIOUS
  <2> QED BY ONLY <2>1, <2>2
<1> QED BY <1>1, <1>2

(* A Write, and a flag that is taken down, leave the areas well typed.     *)
LEMMA StoredType ==
    ASSUME mem \in Memory, NEW area \in Area, NEW value \in Value
    PROVE  Stored(area, value) \in Memory
<1>1. Length(value) \in 0 .. 255
    BY LengthType
<1> QED BY <1>1 DEF Stored, Memory

(* The same of the flag lowered.                                           *)
LEMMA LoweredType ==
    ASSUME mem \in Memory, NEW area \in Area
    PROVE  [mem EXCEPT ![area].fresh = FALSE] \in Memory
<1> DEFINE Cell == [value : Value \cup {NoValue}, length : 0 .. 255, fresh : BOOLEAN]
<1>1. mem \in [Area -> Cell]
    BY DEF Memory
<1>2. \A cell \in Cell : [cell EXCEPT !.fresh = FALSE] \in Cell
    OBVIOUS
<1> HIDE DEF Cell
<1>3. [mem EXCEPT ![area].fresh = FALSE] \in [Area -> Cell]
    BY ONLY <1>1, <1>2
<1> QED BY ONLY <1>3 DEF Memory, Cell

(* The same of a request consumed.                                         *)
LEMMA ConsumedType ==
    ASSUME mem \in Memory, NEW area
    PROVE  Consumed(area) \in Memory
<1> QED BY LoweredType DEF Consumed, Readable

(* The time that a round takes is counted up to its bound.                 *)
LEMMA LaterType ==
    ASSUME NEW ticks \in 1 .. MaxDelay,
           elapsed \in [1 .. MaxEntries -> 0 .. MaxElapsed]
    PROVE  Later(ticks) \in [1 .. MaxEntries -> 0 .. MaxElapsed]
<1> USE CommunicationAssumption
<1> QED BY DEF Later

(* A round that ends leaves the list and its times well typed.             *)
LEMMA EndRoundType ==
    ASSUME ListOK, NEW next_state, EndRound(next_state), UNCHANGED cp_list
    PROVE  ListOK'
<1>1. PICK ticks \in 1 .. MaxDelay : elapsed' = Later(ticks)
    BY DEF EndRound
<1>2. elapsed' \in [1 .. MaxEntries -> 0 .. MaxElapsed]
    BY <1>1, LaterType DEF ListOK
<1> QED BY <1>2 DEF ListOK

(* No Read into response_buffer touches the area of the list.              *)
LEMMA ListNotConsumed ==
    ASSUME mem \in Memory, NEW area
    PROVE  Consumed(area)[Continuos] = mem[Continuos]
<1> USE CommunicationAssumption, ListAssumption
<1>1. CASE Readable(area)
  <2>1. area \in Area /\ area # Continuos
    BY <1>1 DEF Readable, BufferBytes
  <2> QED BY <1>1, <2>1 DEF Consumed, Memory
<1>2. CASE ~Readable(area)
    BY <1>2 DEF Consumed
<1> QED BY <1>1, <1>2

(* A Read that takes the flag away is on record, so that the task that     *)
(* waits for it sees the update or has an excuse.                          *)
LEMMA ConsumedSeen ==
    ASSUME mem \in Memory, Watched \in Area, UpdateSeenUnlessTaken,
           NEW area, Consume(area), UNCHANGED <<watcher, known>>
    PROVE  UpdateSeenUnlessTaken'
<1>1. mem'[Watched].value = mem[Watched].value
  <2>1. CASE Readable(area)
    <3>1. area \in Area /\ mem' = [mem EXCEPT ![area].fresh = FALSE]
      BY <2>1 DEF Consume, Consumed, Readable
    <3> QED BY <3>1 DEF Memory
  <2>2. CASE ~Readable(area)
    BY <2>2 DEF Consume, Consumed
  <2> QED BY <2>1, <2>2
<1>2. mem[Watched].fresh => mem'[Watched].fresh \/ taken'
  <2>1. CASE area = Watched
    BY <2>1 DEF Consume
  <2>2. CASE area # Watched
    <3>1. mem'[Watched] = mem[Watched]
      BY <2>2 DEF Consume, Consumed, Memory
    <3> QED BY <3>1
  <2> QED BY <2>1, <2>2
<1>3. taken => taken'
    BY DEF Consume
<1> QED BY <1>1, <1>2, <1>3 DEF UpdateSeenUnlessTaken

(* What is loaded has the type of a list, whatever was in its area.        *)
LEMMA LoadedType ==
    ASSUME cp_list \in [1 .. MaxEntries -> PacketRequest], NEW value
    PROVE  /\ Loaded(value) \in [1 .. MaxEntries -> PacketRequest]
           /\ LoadedCount(value) \in 0 .. MaxEntries
<1> USE CommunicationAssumption
<1>1. CASE Loads(value)
  <2>1. /\ Entries[value] \in Seq(PacketRequest)
        /\ Len(Entries[value]) \in 0 .. MaxEntries
    BY <1>1 DEF Loads
  <2>2. \A i \in 1 .. Len(Entries[value]) : Entries[value][i] \in PacketRequest
    BY <2>1
  <2> QED BY <1>1, <2>1, <2>2 DEF Loaded, LoadedCount
<1>2. CASE ~Loads(value)
    BY <1>2 DEF Loaded, LoadedCount
<1> QED BY <1>1, <1>2

(* The list stays that of its area as long as neither is touched, or the   *)
(* flag of the area is up.                                                 *)
LEMMA ListKept ==
    ASSUME ListFollowsArea, UNCHANGED <<cp_list, count>>,
           mem'[Continuos] = mem[Continuos] \/ mem'[Continuos].fresh
    PROVE  ListFollowsArea'
<1>1. CASE mem'[Continuos].fresh
    BY <1>1 DEF ListFollowsArea
<1>2. CASE mem'[Continuos] = mem[Continuos]
  <2>1. cp_list' = cp_list /\ count' = count
    OBVIOUS
  <2> QED BY <1>2, <2>1 DEF ListFollowsArea
<1> QED BY <1>1, <1>2

(* An area that has bytes holds a value, so that what is copied from it    *)
(* carries the length of that value.                                       *)
LEMMA CopiedIsHeld ==
    ASSUME LengthsHeld, NEW area
    PROVE  Held(area) = CopiedFor(area, IF Delivers(area) THEN mem[area].value ELSE NoValue)
<1>1. CASE Delivers(area)
  <2>1. /\ mem[area].length = Length(mem[area].value)
        /\ mem[area].length > 0
    BY <1>1 DEF LengthsHeld, Delivers, Readable
  <2>2. mem[area].value # NoValue
    BY <2>1 DEF Length
  <2> QED BY ONLY <1>1, <2>1, <2>2, Zenon DEF Held, CopiedFor
<1>2. CASE ~Delivers(area)
    BY ONLY <1>2, Zenon DEF Held, CopiedFor
<1> QED BY <1>1, <1>2

(* The driver delivers a package.                                          *)
LEMMA IdleReceivesInv ==
    ASSUME NEW package \in Package \cup {Nobody},
           IInv, IdleReceives(package)
    PROVE  IInv'
<1> USE CommunicationAssumption
     DEF IInv, IdleReceives, EndRound, lists, sending, others
<1>1. TypeOK'
  <2>1. mem' \in Memory
    BY DEF TypeOK, Memory
  <2>2. ControlOK'
    BY DEF TypeOK, ControlOK
  <2>3. ContentOK'
    BY DEF TypeOK, ContentOK
  <2>4. ListOK'
    <3>1. ListOK
      BY DEF TypeOK, ListOK
    <3> QED BY <3>1, EndRoundType
  <2>5. taken' \in BOOLEAN
    BY DEF TypeOK
  <2> QED BY ONLY <2>1, <2>2, <2>3, <2>4, <2>5, Zenon
     DEF TypeOK, Memory, ControlOK, ContentOK, ListOK
<1>2. LengthsHeld'
    BY DEF TypeOK, LengthsHeld
<1>3. Transmitting'
    BY DEF TypeOK, Transmitting
<1>4. UpdateSeenUnlessTaken'
    BY DEF TypeOK, UpdateSeenUnlessTaken
<1>5. ListFollowsArea'
    BY DEF TypeOK, ListFollowsArea, Loads
<1> QED BY <1>1, <1>2, <1>3, <1>4, <1>5

(* Nothing comes in.                                                       *)
LEMMA IdleQuietInv ==
    ASSUME IInv, IdleQuiet
    PROVE  IInv'
<1> USE CommunicationAssumption
     DEF IInv, IdleQuiet, lists, sending, others
<1>1. TypeOK'
    BY DEF TypeOK
<1>2. LengthsHeld'
    BY DEF TypeOK, LengthsHeld
<1>3. Transmitting'
    BY DEF TypeOK, Transmitting
<1>4. UpdateSeenUnlessTaken'
    BY DEF TypeOK, UpdateSeenUnlessTaken
<1>5. ListFollowsArea'
    BY DEF TypeOK, ListFollowsArea, Loads
<1> QED BY <1>1, <1>2, <1>3, <1>4, <1>5

(* The flag of the single request is polled.                               *)
LEMMA IdlePollsSingleInv ==
    ASSUME IInv, IdlePollsSingle
    PROVE  IInv'
<1> USE CommunicationAssumption
     DEF IInv, IdlePollsSingle, EndRound, lists, sending, others
<1>1. TypeOK'
  <2>1. mem' \in Memory
    BY DEF TypeOK, Memory
  <2>2. ControlOK'
    BY DEF TypeOK, ControlOK
  <2>3. ContentOK'
    BY DEF TypeOK, ContentOK
  <2>4. ListOK'
    <3>1. ListOK
      BY DEF TypeOK, ListOK
    <3> QED BY <3>1, EndRoundType
  <2>5. taken' \in BOOLEAN
    BY DEF TypeOK
  <2> QED BY ONLY <2>1, <2>2, <2>3, <2>4, <2>5, Zenon
     DEF TypeOK, Memory, ControlOK, ContentOK, ListOK
<1>2. LengthsHeld'
    BY DEF TypeOK, LengthsHeld
<1>3. Transmitting'
    BY DEF TypeOK, Transmitting
<1>4. UpdateSeenUnlessTaken'
    BY DEF TypeOK, UpdateSeenUnlessTaken
<1>5. ListFollowsArea'
    BY DEF TypeOK, ListFollowsArea, Loads
<1> QED BY <1>1, <1>2, <1>3, <1>4, <1>5

(* A Write raises the flag of its area, so that whoever waits for it, this *)
(* process for its list among them, finds the update.                      *)
LEMMA WriteInv ==
    ASSUME IInv, NEW area \in Area, NEW value \in Value, Write(area, value),
           UNCHANGED <<cp_list, count, watcher, known>>
    PROVE  /\ mem' \in Memory
           /\ taken' \in BOOLEAN
           /\ LengthsHeld'
           /\ UpdateSeenUnlessTaken'
           /\ ListFollowsArea'
<1> USE CommunicationAssumption DEF IInv
<1>1. mem \in Memory /\ mem' = Stored(area, value)
    BY DEF TypeOK, Memory, Write
<1>2. mem' \in Memory
    BY <1>1, StoredType
<1>3. \A a \in Area :
        mem'[a] = IF a = area
                  THEN [value |-> value, length |-> Length(value), fresh |-> TRUE]
                  ELSE mem[a]
    BY ONLY <1>1, Zenon DEF Stored, Memory
<1>4. LengthsHeld'
  <2>1. LengthsHeld
    OBVIOUS
  <2>2. ASSUME NEW a \in Area
        PROVE  mem'[a].length = Length(mem'[a].value)
    <3>1. CASE a = area
      BY ONLY <1>3, <3>1
    <3>2. CASE a # area
      BY ONLY <1>3, <2>1, <3>2, Zenon DEF LengthsHeld
    <3> QED BY ONLY <3>1, <3>2
  <2> QED BY ONLY <2>2, Zenon DEF LengthsHeld, Length
<1>5. UpdateSeenUnlessTaken'
    BY <1>3 DEF UpdateSeenUnlessTaken, Write, TypeOK
<1>6. ListFollowsArea'
  <2>1. Continuos \in Area
    OBVIOUS
  <2>2. mem'[Continuos] = mem[Continuos] \/ mem'[Continuos].fresh
    BY ONLY <1>3, <2>1
  <2> QED BY <2>2, ListKept
<1>7. taken' \in BOOLEAN
    BY DEF Write, TypeOK
<1> QED BY <1>2, <1>4, <1>5, <1>6, <1>7

(* A package is stored, or not; the round ends.                            *)
LEMMA ReadInv ==
    ASSUME IInv, Read
    PROVE  IInv'
<1> USE CommunicationAssumption
<1>1. \/ UNCHANGED <<mem, taken>>
      \/ /\ received.area \in Area /\ received.value \in Value
         /\ Write(received.area, received.value)
    BY DEF Read, Fits, IInv, TypeOK
<1>2. UNCHANGED <<cp_list, count, watcher, known>>
    BY DEF Read
<1>3. /\ mem' \in Memory
      /\ taken' \in BOOLEAN
      /\ LengthsHeld'
      /\ UpdateSeenUnlessTaken'
      /\ ListFollowsArea'
  <2>1. CASE UNCHANGED <<mem, taken>>
    <3> USE <1>2, <2>1 DEF IInv
    <3>1. mem' \in Memory
      BY DEF TypeOK, Memory
    <3>2. taken' \in BOOLEAN
      BY DEF TypeOK
    <3>3. LengthsHeld' /\ UpdateSeenUnlessTaken' /\ ListFollowsArea'
      BY DEF LengthsHeld, UpdateSeenUnlessTaken, ListFollowsArea
    <3> QED BY <3>1, <3>2, <3>3
  <2>2. CASE /\ received.area \in Area /\ received.value \in Value
             /\ Write(received.area, received.value)
    BY <1>2, <2>2, WriteInv
  <2> QED BY <1>1, <2>1, <2>2
<1>4. TypeOK'
  <2> USE DEF IInv, Read, EndRound, sending
  <2>1. mem' \in Memory
    BY <1>3
  <2>2. ControlOK'
    BY DEF TypeOK, ControlOK
  <2>3. ContentOK'
    BY DEF TypeOK, ContentOK
  <2>4. ListOK'
    <3>1. ListOK
      BY DEF TypeOK, ListOK
    <3> QED BY <3>1, EndRoundType
  <2> QED BY ONLY <2>1, <2>2, <2>3, <2>4, <1>3, Zenon
     DEF TypeOK, Memory, ControlOK, ContentOK, ListOK
<1>5. Transmitting'
    BY DEF Read, EndRound, Transmitting
<1> QED BY <1>3, <1>4, <1>5 DEF IInv

(* The single request is read; its area is not the one watched.            *)
LEMMA SingleRequestInv ==
    ASSUME IInv, SingleRequest
    PROVE  IInv'
<1> USE CommunicationAssumption
     DEF IInv, SingleRequest, lists, sending, others
<1>1. TypeOK'
  <2>1. mem' \in Memory
    BY LoweredType DEF TypeOK, Memory
  <2>2. ControlOK'
    BY DEF TypeOK, ControlOK
  <2>3. ContentOK'
    BY DEF TypeOK, ContentOK
  <2>4. ListOK'
    BY DEF TypeOK, ListOK
  <2>5. taken' \in BOOLEAN
    BY DEF TypeOK
  <2> QED BY ONLY <2>1, <2>2, <2>3, <2>4, <2>5, Zenon
     DEF TypeOK, Memory, ControlOK, ContentOK, ListOK
<1>2. LengthsHeld'
    BY DEF TypeOK, LengthsHeld
<1>3. Transmitting'
    BY DEF TypeOK, Transmitting
<1>4. UpdateSeenUnlessTaken'
    BY DEF TypeOK, UpdateSeenUnlessTaken
<1>5. ListFollowsArea'
    BY DEF TypeOK, ListFollowsArea, Loads
<1> QED BY <1>1, <1>2, <1>3, <1>4, <1>5

(* The area that the request asks for is read, and its flag with it.       *)
LEMMA SingleAreaInv ==
    ASSUME IInv, SingleArea
    PROVE  IInv'
<1> USE CommunicationAssumption
     DEF IInv, SingleArea, EndRound, Consume, Consumed, lists, sending, others
<1>1. TypeOK'
  <2>1. mem' \in Memory
    BY ConsumedType DEF TypeOK, Memory
  <2>2. ControlOK'
    BY DEF TypeOK, ControlOK
  <2>3. ContentOK'
    BY DEF TypeOK, ContentOK
  <2>4. ListOK'
    <3>1. ListOK
      BY DEF TypeOK, ListOK
    <3> QED BY <3>1, EndRoundType
  <2>5. taken' \in BOOLEAN
    BY DEF TypeOK
  <2> QED BY ONLY <2>1, <2>2, <2>3, <2>4, <2>5, Zenon
     DEF TypeOK, Memory, ControlOK, ContentOK, ListOK
<1>2. LengthsHeld'
    BY DEF TypeOK, LengthsHeld
<1>3. Transmitting'
    BY DEF TypeOK, Transmitting
<1>4. UpdateSeenUnlessTaken'
  <2>1. mem \in Memory /\ Watched \in Area /\ UpdateSeenUnlessTaken
    BY DEF TypeOK, Memory
  <2>2. Consume(request) /\ UNCHANGED <<watcher, known>>
    OBVIOUS
  <2> QED BY ONLY <2>1, <2>2, ConsumedSeen
<1>5. ListFollowsArea'
  <2>1. mem'[Continuos] = mem[Continuos]
    BY ListNotConsumed DEF TypeOK, Memory
  <2> QED BY <2>1, ListKept
<1> QED BY <1>1, <1>2, <1>3, <1>4, <1>5

(* The flag of the list is polled.                                         *)
LEMMA ContinuosCheckInv ==
    ASSUME IInv, ContinuosCheck
    PROVE  IInv'
<1> USE CommunicationAssumption
     DEF IInv, ContinuosCheck, lists, sending, others
<1>1. TypeOK'
    BY DEF TypeOK
<1>2. LengthsHeld'
    BY DEF TypeOK, LengthsHeld
<1>3. Transmitting'
    BY DEF TypeOK, Transmitting
<1>4. UpdateSeenUnlessTaken'
    BY DEF TypeOK, UpdateSeenUnlessTaken
<1>5. ListFollowsArea'
    BY DEF TypeOK, ListFollowsArea, Loads
<1> QED BY <1>1, <1>2, <1>3, <1>4, <1>5

(* The list is loaded: from here on it is the one in its area.             *)
LEMMA ContinuosLoadInv ==
    ASSUME IInv, ContinuosLoad
    PROVE  IInv'
<1> USE CommunicationAssumption
     DEF IInv, ContinuosLoad, sending, others
<1>1. TypeOK'
  <2>1. mem' \in Memory
    BY LoweredType DEF TypeOK, Memory
  <2>2. ControlOK'
    BY LoadedType DEF TypeOK, ControlOK
  <2>3. ContentOK'
    BY DEF TypeOK, ContentOK
  <2>4. ListOK'
    <3>1. cp_list' \in [1 .. MaxEntries -> PacketRequest]
      BY LoadedType DEF TypeOK
    <3>2. elapsed' \in [1 .. MaxEntries -> 0 .. MaxElapsed]
      <4> DEFINE value == mem[Continuos].value
      <4>1. PICK ticks \in {0, MaxElapsed} :
              elapsed' = [i \in 1 .. MaxEntries |->
                            IF Loads(value) /\ i <= Len(Entries[value]) THEN ticks
                                                                       ELSE elapsed[i]]
        OBVIOUS
      <4>2. ticks \in 0 .. MaxElapsed
        OBVIOUS
      <4>3. \A i \in 1 .. MaxEntries : elapsed[i] \in 0 .. MaxElapsed
        BY DEF TypeOK
      <4> QED BY ONLY <4>1, <4>2, <4>3
    <3> QED BY ONLY <3>1, <3>2 DEF ListOK
  <2>5. taken' \in BOOLEAN
    BY DEF TypeOK
  <2> QED BY ONLY <2>1, <2>2, <2>3, <2>4, <2>5, Zenon
     DEF TypeOK, Memory, ControlOK, ContentOK, ListOK
<1>2. LengthsHeld'
    BY DEF TypeOK, LengthsHeld
<1>3. Transmitting'
    BY DEF TypeOK, Transmitting
<1>4. UpdateSeenUnlessTaken'
    BY DEF TypeOK, UpdateSeenUnlessTaken
<1>5. ListFollowsArea'
  <2> DEFINE value == mem[Continuos].value
  <2>1. mem'[Continuos].value = value
    BY DEF TypeOK
  <2>2. ASSUME Loads(value)
        PROVE  /\ count' = Len(Entries[value])
               /\ \A i \in 1 .. count' : cp_list'[i] = Entries[value][i]
    <3>1. Len(Entries[value]) \in 0 .. MaxEntries
      BY <2>2 DEF Loads
    <3>2. count' = Len(Entries[value])
      BY <2>2 DEF LoadedCount
    <3> QED BY <2>2, <3>1, <3>2 DEF Loaded
  <2> QED BY <2>1, <2>2 DEF ListFollowsArea, Loads
<1> QED BY <1>1, <1>2, <1>3, <1>4, <1>5

(* An entry that is not due is skipped.                                    *)
LEMMA SkipInv ==
    ASSUME IInv, Skip
    PROVE  IInv'
<1> USE CommunicationAssumption
     DEF IInv, Skip, lists, sending, others
<1>1. TypeOK'
    BY DEF TypeOK
<1>2. LengthsHeld'
    BY DEF TypeOK, LengthsHeld
<1>3. Transmitting'
    BY DEF TypeOK, Transmitting
<1>4. UpdateSeenUnlessTaken'
    BY DEF TypeOK, UpdateSeenUnlessTaken
<1>5. ListFollowsArea'
    BY DEF TypeOK, ListFollowsArea, Loads
<1> QED BY <1>1, <1>2, <1>3, <1>4, <1>5

(* An entry that is due: its area is copied, and its flag consumed.        *)
LEMMA CopyInv ==
    ASSUME IInv, Copy
    PROVE  IInv'
<1> USE CommunicationAssumption
     DEF IInv, Copy, Consume, Consumed, lists, sending, others
<1>1. TypeOK'
  <2>1. mem' \in Memory
    BY ConsumedType DEF TypeOK, Memory
  <2>2. ControlOK'
    BY DEF TypeOK, ControlOK
  <2>3. ContentOK'
    <3>1. mem \in Memory /\ ContentOK
      BY DEF TypeOK, Memory, ContentOK
    <3>2. UNCHANGED <<received, request, known>>
      OBVIOUS
    <3>3. buffer' = NoValue \/ \E area \in Area : buffer' = mem[area].value
      BY DEF Delivers, Readable
    <3>4. \A area \in Area : mem[area].value \in Value \cup {NoValue}
      BY ONLY <3>1 DEF Memory
    <3> QED BY ONLY <3>1, <3>2, <3>3, <3>4 DEF ContentOK
  <2>4. ListOK'
    BY DEF TypeOK, ListOK
  <2>5. taken' \in BOOLEAN
    BY DEF TypeOK
  <2> QED BY ONLY <2>1, <2>2, <2>3, <2>4, <2>5, Zenon
     DEF TypeOK, Memory, ControlOK, ContentOK, ListOK
<1>2. LengthsHeld'
  <2>1. mem \in Memory /\ LengthsHeld
    BY DEF TypeOK, Memory
  <2>2. \/ mem' = mem
        \/ mem' = [mem EXCEPT ![cp_list[index].area].fresh = FALSE]
    BY DEF Readable
  <2>3. \A a \in Area : mem'[a].value = mem[a].value /\ mem'[a].length = mem[a].length
    BY ONLY <2>1, <2>2 DEF Memory
  <2> QED BY ONLY <2>1, <2>3, Zenon DEF LengthsHeld
<1>3. Transmitting'
  <2> DEFINE area == cp_list[index].area
  <2>1. /\ index <= count /\ UNCHANGED <<cp_list, count, index>>
        /\ buffer' = IF Delivers(area) THEN mem[area].value ELSE NoValue
        /\ copied' = Held(area)
    OBVIOUS
  <2>2. LengthsHeld
    OBVIOUS
  <2>3. copied' = CopiedFor(area, buffer')
    BY ONLY <2>1, <2>2, CopiedIsHeld
  <2>4. buffer' # NoValue => area \in Area
    BY ONLY <2>1 DEF Delivers, Readable
  <2> QED BY ONLY <2>1, <2>3, <2>4 DEF Transmitting, CopiedFor
<1>4. UpdateSeenUnlessTaken'
  <2>1. mem \in Memory /\ Watched \in Area /\ UpdateSeenUnlessTaken
    BY DEF TypeOK, Memory
  <2>2. Consume(cp_list[index].area) /\ UNCHANGED <<watcher, known>>
    OBVIOUS
  <2> QED BY ONLY <2>1, <2>2, ConsumedSeen
<1>5. ListFollowsArea'
  <2>1. mem'[Continuos] = mem[Continuos]
    BY ListNotConsumed DEF TypeOK, Memory
  <2> QED BY <2>1, ListKept
<1> QED BY <1>1, <1>2, <1>3, <1>4, <1>5

(* What was copied is sent, with the length by now.                        *)
LEMMA TransmitInv ==
    ASSUME IInv, Transmit
    PROVE  IInv'
<1> USE CommunicationAssumption
     DEF IInv, Transmit, lists, sending, others
<1>1. TypeOK'
  <2>1. mem' \in Memory
    BY DEF TypeOK, Memory
  <2>2. ControlOK'
    BY DEF TypeOK, ControlOK, Transmitting
  <2>3. ContentOK'
    BY DEF TypeOK, ContentOK
  <2>4. ListOK'
    <3>1. 0 \in 0 .. MaxElapsed
      OBVIOUS
    <3> QED BY <3>1 DEF TypeOK, ListOK
  <2>5. taken' \in BOOLEAN
    BY DEF TypeOK
  <2> QED BY ONLY <2>1, <2>2, <2>3, <2>4, <2>5, Zenon
     DEF TypeOK, Memory, ControlOK, ContentOK, ListOK
<1>2. LengthsHeld'
    BY DEF TypeOK, LengthsHeld
<1>3. Transmitting'
    BY DEF TypeOK, Transmitting
<1>4. UpdateSeenUnlessTaken'
    BY DEF TypeOK, UpdateSeenUnlessTaken
<1>5. ListFollowsArea'
    BY DEF TypeOK, ListFollowsArea, Loads
<1> QED BY <1>1, <1>2, <1>3, <1>4, <1>5

(* The list is done.                                                       *)
LEMMA ContinuosEndInv ==
    ASSUME IInv, ContinuosEnd
    PROVE  IInv'
<1> USE CommunicationAssumption
     DEF IInv, ContinuosEnd, EndRound, lists, sending, others
<1>1. TypeOK'
  <2>1. mem' \in Memory
    BY DEF TypeOK, Memory
  <2>2. ControlOK'
    BY DEF TypeOK, ControlOK
  <2>3. ContentOK'
    BY DEF TypeOK, ContentOK
  <2>4. ListOK'
    <3>1. ListOK
      BY DEF TypeOK, ListOK
    <3> QED BY <3>1, EndRoundType
  <2>5. taken' \in BOOLEAN
    BY DEF TypeOK
  <2> QED BY ONLY <2>1, <2>2, <2>3, <2>4, <2>5, Zenon
     DEF TypeOK, Memory, ControlOK, ContentOK, ListOK
<1>2. LengthsHeld'
    BY DEF TypeOK, LengthsHeld
<1>3. Transmitting'
    BY DEF TypeOK, Transmitting
<1>4. UpdateSeenUnlessTaken'
    BY DEF TypeOK, UpdateSeenUnlessTaken
<1>5. ListFollowsArea'
    BY DEF TypeOK, ListFollowsArea, Loads
<1> QED BY <1>1, <1>2, <1>3, <1>4, <1>5

(* Another task writes an area.                                            *)
LEMMA PostInv ==
    ASSUME NEW post \in Posts,
           IInv, Post(post)
    PROVE  IInv'
<1> USE CommunicationAssumption
     DEF IInv, Post, Write, Stored, Fits, lists, sending, others
<1>1. TypeOK'
  <2>1. mem' \in Memory
    <3>1. mem \in Memory /\ mem' = Stored(post.area, post.value)
      BY DEF TypeOK, Memory
    <3>2. post.area \in Area /\ post.value \in Value
      OBVIOUS
    <3> QED BY ONLY <3>1, <3>2, StoredType
  <2>2. ControlOK'
    BY DEF TypeOK, ControlOK
  <2>3. ContentOK'
    BY DEF TypeOK, ContentOK
  <2>4. ListOK'
    BY DEF TypeOK, ListOK
  <2>5. taken' \in BOOLEAN
    BY DEF TypeOK
  <2> QED BY ONLY <2>1, <2>2, <2>3, <2>4, <2>5, Zenon
     DEF TypeOK, Memory, ControlOK, ContentOK, ListOK
<1>2. LengthsHeld'
    BY DEF TypeOK, LengthsHeld
<1>3. Transmitting'
    BY DEF TypeOK, Transmitting
<1>4. UpdateSeenUnlessTaken'
    BY DEF TypeOK, UpdateSeenUnlessTaken
<1>5. ListFollowsArea'
    BY DEF TypeOK, ListFollowsArea, Loads
<1> QED BY <1>1, <1>2, <1>3, <1>4, <1>5

(* The task that waits for Watched sees its flag.                          *)
LEMMA WatcherPollsInv ==
    ASSUME IInv, WatcherPolls
    PROVE  IInv'
<1> USE CommunicationAssumption
     DEF IInv, WatcherPolls, lists, sending, others
<1>1. TypeOK'
    BY DEF TypeOK
<1>2. LengthsHeld'
    BY DEF TypeOK, LengthsHeld
<1>3. Transmitting'
    BY DEF TypeOK, Transmitting
<1>4. UpdateSeenUnlessTaken'
    BY DEF TypeOK, UpdateSeenUnlessTaken
<1>5. ListFollowsArea'
    BY DEF TypeOK, ListFollowsArea, Loads
<1> QED BY <1>1, <1>2, <1>3, <1>4, <1>5

(* It reads the area and takes the flag down.                              *)
LEMMA WatcherReadsInv ==
    ASSUME IInv, WatcherReads
    PROVE  IInv'
<1> USE CommunicationAssumption
     DEF IInv, WatcherReads, lists, sending, others
<1>1. TypeOK'
  <2>1. mem' \in Memory
    BY LoweredType DEF TypeOK, Memory
  <2>2. ControlOK'
    BY DEF TypeOK, ControlOK
  <2>3. ContentOK'
    BY DEF TypeOK, ContentOK
  <2>4. ListOK'
    BY DEF TypeOK, ListOK
  <2>5. taken' \in BOOLEAN
    BY DEF TypeOK
  <2> QED BY ONLY <2>1, <2>2, <2>3, <2>4, <2>5, Zenon
     DEF TypeOK, Memory, ControlOK, ContentOK, ListOK
<1>2. LengthsHeld'
    BY DEF TypeOK, LengthsHeld
<1>3. Transmitting'
    BY DEF TypeOK, Transmitting
<1>4. UpdateSeenUnlessTaken'
    BY DEF TypeOK, UpdateSeenUnlessTaken
<1>5. ListFollowsArea'
    BY DEF TypeOK, ListFollowsArea, Loads
<1> QED BY <1>1, <1>2, <1>3, <1>4, <1>5

(* The first state.                                                        *)
LEMMA InitInv == Init => IInv
<1> SUFFICES ASSUME Init PROVE IInv
    OBVIOUS
<1> USE CommunicationAssumption DEF Init
<1>1. TypeOK
  <2>1. mem \in Memory
    BY DEF Memory
  <2>2. ControlOK
    BY DEF ControlOK
  <2>3. ContentOK
    BY DEF ContentOK
  <2>4. ListOK
    BY DEF ListOK, ZeroEntry, PacketRequest
  <2>5. taken \in BOOLEAN
    OBVIOUS
  <2> QED BY ONLY <2>1, <2>2, <2>3, <2>4, <2>5, Zenon
     DEF TypeOK, Memory, ControlOK, ContentOK, ListOK
<1>2. LengthsHeld /\ Transmitting /\ UpdateSeenUnlessTaken /\ ListFollowsArea
    BY DEF LengthsHeld, Length, Transmitting, UpdateSeenUnlessTaken, ListFollowsArea, Loads
<1> QED BY <1>1, <1>2 DEF IInv

(* Every step of the process and of the tasks around it.                   *)
LEMMA StepInv == IInv /\ [Next]_vars => IInv'
<1> SUFFICES ASSUME IInv, [Next]_vars PROVE IInv'
    OBVIOUS
<1>1. CASE Process
    BY <1>1, IdleReceivesInv, IdleQuietInv, IdlePollsSingleInv, ReadInv,
       SingleRequestInv, SingleAreaInv, ContinuosCheckInv, ContinuosLoadInv,
       SkipInv, CopyInv, TransmitInv, ContinuosEndInv DEF Process
<1>2. CASE \E post \in Posts : Post(post)
    BY <1>2, PostInv
<1>3. CASE WatcherPolls \/ WatcherReads
    BY <1>3, WatcherPollsInv, WatcherReadsInv
<1>4. CASE UNCHANGED vars
  <2> USE <1>4 DEF IInv, vars, lists, sending, others
  <2>1. TypeOK'
    BY DEF TypeOK
  <2>2. (LengthsHeld /\ Transmitting)'
    BY DEF LengthsHeld, Transmitting
  <2>3. (UpdateSeenUnlessTaken /\ ListFollowsArea)'
    BY DEF UpdateSeenUnlessTaken, ListFollowsArea
  <2> QED BY <2>1, <2>2, <2>3
<1> QED BY <1>1, <1>2, <1>3, <1>4 DEF Next

(* The inductive invariant holds in every reachable state.                 *)
THEOREM Invariant == Spec => []IInv
<1> QED BY InitInv, StepInv, PTL DEF Spec

(* Every variable of the process has its type; the loop over the entries   *)
(* never leaves the list.                                                  *)
THEOREM TypeCorrect == Spec => []TypeOK
<1>1. IInv => TypeOK
    BY DEF IInv
<1> QED BY <1>1, Invariant, PTL

(* A task that waits for an area's flag misses an update only if a Read of *)
(* this process has taken the flag.                                        *)
THEOREM UpdatesSeen == Spec => []UpdateSeenUnlessTaken
<1>1. IInv => UpdateSeenUnlessTaken
    BY DEF IInv
<1> QED BY <1>1, Invariant, PTL

(* The list that is worked on is the one in its area, as soon as the       *)
(* area's flag is down.                                                    *)
THEOREM ListIsCurrent == Spec => []ListFollowsArea
<1>1. IInv => ListFollowsArea
    BY DEF IInv
<1> QED BY <1>1, Invariant, PTL

(* A package changes an area exactly if it is for this device, has a       *)
(* payload and fits: then it is what the area holds.                       *)
THEOREM PackageStored == Spec => StoredIfAddressed
<1> DEFINE Obeyed ==
      state = "READ" /\ state' = "IDLE" =>
        IF (received # Nobody) /\ ForThisDevice(received)
        THEN mem'[received.area].value = received.value /\ mem'[received.area].fresh
        ELSE mem' = mem
<1>1. IInv /\ [Next]_vars => [Obeyed]_vars
  <2> SUFFICES ASSUME IInv, Next, state = "READ", state' = "IDLE"
               PROVE  Obeyed
    OBVIOUS
  <2>1. Read
    BY DEF Next, Process, IdleReceives, IdleQuiet, IdlePollsSingle, SingleRequest, SingleArea,
           ContinuosCheck, ContinuosLoad, Skip, Copy, Transmit, ContinuosEnd, EndRound,
           Post, WatcherPolls, WatcherReads
  <2>2. mem \in Memory
    BY DEF IInv, TypeOK, Memory
  <2>3. CASE (received # Nobody) /\ ForThisDevice(received)
    <3>1. Write(received.area, received.value) /\ received.area \in Area
      BY <2>1, <2>3 DEF Read, ForThisDevice, CheckAddressPackage, Fits
    <3> QED BY <2>2, <2>3, <3>1 DEF Write, Stored, Memory
  <2>4. CASE ~((received # Nobody) /\ ForThisDevice(received))
    BY <2>1, <2>4 DEF Read, ForThisDevice, CheckAddressPackage, Fits
  <2> QED BY <2>3, <2>4
<1>2. [][Obeyed]_vars <=> StoredIfAddressed
    BY PTL DEF StoredIfAddressed
<1> QED BY <1>1, <1>2, Invariant, PTL DEF Spec

(* What is sent for an entry is what its area held when it was copied; or, *)
(* only if the area holds other bytes by then, the bytes that were copied  *)
(* with the length of the others.                                          *)
THEOREM SendsWhatIsHeld == Spec => SentIsHeld
<1> DEFINE Sends ==
      state = "LENGTH" /\ state' = "ENTRY" =>
        \/ sent' = copied
        \/ /\ copied.value # NoValue /\ mem[copied.area].value # copied.value
           /\ sent' = [copied EXCEPT !.length = mem[copied.area].length]
<1>1. IInv /\ [Next]_vars => [Sends]_vars
  <2> SUFFICES ASSUME IInv, Next, state = "LENGTH", state' = "ENTRY"
               PROVE  Sends
    OBVIOUS
  <2> DEFINE area == cp_list[index].area
  <2>1. Transmit
    BY DEF Next, Process, IdleReceives, IdleQuiet, IdlePollsSingle, Read, SingleRequest,
           SingleArea, ContinuosCheck, ContinuosLoad, Skip, Copy, ContinuosEnd, EndRound,
           Post, WatcherPolls, WatcherReads
  <2>2. sent' = [area |-> area, value |-> buffer,
                 length |-> IF buffer = NoValue THEN 0 ELSE mem[area].length]
    BY <2>1 DEF Transmit
  <2>3. copied = [area |-> area, value |-> buffer,
                  length |-> IF buffer = NoValue THEN 0 ELSE Length(buffer)]
    BY DEF IInv, Transmitting, CopiedFor
  <2>4. CASE buffer = NoValue
    BY ONLY <2>2, <2>3, <2>4, Zenon
  <2>5. CASE buffer # NoValue /\ mem[area].value = buffer
    <3>1. mem[area].length = Length(buffer)
      BY <2>5 DEF IInv, Transmitting, LengthsHeld
    <3> QED BY ONLY <2>2, <2>3, <2>5, <3>1, Zenon
  <2>6. CASE buffer # NoValue /\ mem[area].value # buffer
    <3>1. copied.area = area /\ copied.value = buffer
      BY ONLY <2>3
    <3>2. sent' = [copied EXCEPT !.length = mem[area].length]
      BY ONLY <2>2, <2>3, <2>6
    <3> QED BY <2>6, <3>1, <3>2
  <2> QED BY <2>4, <2>5, <2>6
<1>2. [][Sends]_vars <=> SentIsHeld
    BY PTL DEF SentIsHeld
<1> QED BY <1>1, <1>2, Invariant, PTL DEF Spec
-----------------------------------------------------------------------------
(* Where a step of the process may lead: the edges of its state machine,   *)
(* with what they make of the loop's index.                                *)
Stays == UNCHANGED <<state, index>>

Advances ==
    \/ state = "IDLE" /\ state' \in {"READ", "IDLE_SINGLE"}
    \/ state = "IDLE_SINGLE" /\ state' \in {"SINGLE", "CONTINUOS"}
    \/ state = "SINGLE" /\ state' = "SINGLE_AREA"
    \/ state = "CONTINUOS" /\ state' \in {"LIST", "ENTRY"} /\ index' = 1
    \/ state = "LIST" /\ state' = "ENTRY" /\ index' = index
    \/ state = "ENTRY" /\ index <= count /\ state' = "ENTRY" /\ index' = index + 1
    \/ state = "ENTRY" /\ index <= count /\ state' = "LENGTH" /\ index' = index
    \/ state = "LENGTH" /\ index <= count /\ state' = "ENTRY" /\ index' = index + 1

(* No action but these edges changes the state or the index.               *)
LEMMA StepFollowsEdge ==
    ASSUME IInv, Next
    PROVE  Stays \/ state' = "IDLE" \/ Advances
<1>1. ASSUME Process PROVE Stays \/ state' = "IDLE" \/ Advances
  <2>1. state = "LENGTH" => index <= count
    BY DEF IInv, Transmitting
  <2>2. CASE \E package \in Package \cup {Nobody} : IdleReceives(package)
    BY <2>2 DEF IdleReceives, EndRound, Advances
  <2>3. CASE IdleQuiet \/ IdlePollsSingle \/ SingleRequest
    BY <2>3 DEF IdleQuiet, IdlePollsSingle, SingleRequest, EndRound, Advances
  <2>4. CASE Read \/ SingleArea \/ ContinuosEnd
    BY <2>4 DEF Read, SingleArea, ContinuosEnd, EndRound
  <2>5. CASE ContinuosCheck \/ ContinuosLoad
    BY <2>5 DEF ContinuosCheck, ContinuosLoad, sending, Advances
  <2>6. CASE Skip \/ Copy
    BY <2>6 DEF Skip, Copy, Advances
  <2>7. CASE Transmit
    BY <2>1, <2>7 DEF Transmit, Advances
  <2> QED BY <1>1, <2>2, <2>3, <2>4, <2>5, <2>6, <2>7 DEF Process
<1>2. ASSUME NEW post \in Posts, Post(post) PROVE Stays
    BY <1>2 DEF Post, sending, Stays
<1>3. CASE WatcherPolls \/ WatcherReads
    BY <1>3 DEF WatcherPolls, WatcherReads, sending, Stays
<1> QED BY <1>1, <1>2, <1>3 DEF Next

(* The room for entries bounds the steps that are left, and each edge      *)
(* takes at least one of them.                                             *)
LEMMA EdgeTakesStep ==
    ASSUME IInv, Advances
    PROVE  StepsLeft' \in 1 .. StepsLeft - 1
<1>1. /\ MaxEntries \in Nat \ {0}
      /\ count \in 0 .. MaxEntries
      /\ index \in 1 .. MaxEntries + 1
    BY CommunicationAssumption DEF IInv, TypeOK
<1> QED BY ONLY <1>1, Advances DEF Advances, StepsLeft

(* A round ends: each step of the process leads to Idle or leaves fewer    *)
(* steps to take, so that it is back in Idle after 2 * MaxEntries + 5 of   *)
(* them at most.                                                           *)
THEOREM RoundsEnd == Spec => EveryRoundEnds
<1> DEFINE Ends ==
      \/ UNCHANGED <<state, index>>
      \/ state' = "IDLE"
      \/ StepsLeft' \in 1 .. StepsLeft - 1
<1>1. IInv /\ [Next]_vars => [Ends]_vars
  <2> SUFFICES ASSUME IInv, Next PROVE Ends
    OBVIOUS
  <2> QED BY StepFollowsEdge, EdgeTakesStep DEF Stays
<1>2. [][Ends]_vars <=> EveryRoundEnds
    BY PTL DEF EveryRoundEnds
<1> QED BY <1>1, <1>2, Invariant, PTL DEF Spec
-----------------------------------------------------------------------------
(* An area of this model, seen as one that AreaContents describes.  No     *)
(* Write here is too long to encode, and nothing is decoded.               *)
Contents(a) == INSTANCE AreaContents
                   WITH Decodable <- {}, AreaSize <- AreaSize[a],
                        BufferSize <- BufferBytes, Access <- "READ_WRITE",
                        EmptyIsMessage <- FALSE, Zeroed <- NoValue, Partial <- Unsent

Cell(a) == [content |-> [body |-> mem[a].value, length |-> mem[a].length],
            fresh   |-> mem[a].fresh]

(* One admitted call is what changes an area.                              *)
ByOneCall(a) ==
    \E c \in Contents(a)!Call :
        Contents(a)!Admitted(c) /\ Cell(a)' = Contents(a)!Effect(c, Cell(a))

AreasChangeByCalls == [][\A a \in Area : UNCHANGED Cell(a) \/ ByOneCall(a)]_vars

(* What a step makes of the areas, if anything: one of them is written, or *)
(* the flag of one is taken down.                                          *)
Writes(a) ==
    \E value \in Value : Size[value] <= AreaSize[a] /\ mem' = Stored(a, value)

Reads(a) ==
    \E form \in {"message", "buffer"} :
        /\ form = "buffer" => AreaSize[a] <= BufferBytes
        /\ mem' = [mem EXCEPT ![a].fresh = FALSE]

(* What an area holds once it was given to it.                             *)
LEMMA AtTheChangedArea ==
    ASSUME NEW Cells, NEW cell, NEW a \in Area,
           mem \in [Area -> Cells], mem' = [mem EXCEPT ![a] = cell]
    PROVE  mem'[a] = cell
BY Zenon

(* A buffer that fits may be written to any area.                          *)
LEMMA WriteIsCall ==
    ASSUME NEW a \in Area, mem \in Memory, Writes(a)
    PROVE  ByOneCall(a)
<1>1. PICK value \in Value : Size[value] <= AreaSize[a] /\ mem' = Stored(a, value)
    BY DEF Writes
<1> DEFINE c == [op |-> "write", form |-> "buffer", value |-> value]
<1>2. c \in Contents(a)!Call
    BY DEF Contents!Call, Contents!WriteCall
<1>3. Contents(a)!Admitted(c)
    BY <1>1 DEF Contents!Admitted, Contents!IsWrite
<1>4. Length(value) = Size[value] % 256
    BY CommunicationAssumption, Zenon DEF Length
<1>5. Contents(a)!Effect(c, Cell(a)) =
        [content |-> [body |-> value, length |-> Length(value)], fresh |-> TRUE]
    BY <1>4 DEF Contents!Effect, Contents!IsWrite, Contents!Encoded, Contents!EncodedBody,
           Contents!EncodedLength, Contents!EncodeFails, Contents!Wrap, Contents!ByteRange
<1> DEFINE cell == [value |-> value, length |-> Length(value), fresh |-> TRUE]
<1>6. mem'[a] = cell
  <2>1. mem' = [mem EXCEPT ![a] = cell]
    BY ONLY <1>1, Zenon DEF Stored
  <2> HIDE DEF cell
  <2>2. mem \in [Area -> [value : Value \cup {NoValue}, length : 0 .. 255, fresh : BOOLEAN]]
    BY ONLY mem \in Memory, Zenon DEF Memory
  <2> QED BY ONLY <2>1, <2>2, a \in Area, AtTheChangedArea, Zenon
<1>7. mem'[a].value = value /\ mem'[a].length = Length(value) /\ mem'[a].fresh = TRUE
    BY ONLY <1>6
<1>8. Cell(a)' = Contents(a)!Effect(c, Cell(a))
    BY <1>5, <1>7, Zenon DEF Cell
<1> QED BY <1>2, <1>3, <1>8 DEF ByOneCall

(* A Read that is not silent keeps the content.                            *)
LEMMA ReadIsCall ==
    ASSUME NEW a \in Area, mem \in Memory, Reads(a)
    PROVE  ByOneCall(a)
<1>1. PICK form \in {"message", "buffer"} :
        /\ form = "buffer" => AreaSize[a] <= BufferBytes
        /\ mem' = [mem EXCEPT ![a].fresh = FALSE]
    BY DEF Reads
<1> DEFINE c == [op |-> "read", form |-> form, silent |-> FALSE]
<1>2. c \in Contents(a)!Call
    BY DEF Contents!Call, Contents!ReadCall, Contents!Form
<1>3. Contents(a)!Admitted(c)
    BY <1>1 DEF Contents!Admitted, Contents!IsRead
<1>4. Contents(a)!Effect(c, Cell(a)) =
        [content |-> [body |-> mem[a].value, length |-> mem[a].length], fresh |-> FALSE]
    BY DEF Contents!Effect, Contents!IsWrite, Cell
<1>5. mem'[a] = [mem[a] EXCEPT !.fresh = FALSE]
    BY ONLY <1>1, mem \in Memory, a \in Area, Zenon DEF Memory
<1>6. mem[a] \in [value : Value \cup {NoValue}, length : 0 .. 255, fresh : BOOLEAN]
    BY ONLY mem \in Memory, a \in Area DEF Memory
<1>7. /\ mem'[a].value = mem[a].value
      /\ mem'[a].length = mem[a].length
      /\ mem'[a].fresh = FALSE
    BY ONLY <1>5, <1>6
<1>8. Cell(a)' = Contents(a)!Effect(c, Cell(a))
    BY <1>4, <1>7, Zenon DEF Cell
<1> QED BY <1>2, <1>3, <1>8 DEF ByOneCall

(* An area that another call was made on stays as it is.                   *)
LEMMA OtherAreaKept ==
    ASSUME NEW a \in Area, NEW b \in Area \ {a}, mem \in Memory, Writes(b) \/ Reads(b)
    PROVE  Cell(a)' = Cell(a)
<1>1. mem'[a] = mem[a]
    BY DEF Writes, Reads, Stored, Memory
<1> QED BY <1>1 DEF Cell

(* Each step makes at most one call on the areas.                          *)
LEMMA StepMakesOneCall ==
    ASSUME IInv, Next
    PROVE  mem' = mem \/ \E a \in Area : Writes(a) \/ Reads(a)
<1>1. ASSUME NEW a \in Area \cup {Invalid}, Consume(a)
      PROVE  mem' = mem \/ (a \in Area /\ Reads(a))
    BY <1>1 DEF Consume, Consumed, Readable, Reads
<1>2. ASSUME NEW a, NEW value \in Value, Fits(a, value), Write(a, value)
      PROVE  a \in Area /\ Writes(a)
    BY <1>2 DEF Fits, Write, Writes
<1>3. CASE Read
  <2>1. received \in Package \cup {Nobody}
    BY DEF IInv, TypeOK
  <2>2. received # Nobody => received.value \in Value
    BY <2>1, CommunicationAssumption
  <2> QED BY <1>2, <1>3, <2>2 DEF Read
<1>4. CASE SingleRequest \/ ContinuosLoad \/ WatcherReads
  <2>1. Single \in Area /\ Continuos \in Area /\ Watched \in Area
    BY CommunicationAssumption
  <2> QED BY <1>4, <2>1 DEF SingleRequest, ContinuosLoad, WatcherReads, Reads
<1>5. CASE SingleArea
    BY <1>1, <1>5 DEF SingleArea, IInv, TypeOK
<1>6. CASE Copy
  <2>1. index \in 1 .. MaxEntries
    BY <1>6, CommunicationAssumption DEF Copy, IInv, TypeOK
  <2>2. cp_list[index].area \in Area \cup {Invalid}
    BY <2>1 DEF IInv, TypeOK, PacketRequest
  <2> QED BY <1>1, <1>6, <2>2 DEF Copy
<1>7. ASSUME NEW post \in Posts, Post(post)
      PROVE  \E a \in Area : Writes(a)
  <2>1. post.value \in Value
    BY CommunicationAssumption
  <2> QED BY <1>2, <1>7, <2>1 DEF Post
<1>8. CASE \/ \E package \in Package \cup {Nobody} : IdleReceives(package)
           \/ IdleQuiet \/ IdlePollsSingle \/ ContinuosCheck \/ Skip
           \/ Transmit \/ ContinuosEnd \/ WatcherPolls
    BY <1>8 DEF IdleReceives, IdleQuiet, IdlePollsSingle, ContinuosCheck, Skip, Transmit,
                ContinuosEnd, WatcherPolls
<1> QED BY <1>3, <1>4, <1>5, <1>6, <1>7, <1>8 DEF Next, Process

(* The areas of this model are registers: what changes one is the effect   *)
(* of one admitted call, of the kind SharedMemory carries out.             *)
THEOREM AreasAreRegisters == Spec => AreasChangeByCalls
<1> DEFINE Changes == \A a \in Area : UNCHANGED Cell(a) \/ ByOneCall(a)
<1>1. IInv /\ [Next]_vars => [Changes]_vars
  <2> SUFFICES ASSUME IInv, Next, NEW a \in Area
               PROVE  UNCHANGED Cell(a) \/ ByOneCall(a)
    OBVIOUS
  <2>1. mem \in Memory
    BY DEF IInv, TypeOK, Memory
  <2>2. CASE mem' = mem
    BY <2>2 DEF Cell
  <2>3. ASSUME NEW b \in Area, Writes(b) \/ Reads(b)
        PROVE  UNCHANGED Cell(a) \/ ByOneCall(a)
    BY <2>1, <2>3, WriteIsCall, ReadIsCall, OtherAreaKept
  <2> QED BY <2>2, <2>3, StepMakesOneCall
<1>2. [][Changes]_vars <=> AreasChangeByCalls
    BY PTL DEF AreasChangeByCalls
<1> QED BY <1>1, <1>2, Invariant, PTL DEF Spec
=============================================================================
