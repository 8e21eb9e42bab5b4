------------------------ MODULE CommunicationProcess ------------------------
(***************************************************************************)
(* CommunicationProcess: the state machine that a UART or LoRa task runs   *)
(* over its driver and the shared memory.  It stores what other devices    *)
(* send, looks at single requests, and sends areas at intervals.  Around   *)
(* it are the users and tasks that write the areas, and one task that      *)
(* waits for the update flag of an area, as the network task does.         *)
(*                                                                         *)
(* The areas are atomic registers, the form in which SharedMemory is shown *)
(* to implement them; the length, which the manager looks up after the     *)
(* area's mutex was given, is a step of its own.  The driver delivers a    *)
(* package that Decode accepts, one that it does not, or nothing.          *)
(***************************************************************************)
EXTENDS Integers, Sequences

CONSTANTS
    Value,          \* what is written to areas
    Size,           \* the bytes of each
    Requested,      \* the area a value asks for, read as a packet request
    Lists,          \* the values that are a list of packets
    Entries,        \* the entries of each of these
    AreaSize,       \* the areas that are signed up, and their sizes
    Single,         \* _single_packet
    Continuos,      \* _continuos_packet
    Watched,        \* the area whose update flag another task waits for
    Invalid,        \* an area that is not signed up
    Package,        \* packages that may come in: address, area, value
    Posts,          \* what other tasks write: area, value
    Address,        \* _address
    NoValue,        \* no content
    MaxEntries,     \* max_count of packet_configs
    MaxElapsed,     \* bound: from here on, time is not counted
    MaxDelay        \* bound: the ticks a round may take

BROADCAST_ADDRESS == 0
BufferBytes == 256          \* sizeof(response_buffer)
TickMillis == 100           \* vTaskDelay after every round
TickMicros == TickMillis * 1000

Area == DOMAIN AreaSize

PacketRequest == [area : Area \cup {Invalid}, interval : Nat]

ASSUME CommunicationAssumption ==
    /\ {Single, Continuos, Watched} \subseteq Area
    /\ Single # Continuos /\ Watched \notin {Single, Continuos}
    /\ Invalid \notin Area
    /\ Size \in [Value -> Nat]
    /\ AreaSize \in [Area -> Nat]
    /\ Requested \in [Value -> Area \cup {Invalid}]
    /\ Package \subseteq [address : Nat, area : Area \cup {Invalid}, value : Value]
    /\ Posts \subseteq [area : Area \cup {Invalid}, value : Value]
    /\ Lists \subseteq Value
    /\ \A l \in Lists : Entries[l] \in Seq(PacketRequest) /\ Len(Entries[l]) <= MaxEntries
    /\ NoValue \notin Value
    /\ MaxEntries \in Nat \ {0}
    /\ MaxElapsed \in Nat
    /\ MaxDelay \in Nat \ {0}

(* The area of the list has 272 bytes: no Read into response_buffer is let *)
(* through to it.                                                          *)
ASSUME ListAssumption == AreaSize[Continuos] > BufferBytes

VARIABLES
    state,          \* communication_state, and how far its handler is
    received,       \* the package in _buffer_in
    request,        \* the area the single request asks for
    mem,            \* the areas: content, length and update flag
    cp_list,        \* _cp_list.packet_configs
    count,          \* _cp_list.packet_configs_count
    elapsed,        \* the ticks since each last_transmission
    index,          \* the loop's i
    buffer,         \* response_buffer, if the Read succeeded
    sent,           \* external: what the driver's Write was last given
    copied,         \* history: what the area held when it was copied
    watcher,        \* where the task that waits for Watched is
    known,          \* what this task last read
    taken           \* history: a Read of this process took its flag away

lists   == <<cp_list, count, elapsed>>
sending == <<index, buffer, sent, copied>>
others  == <<watcher, known, taken>>
vars    == <<state, received, request, mem, lists, sending, others>>

Nobody == [address |-> -1, area |-> Invalid, value |-> NoValue]   \* not decoded
Unsent == [area |-> Invalid, value |-> NoValue, length |-> 0]
ZeroEntry == [area |-> Invalid, interval |-> 0]

Init ==
    /\ state = "IDLE"
    /\ received = Nobody
    /\ request = Invalid
    /\ mem = [a \in Area |-> [value |-> NoValue, length |-> 0, fresh |-> FALSE]]
    /\ cp_list = [i \in 1 .. MaxEntries |-> ZeroEntry]
    /\ count = 0
    /\ elapsed = [i \in 1 .. MaxEntries |-> MaxElapsed]
    /\ index = 1
    /\ buffer = NoValue
    /\ sent = Unsent
    /\ copied = Unsent
    /\ watcher = "poll"
    /\ known = NoValue
    /\ taken = FALSE

-----------------------------------------------------------------------------
(* The manager and the areas.                                              *)

(* Mutant: a length as wide as it needs to be.                             *)
FullLength(value) == IF value = NoValue THEN 0 ELSE Size[value]

Length(value) == IF value = NoValue THEN 0 ELSE Size[value] % 256

(* Mutant: a Write leaves the flag as it is.                               *)
StoredQuietly(area, value) ==
    [mem EXCEPT ![area] = [value |-> value, length |-> Length(value),
                           fresh |-> mem[area].fresh]]

Stored(area, value) ==
    [mem EXCEPT ![area] = [value |-> value, length |-> Length(value), fresh |-> TRUE]]

(* A Write that the manager and the area let through, and what it means    *)
(* for the flag that was taken.                                            *)
Fits(area, value) == area \in Area /\ Size[value] <= AreaSize[area]

Write(area, value) ==
    /\ mem' = Stored(area, value)
    /\ taken' = (taken /\ area # Watched)

(* A Read into a buffer; the area must not be larger than that.            *)
Readable(area) == area \in Area /\ AreaSize[area] <= BufferBytes

(* Length 0 is an error to memcpy_s.                                       *)
Delivers(area) == Readable(area) /\ mem[area].length > 0

(* Mutant: the size of the area is not looked at.                          *)
ConsumedUnsized(area) ==
    IF area \in Area THEN [mem EXCEPT ![area].fresh = FALSE] ELSE mem

(* No Read of this process is silent: the flag goes down.                  *)
Consumed(area) ==
    IF Readable(area) THEN [mem EXCEPT ![area].fresh = FALSE] ELSE mem

Consume(area) ==
    /\ mem' = Consumed(area)
    /\ taken' = (taken \/ (area = Watched /\ mem[area].fresh /\ ~mem'[area].fresh))

-----------------------------------------------------------------------------
(* A round ends with vTaskDelay.                                           *)
Later(ticks) ==
    [i \in 1 .. MaxEntries |->
        IF elapsed[i] + ticks < MaxElapsed THEN elapsed[i] + ticks ELSE MaxElapsed]

EndRound(next_state) ==
    /\ state' = next_state
    /\ \E ticks \in 1 .. MaxDelay : elapsed' = Later(ticks)

-----------------------------------------------------------------------------
(* Idle                                                                    *)

IdleReceives(package) ==
    /\ state = "IDLE"
    /\ EndRound("READ")
    /\ received' = package
    /\ UNCHANGED <<request, mem, cp_list, count, sending, others>>

IdleQuiet ==
    /\ state = "IDLE"
    /\ state' = "IDLE_SINGLE"
    /\ UNCHANGED <<received, request, mem, lists, sending, others>>

(* Mutant: the list goes first.                                            *)
IdlePollsListFirst ==
    /\ state = "IDLE_SINGLE"
    /\ EndRound(IF mem[Single].fresh /\ count = 0 THEN "SINGLE" ELSE "CONTINUOS")
    /\ UNCHANGED <<received, request, mem, cp_list, count, sending, others>>

IdlePollsSingle ==
    /\ state = "IDLE_SINGLE"
    /\ EndRound(IF mem[Single].fresh THEN "SINGLE" ELSE "CONTINUOS")
    /\ UNCHANGED <<received, request, mem, cp_list, count, sending, others>>

-----------------------------------------------------------------------------
(* Read: CheckAddressPackage returns an error code as a bool, so that it   *)
(* is FALSE for the addresses that match.                                  *)

(* Mutant: the error code is taken for what the name says.                 *)
CheckAddressPackageByName(address) == address \in {Address, BROADCAST_ADDRESS}

CheckAddressPackage(address) == address \notin {Address, BROADCAST_ADDRESS}

Read ==
    /\ state = "READ"
    /\ EndRound("IDLE")
    /\ received' = Nobody
    /\ IF /\ received # Nobody
          /\ ~CheckAddressPackage(received.address)
          /\ Size[received.value] > 0
          /\ Fits(received.area, received.value)
       THEN Write(received.area, received.value)
       ELSE UNCHANGED <<mem, taken>>
    /\ UNCHANGED <<request, cp_list, count, sending, watcher, known>>

-----------------------------------------------------------------------------
(* Single: the request is read, and the area it asks for; the package made *)
(* of it is not sent.                                                      *)

SingleRequest ==
    /\ state = "SINGLE"
    /\ state' = "SINGLE_AREA"
    /\ request' = IF mem[Single].value = NoValue THEN Invalid
                                                 ELSE Requested[mem[Single].value]
    /\ mem' = [mem EXCEPT ![Single].fresh = FALSE]
    /\ UNCHANGED <<received, lists, sending, others>>

SingleArea ==
    /\ state = "SINGLE_AREA"
    /\ EndRound("IDLE")
    /\ Consume(request)
    /\ request' = Invalid
    /\ UNCHANGED <<received, cp_list, count, sending, watcher, known>>

-----------------------------------------------------------------------------
(* Continuos                                                               *)

ContinuosCheck ==
    /\ state = "CONTINUOS"
    /\ state' = IF mem[Continuos].fresh THEN "LIST" ELSE "ENTRY"
    /\ index' = 1
    /\ UNCHANGED <<received, request, mem, lists, buffer, sent, copied, others>>

(* A list of 256 bytes or more is cut off by the 8-bit length: nanopb      *)
(* (external) then has counted its first entry and not decoded it, so that *)
(* an old one stays, or is given no bytes at all, and then counts nothing, *)
(* as it does in what is no list.                                          *)
Loads(value) == value \in Lists /\ Size[value] < 256

Loaded(value) ==
    [i \in 1 .. MaxEntries |->
        IF Loads(value) /\ i <= Len(Entries[value]) THEN Entries[value][i] ELSE cp_list[i]]

LoadedCount(value) ==
    IF Loads(value) THEN Len(Entries[value])
    ELSE IF value \in Lists /\ Length(value) > 0 THEN 1 ELSE 0

(* An entry's last_transmission may be now, or any time from which enough  *)
(* has elapsed: long ago, or in the future, as the difference is unsigned. *)
ContinuosLoad ==
    /\ state = "LIST"
    /\ state' = "ENTRY"
    /\ LET value == mem[Continuos].value IN
        /\ cp_list' = Loaded(value)
        /\ count' = LoadedCount(value)
        /\ elapsed' \in {[i \in 1 .. MaxEntries |->
                            IF Loads(value) /\ i <= Len(Entries[value]) THEN ticks
                                                                        ELSE elapsed[i]]
                            : ticks \in {0, MaxElapsed}}
    /\ mem' = [mem EXCEPT ![Continuos].fresh = FALSE]
    /\ UNCHANGED <<received, request, sending, others>>

(* Microseconds on the left.                                               *)
Due(i) == elapsed[i] * TickMicros > cp_list[i].interval

Skip ==
    /\ state = "ENTRY"
    /\ index <= count
    /\ ~Due(index)
    /\ index' = index + 1
    /\ UNCHANGED <<state, received, request, mem, lists, buffer, sent, copied, others>>

(* What a package about an area should say: its bytes and their number, or *)
(* nothing if it cannot be read.                                           *)
Held(area) ==
    IF Delivers(area)
    THEN [area |-> area, value |-> mem[area].value, length |-> mem[area].length]
    ELSE [area |-> area, value |-> NoValue, length |-> 0]

(* Mutant: nothing is copied, what is in the buffer is sent.               *)
CopyNothing ==
    /\ state = "ENTRY"
    /\ index <= count
    /\ Due(index)
    /\ state' = "LENGTH"
    /\ Consume(cp_list[index].area)
    /\ copied' = Held(cp_list[index].area)
    /\ UNCHANGED <<received, request, lists, index, buffer, sent, watcher, known>>

Copy ==
    /\ state = "ENTRY"
    /\ index <= count
    /\ Due(index)
    /\ state' = "LENGTH"
    /\ Consume(cp_list[index].area)
    /\ buffer' = IF Delivers(cp_list[index].area) THEN mem[cp_list[index].area].value
                                                  ELSE NoValue
    /\ copied' = Held(cp_list[index].area)
    /\ UNCHANGED <<received, request, lists, index, sent, watcher, known>>

(* Mutant: the time of every entry is set.                                 *)
TransmitResettingAll ==
    /\ state = "LENGTH"
    /\ state' = "ENTRY"
    /\ sent' = [area |-> cp_list[index].area, value |-> buffer,
                length |-> IF buffer = NoValue THEN 0 ELSE mem[cp_list[index].area].length]
    /\ elapsed' = [i \in 1 .. MaxEntries |-> 0]
    /\ index' = index + 1
    /\ buffer' = NoValue
    /\ copied' = Unsent
    /\ UNCHANGED <<received, request, mem, cp_list, count, others>>

(* Mutant: the loop stays at the entry until that is no longer due.        *)
TransmitUntilNotDue ==
    /\ state = "LENGTH"
    /\ state' = "ENTRY"
    /\ sent' = [area |-> cp_list[index].area, value |-> buffer,
                length |-> IF buffer = NoValue THEN 0 ELSE mem[cp_list[index].area].length]
    /\ elapsed' = [elapsed EXCEPT ![index] = 0]
    /\ buffer' = NoValue
    /\ copied' = Unsent
    /\ UNCHANGED <<received, request, mem, cp_list, count, index, others>>

(* The length is that of whatever the area holds by now; a Read that       *)
(* failed has none, and an empty package is sent.                          *)
Transmit ==
    /\ state = "LENGTH"
    /\ state' = "ENTRY"
    /\ sent' = [area |-> cp_list[index].area, value |-> buffer,
                length |-> IF buffer = NoValue THEN 0 ELSE mem[cp_list[index].area].length]
    /\ elapsed' = [elapsed EXCEPT ![index] = 0]
    /\ index' = index + 1
    /\ buffer' = NoValue
    /\ copied' = Unsent
    /\ UNCHANGED <<received, request, mem, cp_list, count, others>>

ContinuosEnd ==
    /\ state = "ENTRY"
    /\ index > count
    /\ EndRound("IDLE")
    /\ sent' = Unsent
    /\ UNCHANGED <<received, request, mem, cp_list, count, index, buffer, copied, others>>

-----------------------------------------------------------------------------
Process ==
    \/ \E package \in Package \cup {Nobody} : IdleReceives(package)
    \/ IdleQuiet
    \/ IdlePollsSingle
    \/ Read
    \/ SingleRequest
    \/ SingleArea
    \/ ContinuosCheck
    \/ ContinuosLoad
    \/ Skip
    \/ Copy
    \/ Transmit
    \/ ContinuosEnd

(* The other tasks.                                                        *)

Post(post) ==
    /\ Fits(post.area, post.value)
    /\ mem[post.area].value # post.value
    /\ Write(post.area, post.value)
    /\ UNCHANGED <<state, received, request, lists, sending, watcher, known>>

WatcherPolls ==
    /\ watcher = "poll"
    /\ mem[Watched].fresh
    /\ watcher' = "read"
    /\ UNCHANGED <<state, received, request, mem, lists, sending, known, taken>>

WatcherReads ==
    /\ watcher = "read"
    /\ watcher' = "poll"
    /\ known' = mem[Watched].value
    /\ mem' = [mem EXCEPT ![Watched].fresh = FALSE]
    /\ UNCHANGED <<state, received, request, lists, sending, taken>>

Next == Process \/ (\E post \in Posts : Post(post)) \/ WatcherPolls \/ WatcherReads

Spec == Init /\ [][Next]_vars

(* The process sleeps between rounds and goes on after each; the other     *)
(* devices leave it a quiet moment again and again.  Nothing is assumed of *)
(* those who write the areas.                                              *)
Fairness == WF_vars(Process) /\ SF_vars(IdleQuiet)

FairSpec == Spec /\ Fairness

-----------------------------------------------------------------------------
TypeOK ==
    /\ state \in {"IDLE", "IDLE_SINGLE", "READ", "SINGLE", "SINGLE_AREA", "CONTINUOS",
                  "LIST", "ENTRY", "LENGTH"}
    /\ received \in Package \cup {Nobody}
    /\ request \in Area \cup {Invalid}
    /\ mem \in [Area -> [value : Value \cup {NoValue}, length : 0 .. 255, fresh : BOOLEAN]]
    /\ cp_list \in [1 .. MaxEntries -> PacketRequest]
    /\ count \in 0 .. MaxEntries
    /\ elapsed \in [1 .. MaxEntries -> 0 .. MaxElapsed]
    /\ index \in 1 .. MaxEntries + 1
    /\ {buffer, known} \subseteq Value \cup {NoValue}
    /\ watcher \in {"poll", "read"}
    /\ taken \in BOOLEAN

(* A package changes an area exactly if it is for this device or for all,  *)
(* has a payload, and fits; it is then what the area holds.                *)
ForThisDevice(package) ==
    /\ package.address \in {Address, BROADCAST_ADDRESS}
    /\ Size[package.value] > 0
    /\ package.area \in Area /\ Size[package.value] <= AreaSize[package.area]

StoredIfAddressed ==
    [][state = "READ" /\ state' = "IDLE" =>
        IF (received # Nobody) /\ ForThisDevice(received)
        THEN mem'[received.area].value = received.value /\ mem'[received.area].fresh
        ELSE mem' = mem]_vars

(* Whoever waits for an area's flag sees every update, unless a request or *)
(* an entry of the list asks for that area: then this process takes the    *)
(* flag away, and only the next update ends it.                            *)
UpdateSeenUnlessTaken ==
    known # mem[Watched].value => mem[Watched].fresh \/ watcher = "read" \/ taken

(* The list is the one in its area: no update is overlooked, though any    *)
(* entry may ask for the area of the list itself.                          *)
ListFollowsArea ==
    ~mem[Continuos].fresh /\ Loads(mem[Continuos].value) =>
        /\ count = Len(Entries[mem[Continuos].value])
        /\ \A i \in 1 .. count : cp_list[i] = Entries[mem[Continuos].value][i]

(* What is sent for an entry is what its area held when it was copied,     *)
(* bytes and length; or, at worst and only if the area holds other bytes   *)
(* by then, those that were copied with the length of the others.          *)
SentIsHeld ==
    [][state = "LENGTH" /\ state' = "ENTRY" =>
        \/ sent' = copied
        \/ /\ copied.value # NoValue /\ mem[copied.area].value # copied.value
           /\ sent' = [copied EXCEPT !.length = mem[copied.area].length]]_vars

(* Every step of the process is one towards the end of its round, whatever *)
(* the others do to the list and the areas meanwhile: the steps a round    *)
(* has left, which are bounded by the room for entries, become fewer.      *)
StepsLeft ==
    CASE state = "IDLE"                      -> 2 * MaxEntries + 5
      [] state = "IDLE_SINGLE"               -> 2 * MaxEntries + 4
      [] state = "CONTINUOS"                 -> 2 * MaxEntries + 3
      [] state = "LIST"                      -> 2 * MaxEntries + 2
      [] state = "ENTRY"                     -> 2 * (MaxEntries + 1 - index) + 1
      [] state = "LENGTH"                    -> 2 * (MaxEntries + 1 - index)
      [] state = "SINGLE"                    -> 2
      [] state \in {"READ", "SINGLE_AREA"}   -> 1

EveryRoundEnds ==
    [][\/ UNCHANGED <<state, index>>
       \/ state' = "IDLE"
       \/ StepsLeft' \in 1 .. StepsLeft - 1]_vars

(* A single request does not stay: the process gets to it.                 *)
RequestTaken == mem[Single].fresh ~> ~mem[Single].fresh

(* An entry that stays on the list is sent again and again, as long as     *)
(* single requests and new lists do not keep coming.                       *)
Settled == ~mem[Single].fresh /\ ~mem[Continuos].fresh

EntriesSent ==
    \A i \in 1 .. MaxEntries :
        <>[](i <= count /\ Settled) => []<>(state = "LENGTH" /\ index = i)

(* titanium.proto:58: packet_interval is "The time interval (in            *)
(* milliseconds) between the packets."                                     *)
IntervalKept ==
    [][state = "LENGTH" /\ state' = "ENTRY" /\ elapsed[index] < MaxElapsed =>
        elapsed[index] * TickMillis >= cp_list[index].interval]_vars
=============================================================================
