# Titanium OS in TLA+

Titanium OS (`src/lib/TitaniumOS`) is the firmware of a sensor and gateway
board built on ESP-IDF and FreeRTOS: a device that takes its configuration over
HTTP, reports over MQTT, and exchanges frames with other devices over UART and
LoRa. This directory holds TLA+ modules translated from that code, the TLC
configurations that check them on small instances, and proofs that TLAPS checks
for every instance. `PROJECT.json` gives, for every definition, the source lines
it models, and lists the hazards the properties are for.

Paths below are relative to `src/lib/TitaniumOS`.

## 1. The system

### How it runs

`src/src/main.cpp` builds an `Application`, which signs up the shared memory
areas and creates one FreeRTOS task per enabled process. Every task is pinned to
core 0 (`SystemProcess/Template/ProcessTemplate.h:46-53`) and scheduled
by preemption, with priority 4 for the network, 2 for HTTP, 5 for UART, LoRa and
MQTT. Every `Execute` is an endless loop that polls and then sleeps
(`vTaskDelay`). The ESP-IDF event loop and the HTTP server have tasks of their
own. Tasks never call each other. They meet in three places:

- **shared memory areas**, one message per area with an update flag;
- **the network process's members**, which its task and the ESP-IDF event task
  both use without a lock;
- **the hardware**, which goes on acting while a driver looks at it register by
  register.

### Components

| Component | State | Operations | Meets |
|---|---|---|---|
| Shared memory area (`HAL/memory/SharedMemory.h`) | buffer, update flag, written length, mutex | `Write`, `Read` (message and raw), `HasUpdate`, `GetWrittenBytes` | every task |
| Shared memory manager (`HAL/memory/SharedMemoryManager.*`) | table of areas | `SignUpSharedArea`, guarded `Write` and `Read`, `IsAreaDataUpdated`, `GetNumAreas` | every task |
| Network process | recorded status, `_need_update_network_data`, credentials | `Execute`, `SetStationMode`, `SetCredentials`, event handler | Wi-Fi driver, areas 1 and 2 |
| HTTP server process | server status, the server | `Execute`, start, stop, GET and POST of areas | areas, through the manager |
| MQTT client process | client status, a started flag, the last status seen | `Execute`, start, stop, publish, subscribe | areas, client library |
| Communication process | state machine, lists of packets, buffers | `Idle`, `Read`, `Single`, `Continuos` | one driver, two areas |
| Titanium protocol | none | `Encode`, `Decode`, their field readers and validators | communication process |
| LoRa driver (`Drivers/LoRa`) | `_reciever_mode` | constructor, `Read`, `Write` | SX127x over SPI |
| UART driver (`Drivers/UART`) | none of its own | constructor, `Read`, `Write` | ESP-IDF UART ring buffer and FIFO |
| SPI manager | the bus | `Initialize`, `DeviceTransmit`, which aborts the program when it fails | LoRa driver |
| GPIO manager | one level per pin, behind a mutex | `Initialize`, `WriteGPIO`, `ReadGPIO` | LoRa driver, SPI manager |
| Application | which processes exist | `InitializeHAL`, `Enable...` | the manager, FreeRTOS |
| Time, display, containers, request helpers | small or none | - | - |

### What is hard about it

- *Interleaving.* Area members are read outside the mutex in three places (the
  flag poll, the end of `Write`, the length look-up of the manager's `Read`);
  the network status is written by one task and encoded by another with no lock
  at all; the transceiver receives between any two SPI transactions.
- *Ordering.* Flags are cleared after the work they stand for, or before it,
  and it matters which.
- *Stale state.* Drivers and clients keep a flag that mirrors a state elsewhere
  (`_reciever_mode`, the client status, the server status).
- *Partial failure.* Encoding and decoding may fail after the area's flag was
  already changed; the server may not start.
- *Restarts.* A failed SPI transaction aborts the program in the midst of
  anything; memory is lost, and the transceiver goes on as it was.
- *A stream taken for packets.* The UART hands over pieces that begin and end
  anywhere; a flush throws a part of them away.
- *Waiting for ever.* The area's mutex and the LoRa transmission are waited for
  without a limit.
- *Widths.* Lengths pass through 8-bit and 16-bit variables; binary messages
  pass through C strings.

### What makes each component correct

- *Area.* One caller at a time; bytes and length of one message; no update
  forgotten; every call returns: an atomic register with an update mark.
- *Network, HTTP, MQTT.* The status in the area is the one the radio has; the
  client and the server follow the area; credentials that were posted get to
  the station.
- *LoRa driver.* What goes on the air is what was written; what is delivered is
  what was heard, sound and once; every call returns; the radio listens when
  the driver thinks that it does; all of it after a restart as before.
- *UART driver.* However its stream is cut, no part of it is taken for a frame
  that was not sent, and a frame that comes through whole is accepted.
- *Communication process.* What is for this device is stored, the list is the
  one in its area, every entry and every request gets its turn, what is sent is
  what its area holds, and other readers of the areas are not robbed of updates.
- *Protocol.* `Decode` accepts what was sent and nothing else, and a frame that
  arrives unharmed is accepted whatever came before it.
- *Area table, requests, publishing.* Areas exist before the tasks that use
  them, loops over areas meet every one of them, a request is answered for what
  was read or stored, and the broker ends up with what the areas hold.

## 2. The modules

    AreaContents          what bodies, lengths, encodings an area can hold
      SharedMemory        one area, one access to a member per step
        SharedMemory_proofs
        MCSharedMemory
    AreaRegister          the promise: an atomic register with an update mark
                          (SharedMemory has it as INSTANCE, with a refinement
                          mapping)

    NetworkProcess        Wi-Fi driver, event handler, network task, two areas
      NetworkStatus       composes it with the two below, through the areas
        HTTPServerProcess   (INSTANCE)
        MQTTClientProcess   (INSTANCE)
        NetworkStatus_proofs
        MCNetworkStatus

    LoRaDriver            driver and transceiver, one register access per step
      LoRaDriver_proofs
      MCLoRaDriver

    TitaniumProtocol      Encode and Decode, as operators on buffers
      TitaniumProtocol_proofs
      TitaniumLink        two devices, a receive buffer never cleared, the air
                          or a UART between them
        UARTDriver          (INSTANCE)
        TitaniumLink_proofs   (on TitaniumProtocol_proofs)
        MCTitaniumLink

    CommunicationProcess  the state machine, over an abstract driver and areas
      CommunicationProcess_proofs
      MCCommunicationProcess

    AreaTable             main, the sign-up of areas, the creation of tasks
      AreaTable_proofs
      AreaRequests        GET and POST of any area, publishing, from power-on
        AreaRequests_proofs   (on AreaTable_proofs)
        MCAreaRequests

### SharedMemory

`data`, `has_update`, `written_bytes` and `mutex` are the members of
`SharedMemory`; `pc`, `call`, `copy` and `answer` belong to the calling tasks.
A call starts in the manager (`Invoke`: the guards of
`SharedMemoryManager::Write` and `Read`, in `Admitted`), waits for the mutex
(`Take`), and makes its accesses one at a time, in the code's order:

| Code | Actions |
|---|---|
| `Write`, `SharedMemory.h` | `Clear`, `Encode`, `RaiseFlag`, `SetLength`, `GiveAfterWrite`, and `Result` for the last line, outside the mutex |
| `Read`, `SharedMemory.h` | `Decode`, `LowerFlag`, `GiveAfterRead`, then `Result` for the manager's `GetWrittenBytes`, outside the mutex |
| `HasUpdate` | `Poll`, outside the mutex |

`AreaContents` abstracts bytes to the value they encode, to `Zeroed`, or to
`Partial` (an encoding cut off), and says what the length byte becomes
(`Size % 256`, and 0 after a failure). `Delivers` says which calls get an
answer out of which content. The message and the raw overload differ in these
operators only.

`AreaRegister` has one `content`, one mark and three phases per task. A `Write`
takes effect in the code at `Clear`: from there the holder of the mutex alone
decides what the area will hold, and whoever else looks at it has to wait. A
`Read` takes effect at `Decode`. The mapping (`AbsContent`, `AbsFresh`,
`AbsPhase`) therefore shows what the holder is about to complete, not the
half-finished bytes.

### NetworkProcess, HTTPServerProcess, MQTTClientProcess, NetworkStatus

`SharedMemory` licenses the simplification here: the two areas are atomic
registers (`cred`, `info`, a value and a mark each). What stays concurrent is
everything else:

- the event handler records a status (`SetAPConnection`, `SetSTAConnection`) in
  one step and raises `need_update` in the next, so that the network task can
  come in between;
- the task reads the status (the encoding), field by field, writes the area, and
  clears `need_update`, each in a step;
- credentials are polled, read, and configured in steps of their own;
- the HTTP task reads the area and then decides; the MQTT task reads, publishes
  by the status of its client from the round before, and then decides.

The Wi-Fi driver is external: links go up and down as they like (at most
`MaxEvents` times) and post the events the handler knows, in order. Posted
credentials stand for the POST handler (at most `MaxPosts`). The MQTT client
library is external too; what the broker holds is `Payload(status)`: the
library is given length 0, so it takes the message for a string and stops at
its first zero byte.

### LoRaDriver

The driver is a program counter, `reciever_mode` and local variables. The
transceiver is the registers the driver uses (`op_mode`, `irq`, `fifo`,
`rx_next`, `rx_current`, and the configuration, `registers`) and acts on its
own: it hears packets, sound or not, while in `RX_CONTINUOUS` and finishes
transmissions while in `TX`. The FIFO has two slots, one per value of the upper
bit of an address: enough for a packet to be in the frame's place or beside it.

The constructor (`Construct`) is one step per register: `Reset`,
`ValidateVersion`, `SetSleepMode`, the two base addresses, LNA, modem, power,
`SetIdleMode`, frequency, CRC. After a power-on or a reset the configuration
registers hold any member of `PowerOn`; what they have to hold is the driver's
business. It matters for what the transceiver does: packets and frames go to the
slots of the base addresses (`RxBase`, `TxBase`: both 0, so frames and packets
share the FIFO), others hear it and it hears others on the region's channel only
(`Tuned`: `Frf` is the code's shift and division, without leaving 32 bits), and
it flags a CRC error only if it was told to check (`ChecksCRC`).

`Restart` is a failed SPI transaction: `SPIManager::DeviceTransmit` ends in
`ESP_ERROR_CHECK`, which aborts the program at any step. The driver's memory is
gone; the transceiver keeps its mode, flags, FIFO and configuration, may end a
transmission or hear a packet, and is reset by the next constructor.

`on_air`, `heard` and `spoilt` are history variables, which no action's guard
reads. `spoilt` marks the races the code leaves open, so that the properties
can say what is true outside them: a packet that arrives between
`isDataInReceiver` and `SetIdleMode` (it may take the place of the one that was
announced, and one that comes after the flags were cleared announces itself
again), and a frame loaded over a packet nobody had read.

### TitaniumProtocol, TitaniumLink

`Encode` and `Decode` are operators on buffers, field by field and in the code's
order. A checksum is ideal: its four cells carry the cells they were computed
from, so that two different bodies never have the same one. What the code gets
wrong by width or by return value is kept:

- the remaining count is signed, is passed as `uint16_t`, and is compared with
  0, so that a field is refused only when exactly nothing is left (`Exhausted`);
  below zero the readers go on, into whatever the buffer holds;
- the readers return error codes that the validators do not look for, those of
  `GetUUID`, `GetMemoryArea` and `GetAddress`: when exactly nothing is left for
  the area or the address, the code takes its place (`ShortArea`, 252, and
  `ShortAddress`, 65531). A frame whose uuid or address looks like `-1` is
  refused (`Sendable`).

`TitaniumLink` puts one of two drivers between the two, chosen at the start as
by `InstallDriver`. The receive buffer is cleared once and never again. A package
is sent once, because its uuid is drawn anew for every package.

- With the LoRa driver a `Read` delivers one message (`Air`). The air loses
  messages (by not delivering them), cuts them off, alters a byte, and puts noise
  before them or in their place.
- With the UART driver (module `UARTDriver`) there are no messages, only a
  stream: frames come in over the line, whole or in parts (`Line`); `Read` takes
  what is in the ring, be it half a frame or two (`ReadStream`); a `Write` of
  this device, which comes between two `Read`s, ends in `uart_flush` and empties
  the ring, though the rest of a frame may still be on the line (`WriteStream`);
  a FIFO that overflows leaves a hole in the stream (`Arrive`).

### CommunicationProcess

One action per state handler, and more where the handler looks at shared state
twice: `IdleReceives`, `IdleQuiet` then `IdlePollsSingle` for `Idle`; `Read`;
`SingleRequest` then `SingleArea` for `Single`; `ContinuosCheck`,
`ContinuosLoad`, then `Skip` or `Copy` and `Transmit` for each entry, and
`ContinuosEnd`. `Copy` is the copy under the area's mutex, `Transmit` begins
with the manager's look at the length, outside it. The last action of a round
lets time pass (`EndRound`), in ticks of the 100 ms that the task sleeps.

The areas are atomic registers, as `SharedMemory` licenses. The driver delivers
a package that `Decode` accepts, one that it does not, or nothing; `LoRaDriver`
and `TitaniumLink` are what stands behind that. Around the process, users write
areas (`Post`), and one task waits for the update flag of an area and then reads
it, as the network task does for the credentials (`WatcherPolls`,
`WatcherReads`). `taken` and `copied` are history variables: whether the process
has taken the flag away, and what the area held at the last `Copy`, with its
length then.

Three things the code does, and the model with it:

- A single request is read, and the area it asks for, and the flags of both go
  down; the package is made and dropped. Nothing is sent for it.
- A list of more than 256 bytes, of the 272 that the area allows, is cut off by
  the 8-bit length: its first entry is counted and not decoded, and an entry of
  the list before it is sent in its place. One of exactly 256 bytes has length
  0, which decodes to no entry (`LoadedCount`).
- A `Read` of any area larger than the 256 bytes of `response_buffer` fails, so
  that an entry that asks for the area of the list (272) sends an empty package.

### AreaTable, AreaRequests

`AreaTable` is the start of the device. `main` enables one process after the
other (`Boot`); for each it signs up areas (`SignUpSharedArea`, and `CountArea`
for `_num_areas++`, since tasks run in between) and creates a task
(`InitializeProcess`), which may fail without being noticed. `InitializeHAL`
comes first: the GPIO manager cannot fail, the SPI manager can, and without it
the LoRa process is left out (`Skip`). `mem` is the table: its domain is the
entries that are not `nullptr`.

`AreaRequests` adds what runs from then on. An area holds the first so many
bytes of a value; `TextSize` says where its first zero is, which is where
`strlen` ends a posted body and the client library ends what is published. GET
copies and then looks at the length (`Get`, `GetLength`); POST writes and then
looks at the length (`Post`, `PostAnswer`); publishing copies, looks at the
length, and goes on to the next area. Other tasks `Store` in between. `seen` is a
history variable: what the area of the request held right after the manager's
call. A reply is one record; the `OK` that the code sends after the data of a
GET, as a second piece of the response, is part of it.

Two things the code does, and the model with it:

- Areas are numbered from 1 and the loop stops below their count, so that the
  last area is never published: the LoRa list, or the UART list on a device
  without LoRa. `Published` speaks of the areas before the last.
- A POST answered with `NOK` may still have emptied the area: a body that
  begins with a zero, or one of 256 bytes, leaves length 0 behind.

## 3. What is checked

| Run | Question | Answer |
|---|---|---|
| `area` | Is the area an atomic register, whole, exclusive, losing no update, answering every call? | yes: 56 018 states |
| `area_answer` | Does `Write` answer for its own bytes? | no |
| `network` | Does what travels through the two areas arrive, whatever the interleaving? | yes, but for a status that an event overtakes (`overtaken`): 92 228 states |
| `network_published` | Does the area hold the recorded status once nothing is pending? | no |
| `network_recorded` | Is the station's recorded status that of its link? | no |
| `lora` | Is what is sent what was written, what is delivered what was heard, and what `Write` waits for on its way? Does every call return? | yes, outside the two marked races, restarts included: 64 148 states |
| `lora_deaf` | Does `Read` look for data with the receiver on? | no |
| `link` | Is what `Decode` accepts what was sent, and what arrives unharmed accepted, over LoRa and over UART? | yes, but for an error code in the place of the area or the address at two lengths: 1 096 528 states |
| `link_cut` | Is what `Decode` accepts among the bytes just received? | no |
| `communication` | Is what arrives stored, what is listed sent, every update seen, and does each round end? | yes, but for flags marked `taken`, and for a length that may be that of a later value: 87 315 states |
| `communication_interval` | Is an entry's interval kept? | no |
| `requests` | Do tasks find their areas, are requests answered for what was read or stored, and does the broker get it? | yes, but for the last area, and for a length that may be that of a later value: 47 911 states |

### The six disagreements

1. **`Write` answers for another task** (`area_answer`). `SharedMemory::Write`
   gives the mutex and only then tests `_written_bytes`. Another task's `Write`
   in between changes the answer: a stored message is reported as failed, or a
   failed one as stored. The manager's documentation promises the result of the
   caller's own write.
2. **A status may never be published** (`network_published`).
   `NetworkProcess::Execute` clears `_need_update_network_data` after its
   `Write`; an event that the handler recorded in between is forgotten until the
   next one. `PublishedUnlessOvertaken`, in the passing run, shows that nothing
   else leaves the area behind: `overtaken` goes up only when the handler changes
   a field that the `Write` under way has read already, and not for a `Write` that
   is skipped, torn or wrong.
3. **A lost station link is recorded as connected** (`network_recorded`). On
   `WIFI_EVENT_STA_DISCONNECTED` the handler calls `SetSTAConnection` with
   `NETWORK_STATUS_CONNECTED`. The access point's status is right
   (`AccessPointRecorded`).
4. **The radio goes deaf after a delivery** (`lora_deaf`). `ReceivePacket`
   calls `SetIdleMode`, which leaves `_reciever_mode` up; `SetReceiverMode`
   then does nothing until a `Write` lowers the flag. `ListensAfterWrite` shows
   that a `Write` always ends it.
5. **A message is accepted a second time** (`link_cut`). The buffer is not
   cleared and the remaining count wraps, so that a single byte equal to
   `START`, laid over the first byte of the message before it, makes `Decode`
   accept that message once more. `Decode` documents the size it is given as
   the size of the message. What is accepted so has the payload of a package
   that was sent (`AcceptedWasSent`), and its area and address too, but at two
   lengths: when the message has exactly 7 bytes from `START` on, over leftovers
   of the same frame, `GetMemoryArea` finds nothing left, and its error code, 252,
   becomes the area; with 9 bytes `GetAddress` has 65531 become the address.
   (The proof found this: an earlier form of the property, without the two
   lengths, was not provable, and TLC confirmed the first of them.)
6. **The interval is a thousand times too short** (`communication_interval`).
   `Continuos` compares microseconds (`esp_timer_get_time`) with
   `packet_interval`, which `titanium.proto` gives in milliseconds.

### Bounds, and why they are enough

- *area*: two tasks, each free to make any call in any order for ever (no bound
  on the length of a behaviour); four values, one for each thing a message can
  be: it fits, its length is lost in a byte (256), it does not fit, it is no
  message. The area's size is the broker area's, the first whose messages pass
  255 bytes. Two tasks are enough for every race of two accesses; the proofs
  cover any number. A smaller instance does for `area_answer`.
- *network*: two events and two posts, two credentials. One event can meet
  every step of the network task, and the second can undo it before, between or
  after; the same for posts. The status has four values, two links up or down.
- *lora*: two frames tell one `Write` from the next; two packets and three
  receptions let one packet meet every step, one overtake it, one follow. The
  number of Reads and Writes is not bounded. One restart, at any step, meets
  every state the transceiver can be in, and the life after it is as free as the
  first. `PowerOn` has two members, all registers 0 and all bits set: each bit
  the driver must set is missing in one, each it must clear is set in the other.
- *link*: two packages out of five kinds, in a buffer of 23 bytes, which holds
  the second's frame, of 22, with room for a byte of noise. Leftovers need one
  message under another, so two packages are enough; a cut or an altered byte
  falls at every place. The payload of the second package repeats how the
  first's frame begins, so that a part of one passes for the other as far as it
  goes. Altered bytes and noise are `START` (and 0), the one value the search
  for the beginning reacts to. On the UART's line two faults: a frame in three
  parts, each frame in two, or noise and a part; the FIFO holds 4 bytes, so that
  two frames overrun it.
- *communication*: two entries on the list, the fewest that tell "this entry"
  from "every entry"; one that is due in each round and one that is not
  (250 000 microseconds: due from 3 ticks on, `MaxElapsed` is 5); rounds of one
  tick. Users write any number of times, though never the value that the area
  holds already, and the interleaving with the watching task is unrestricted.

- *requests*: the processes, areas and sizes of `main.cpp`. Four bodies: text, a
  message with a zero in it, one that begins with a zero, and one of 256 bytes.
  Six posts: one is too large for its area, one goes to the area that is last
  on a device without LoRa, one has an id beyond 8 bits; one GET asks for an id
  that is no area. Of the
  tasks only LoRa's, the one with the largest stack, may not be created. Id 32,
  for which the manager's guard looks past the table, and bodies of exactly
  1024 bytes, which have no end, are left out (`RequestsAssumption`).

`CHECK_DEADLOCK` stays on everywhere.

### Fairness

- *area* (`Fairness`): weak fairness for what a task does inside a call, strong
  fairness for the mutex. A task inside a call is ready to run, tasks sleep
  between rounds, so it gets the processor; FreeRTOS gives a mutex to the
  waiter of the highest priority, and since that one must sleep too, a waiter
  of lower priority finds the mutex free again and again.
- *network* (`SystemFairness`): weak fairness for the handler and each task, for
  the same reason. None for links, users or posts.
- *lora* (`Fairness`): weak fairness for the constructor and for a call that was
  made, and for the end of a transmission (the chip raises `TX_DONE` by itself);
  strong fairness for calling `Read`, since `CommunicationProcess::Idle` polls it
  between Writes. None for packets heard and for restarts.
- *link*: none; neither the air nor the line need deliver.
- *communication* (`Fairness`): weak fairness for the process, which sleeps and
  goes on; strong fairness for `IdleQuiet`, since while packages come in without
  a pause `Idle` never looks at requests or at the list: that the other devices
  pause again and again is an assumption on them, not on this code. Requests in
  turn come before the list, which is why `EntriesSent` speaks of the times
  when neither changes (`Settled`).
- *requests* (`Fairness`): weak fairness for `main`, which has nothing to wait
  for, and for the MQTT task. None for requests and for other tasks.

## 4. What is proved

TLAPS checks eight proof modules, with no step left out: every safety property
of every passing run is a theorem, for every value of the constants that the
modules' assumptions admit. The bounds of the runs (`MaxEvents`, `MaxPosts`,
`MaxSent`, `MaxFaults`, receptions, restarts) are any natural numbers there. In
each module the theorem `Invariant`, or the lemmas before it, is the induction,
with a lemma per action. Every inductive invariant was run as an invariant of
TLC before its proof.

**SharedMemory_proofs** - for any set of tasks, values, sizes and bounds that
satisfy `ContentsAssumption` (sizes are natural numbers, the marks `Zeroed` and
`Partial` are not values) and `TaskAssumption` (`Free` is not a task):
`TypeCorrect`, `MutualExclusion`, `Consistency`, `WholeReads`, `NoLostUpdate`
and `Refinement`.

None of the properties is inductive. That bytes and length belong together
whenever the mutex is free needs to know what they are in between, so the
invariant says for every location of the holder what is already in place
(`Progress`: the bytes once encoded, the flag once raised, the length once
stored, and the copy a `Read` has made), that a task is inside only with the
mutex (`Exclusion`), that the location it is at belongs to the call it makes
(`AtOwnCall`), and that bytes and length belong together unless the holder is
between clearing the buffer and storing the length (`WholeUnlessWriting`). `NoLostUpdate`
then follows for each step that lowers the flag: only `LowerFlag` does, with
the copy the same holder made. `Refinement` shows that the initial state maps
to an initial state of `AreaRegister` and every step to one of its steps or a
stutter: `Clear` to the abstract write, `Decode` to the abstract read, `Result`
and all else to stutters or returns.

The other models use areas as registers. What entitles them to it is one more
theorem here and one there, of the same form. `OnlyCallsChange` says of the
register that `SharedMemory` implements that whatever changes its content or its
mark is the `Effect` of one admitted call (`AreaContents`); it needs that no call
gets to the mutex that was not admitted (`CallsAdmitted`, inductive with the
invariant). `AreasAreRegisters` says the same of every area of
CommunicationProcess, with the area's own size and that of `response_buffer`, and
of the two areas of NetworkStatus, for messages of any size that fits into their
areas and into the 8 bits of the length (98 bytes and 4 in `titanium.pb.h`).

**LoRaDriver_proofs** - for any frames and packets, any number of receptions and
restarts, and any content of the registers after a reset, under
`LoRaAssumption`: `TypeCorrect`, `SendsWhatIsWritten`, `NeverWaitsForNothing`,
`DeliversWhatIsHeard`, `WriteRestoresReception`. The invariant has three parts besides the types.
`Configuring`: from each step of the constructor on, the register it wrote holds
what it has to (base addresses, channel, CRC check), until a restart.
`Sending`: once the receiver is stopped and until `Write` turns it on again,
nothing is heard, the transmit slot holds the frame while it goes out, no
`TX_DONE` is set before this frame's own, and `reciever_mode` is down when the
`Write` ends; a transmission that a restart left behind is still that of a frame,
and after the constructor's reset nothing is left of it. `Receiving`: with no race marked, `RX_DONE` stands for the last
packet heard until the flags are cleared, and from then on that packet is the one
the FIFO yields. TLC checks these parts too (the conjuncts were run as
invariants before they were proved). `RestartInv` shows that a restart from any
reachable state leaves nothing that the constructor does not put right.
`NeverWaitsForNothing` is the safety half of `EveryCallReturns`: `SendPacket`
waits without a limit, and what it waits for is its own frame, still on its way
out, or a `TX_DONE` that is up for it; the other half, that a transmission ends,
is the fairness TLC assumes of the chip.

**NetworkStatus_proofs** - for any set of credentials, any number of events of
the Wi-Fi driver and of posts, under `NetworkAssumption` (the marks `NoData` and
`Empty` are no credentials and no status) and `PostsAssumption`: `TypeCorrect`,
`NothingForgotten`, `AccessPointCatchesUp`, `PublishedUpToTheRace`,
`ClientFlagsAgree`, `AreasAreRegisters`. They are stated of `System`, the composition of the three
processes. The invariant adds what the properties do not say of the steps in
between. `CredentialsInHand`: from the `Read` until the configuration the task
holds what the area holds, or the area's flag is up again. `LastOfAccessPoint`:
while events are queued, the last one of the access point tells its link's
state; with none, the handler's record does. `Publishing`: `need_update` stays
up while the task encodes and writes, and unless the handler has changed a field
behind the `Write`'s back, what was encoded so far, and then what is in the area,
is the record. `NothingBeforeInitialize` is needed because
`Initialize` resets the record, which would lose an event if one could have come
before.

**CommunicationProcess_proofs** - for any areas, values, lists and packages,
under `CommunicationAssumption` (kinds of data, and the three special areas
being different) and `ListAssumption` (the area of the list is larger than
`response_buffer`, as 272 is than 256): `TypeCorrect`, `UpdatesSeen`,
`ListIsCurrent`, `PackageStored`, `SendsWhatIsHeld`, `RoundsEnd`,
`AreasAreRegisters`. `UpdateSeenUnlessTaken` and
`ListFollowsArea` are inductive together with the types. `SentIsHeld` needs
`LengthsHeld` (an area's length is that of its value) and `Transmitting` (until
the look at the length the buffer holds what the area of the entry held at the
copy, and that area had the length of it); nothing is assumed of the writes in
between. Without `ListAssumption` the loop over the list would take
down the flag of the list's own area, and `ListFollowsArea` would not hold.
`RoundsEnd` is the safety half of `RequestTaken` and `EntriesSent`: `StepsLeft`,
which the room for entries bounds, becomes less with every step of the process
until it is back in Idle, also when a list is replaced or the entry's area
written meanwhile (`StepFollowsEdge`, `EdgeTakesStep`); that the process goes on
is the other half.

**AreaTable_proofs, AreaRequests_proofs** - for any processes, areas, order of
`main`, bodies and requests: `TypeCorrect`, `AreasBeforeTasks`,
`CountIsComplete`, `GetAnswersArea`, `PostAnswersArea`. `TableInv` is about
`main` alone: the table holds just the areas main has come to
(`TableFollowsMain`), the count is their number, less the one that is about to
be counted (`Counted`), and a task belongs to a process main is done with
(`TasksBehindMain`). Nothing in `AreaRequests` but `Main` changes which areas
there are (`TableKept`). `Requesting` and `Publishing` say what the HTTP task and
the MQTT task have in hand between two looks at an area: what the area held when
it was copied, or as much of the posted text as 8 bits of length can tell,
whatever is written before the second look. Besides the kinds of
data (`TableAssumption`, `RequestsAssumption`), two assumptions say what `main.cpp`
and `memory_areas_t` fulfil: `NeedsAssumption` (a task needs areas of processes
that are enabled before it, and none that may be left out while it is not),
and `NumbersAssumption` (areas are numbered from 1 without a gap, those of the
processes that need the hardware last). TLC evaluates both for the values of
`main.cpp`.

**TitaniumProtocol_proofs** - for any buffer size of 16 bits and any payloads
whose length has 16 bits: `DecodeSound` and `DecodeUnharmed`. The first is the
argument for the protocol. If `Decode` accepts, the four cells where it looks for
a checksum are cells of one, and the only checksums in the buffer are those of
packages whose frames left cells there. An ideal checksum names what it was
computed from, so the cells from `START` on, whatever messages they were left by,
are the body of one package, and every field is read from where `Encode` puts it
(`BodyCells`) - if the reader reads: at exactly 7 and 9 remaining bytes it
returns its error code instead. The second follows the readers over a frame that
lies whole: their counts are between 1 and 65535, so none takes the message for
exhausted.

**TitaniumLink_proofs** - for any packages and noise, altered bytes, sizes of
buffer and FIFO, numbers of messages and faults, under `ProtocolAssumption` and
`LinkAssumption` (packages have 8-bit and 16-bit fields and distinct uuids, a
payload comes out of the 256 bytes of `response_buffer`): `TypeCorrect`,
`AcceptedIsSent`, `UnharmedAccepted`. The invariant is that every cell in the
receive buffer, in the UART's ring and on its line is a byte or a checksum cell of
a package that was sent (`CellsOfSent`): cutting, altering, overrunning, flushing
and lying on top of older messages keep that, and it is all `DecodeSound` asks
for. That uuids are distinct is not used.

**Model-checked only.** Liveness under fairness (`CallsReturn`, the fairness
part of `IsRegister`, `EveryCallReturns`, `PacketDelivered`, the four liveness
properties of the network, the two of the communication process, and
`BrokerReceives`), since TLAPS cannot reason about `ENABLED`. Two more things are
out of the prover's reach: induction over data, and `RECURSIVE` operators (it has
no SMT backend in a module that reaches one). No module here needs either; the
protocol is written with functions and quantifiers, and the least `START` is
found by counting (`LeastExists`) instead of by induction. Taken as given, in
the model and so in the proofs: a checksum tells any two bodies apart.

## 5. What is not modelled

- Of the start: `Application::SignUpSharedArea` and the debug injections, which
  nothing calls; the restart after a failed sign-up, which cannot happen while no
  two processes sign up the same area (`TableAssumption`).
- `SubscribeMemoryArea`: it would subscribe only if `snprintf` failed.
- Of the protocol: the `uuid` generator (uuids are given, and distinct), the
  bytes of the CRC, and the acknowledgement constants, which nothing uses.
- Of the communication process: the destination of an entry (it is copied from
  the entry), `Initialize` and its two ways to fail, the byte buffers (a buffer
  is what was copied into it).
- Of the LoRa driver: the setters of spreading factor, bandwidth, coding rate,
  preamble, sync word and header mode, and the readers of RSSI and SNR, which
  are private and have no caller; an absent transceiver (what `ValidateVersion`
  finds is not looked at, and SPI reads of nothing succeed).
- Of the UART driver: an ESP-IDF driver that fails to install. Nothing looks at
  `_is_initialized`, and a `Read` would then answer 65535.
- Of a restart: its effect on areas and tasks, which is that of power-on
  (`AreaRequests` begins there); what is outside keeps what it had.
- GPIO: one level per pin behind a mutex; nothing is shared, and `ReadGPIO` has
  no caller. Chip select is driven by the one task that uses the bus.
- Of the HTTP server: static pages, and posts of credentials that are refused,
  change no state; header values longer than the buffer for them are undefined
  behaviour.
- Time process: no `Application` method starts it, and its mode is constant.
- Data containers: no component uses them. The display driver: output only.
- Protobuf messages: generated; their sizes are constants of the models.
- The vendored libraries: `components/espressif_mdns_1.3.0`, ArduinoJson, jsmn.
  They are about four fifths of the repository's lines of code and none of it
  is this project's logic: `NetworkProcess::Initialize` starts mDNS, which then
  answers queries by itself, and no process parses JSON.

## 6. Plan

The components with behaviour of their own are modelled, their safety is proved,
and so is what they rely on areas for. What is left is smaller:

1. The safety half of liveness, which `NeverWaitsForNothing` and `RoundsEnd` are
   for the LoRa driver and the communication process, and `MutualExclusion` is for
   an area (whoever holds the mutex is inside a call), for the network and the
   requests: who may still raise a flag that a task waits for.
2. `AreasAreRegisters` for `AreaRequests`, whose areas have bytes and a length but
   no update flag, which no request looks at.

## 7. Running it

    tlc -workers 2 -config MCSharedMemory.cfg MCSharedMemory.tla
    tlc -workers 2 -config MCNetworkStatus.cfg MCNetworkStatus.tla
    tlc -workers 2 -config MCLoRaDriver.cfg MCLoRaDriver.tla
    tlc -workers 2 -config MCTitaniumLink.cfg MCTitaniumLink.tla
    tlc -workers 2 -config MCCommunicationProcess.cfg MCCommunicationProcess.tla
    tlc -workers 2 -config MCAreaRequests.cfg MCAreaRequests.tla
    tlapm SharedMemory_proofs.tla
    tlapm LoRaDriver_proofs.tla
    tlapm NetworkStatus_proofs.tla
    tlapm CommunicationProcess_proofs.tla
    tlapm AreaTable_proofs.tla
    tlapm AreaRequests_proofs.tla
    tlapm TitaniumProtocol_proofs.tla
    tlapm TitaniumLink_proofs.tla

The configurations named after one question (`MCSharedMemory_answer.cfg`,
`MCNetworkStatus_StatusPublished.cfg`, `MCNetworkStatus_StationRecorded.cfg`,
`MCLoRaDriver_ReadListens.cfg`, `MCTitaniumLink_cut.cfg`,
`MCCommunicationProcess_interval.cfg`) check that one property and find it violated.
