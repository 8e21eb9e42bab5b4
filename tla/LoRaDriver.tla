----------------------------- MODULE LoRaDriver -----------------------------
(***************************************************************************)
(* LoRaDriver: how the one task that owns it polls the SX127x transceiver  *)
(* over SPI.  Every access to a register is a step of its own wherever the *)
(* transceiver may act in between; the transceiver itself (external) hears *)
(* packets while it is in RX_CONTINUOUS and sends a frame while in TX.     *)
(*                                                                         *)
(* The FIFO has room for two packets.  The transceiver stores packets one  *)
(* after the other from the receive base address; frames are sent from the *)
(* transmit base address.                                                  *)
(*                                                                         *)
(* The constructor resets and configures the transceiver.  An SPI          *)
(* transaction that fails aborts the program, wherever it is (so may other *)
(* tasks): the device starts again, while the transceiver goes on with     *)
(* whatever it was doing until the constructor resets it.                  *)
(***************************************************************************)
EXTENDS Naturals

CONSTANTS
    Frame,      \* what the task writes
    Packet,     \* what other devices send
    Garbled,    \* a packet heard with a CRC error
    Nothing,    \* no packet
    PowerOn,    \* what the configuration registers may hold after a reset
    MaxHeard,   \* bound: packets heard in a behaviour
    MaxRestarts \* bound: restarts in a behaviour

(* Registers are sets of bits.  The frequency's three count as one.        *)
Bits(n) == {b \in 0 .. 23 : (n \div 2^b) % 2 = 1}

Register == {"FIFO_RX_BASE_ADDR", "FIFO_TX_BASE_ADDR", "LNA", "MODEM_CONFIG_2",
             "MODEM_CONFIG_3", "PA_CONFIG", "FRF"}

ASSUME LoRaAssumption ==
    /\ Frame \cap Packet = {}
    /\ {Garbled, Nothing} \cap (Frame \cup Packet) = {}
    /\ Garbled # Nothing
    /\ PowerOn \subseteq [Register -> SUBSET (0 .. 23)]
    /\ MaxHeard \in Nat
    /\ MaxRestarts \in Nat

VARIABLES
    reciever_mode,  \* _reciever_mode
    lora_pc,        \* where the task is in Read or Write
    frame,          \* the argument of the last Write
    latch,          \* the IRQ flags ReceivePacket has read
    got,            \* what the last Read delivered
    op_mode,        \* external: register OP_MODE
    irq,            \* external: register IRQ_FLAGS
    fifo,           \* external: the FIFO, two slots
    rx_next,        \* external: the slot the next packet goes to
    rx_current,     \* external: register FIFO_RX_CURRENT_ADDR
    left,           \* how many packets may still be heard, see MaxHeard
    registers,      \* external: the configuration registers
    lives,          \* how many restarts may still happen, see MaxRestarts
    on_air,         \* history: what was sent since Write was called
    heard,          \* history: the last packet heard and not delivered since
    spoilt          \* history: how many deliveries a race has put at risk

driver  == <<reciever_mode, lora_pc, frame, latch, got>>
setup   == <<registers, lives>>
radio   == <<op_mode, irq, fifo, rx_next, rx_current, left, setup>>
history == <<on_air, heard, spoilt>>
vars    == <<driver, radio, history>>

Flag == {"RX_DONE", "CRC_ERROR", "TX_DONE"}

(* The lower half of the FIFO is the one slot, the upper half the other.   *)
Slot(address) == IF 7 \in address THEN 1 ELSE 0
TxBase == Slot(registers["FIFO_TX_BASE_ADDR"])
RxBase == Slot(registers["FIFO_RX_BASE_ADDR"])

(* 915 MHz, the band of the region (external: where other devices are), in *)
(* steps of 32 MHz / 2^19; and bit RxPayloadCrcOn.                         *)
Channel == Bits(14991360)
Tuned == registers["FRF"] = Channel
ChecksCRC == 2 \in registers["MODEM_CONFIG_2"]

Constructor == {"c_reset", "c_version", "c_sleep", "c_rx_base", "c_tx_base", "c_lna",
                "c_modem", "c_power", "c_idle", "c_frequency", "c_crc"}

Location == Constructor \cup {"idle", "r_mode", "r_check", "r_irq", "r_clear", "r_idle", "r_fifo",
             "r_resume", "w_idle", "w_load", "w_tx", "w_flag", "w_wait",
             "w_clear", "w_resume"}

(* Power on.                                                               *)
Init ==
    /\ reciever_mode = FALSE
    /\ lora_pc = "c_reset"
    /\ frame = Nothing
    /\ latch = {}
    /\ got = Nothing
    /\ op_mode = "STDBY"
    /\ irq = {}
    /\ fifo = [slot \in {0, 1} |-> Nothing]
    /\ rx_next = 0
    /\ rx_current = 0
    /\ left = MaxHeard
    /\ registers \in PowerOn
    /\ lives = MaxRestarts
    /\ on_air = Nothing
    /\ heard = Nothing
    /\ spoilt = 0

-----------------------------------------------------------------------------
(* The transceiver.                                                        *)

(* A packet heard while ReceivePacket is at work may take the place of the *)
(* one it was called for; heard once the flags are cleared, it also leaves *)
(* RX_DONE behind.                                                         *)
Spoils == CASE lora_pc \in {"r_irq", "r_clear"} -> 1
            [] lora_pc = "r_idle" -> 2
            [] OTHER -> spoilt

Hear(packet, flags) ==
    /\ op_mode = "RX_CONTINUOUS"
    /\ left > 0
    /\ left' = left - 1
    /\ irq' = irq \cup flags
    /\ fifo' = [fifo EXCEPT ![rx_next] = packet]
    /\ rx_current' = rx_next
    /\ rx_next' = 1 - rx_next
    /\ heard' = packet
    /\ spoilt' = Spoils
    /\ UNCHANGED <<driver, op_mode, setup, on_air>>

HearWhole(packet) == Tuned /\ Hear(packet, {"RX_DONE"})

HearGarbled ==
    Hear(Garbled, IF ChecksCRC THEN {"RX_DONE", "CRC_ERROR"} ELSE {"RX_DONE"})

TransmitEnds ==
    /\ op_mode = "TX"
    /\ op_mode' = "STDBY"
    /\ irq' = irq \cup {"TX_DONE"}
    /\ on_air' = IF Tuned THEN fifo[TxBase] ELSE Nothing
    /\ UNCHANGED <<driver, fifo, rx_next, rx_current, left, setup, heard, spoilt>>

Radio == (\E packet \in Packet : HearWhole(packet)) \/ HearGarbled \/ TransmitEnds

-----------------------------------------------------------------------------
Goto(from, to) ==
    /\ lora_pc = from
    /\ lora_pc' = to

(* Mutant: the flags are cleared whenever the receiver is asked for.       *)
SetReceiverModeClearing(from, to) ==
    /\ Goto(from, to)
    /\ reciever_mode' = TRUE
    /\ irq' = {}
    /\ op_mode' = IF reciever_mode THEN op_mode ELSE "RX_CONTINUOUS"
    /\ rx_next' = IF reciever_mode THEN rx_next ELSE RxBase
    /\ UNCHANGED <<frame, latch, got, fifo, rx_current, left, setup, history>>

(* The register is written only if the driver's own flag is down.          *)
SetReceiverMode(from, to) ==
    /\ Goto(from, to)
    /\ reciever_mode' = TRUE
    /\ op_mode' = IF reciever_mode THEN op_mode ELSE "RX_CONTINUOUS"
    /\ rx_next' = IF reciever_mode THEN rx_next ELSE RxBase
    /\ UNCHANGED <<frame, latch, got, irq, fifo, rx_current, left, setup, history>>

SetIdleMode(from, to) ==
    /\ Goto(from, to)
    /\ op_mode' = "STDBY"
    /\ UNCHANGED <<reciever_mode, frame, latch, got, irq, fifo, rx_next, rx_current,
                   left, setup, history>>

(* Mutant: the flags are written back without the bits that clear them.    *)
KeepFlags(from, to, flags) ==
    /\ Goto(from, to)
    /\ UNCHANGED <<reciever_mode, frame, latch, got, radio, history>>

ClearFlags(from, to, flags) ==
    /\ Goto(from, to)
    /\ irq' = irq \ flags
    /\ UNCHANGED <<reciever_mode, frame, latch, got, op_mode, fifo, rx_next,
                   rx_current, left, setup, history>>

-----------------------------------------------------------------------------
(* The constructor                                                         *)

(* Mutant: the reset pin is not driven.                                    *)
ResetNothing ==
    /\ Goto("c_reset", "c_version")
    /\ UNCHANGED <<reciever_mode, frame, latch, got, radio, history>>

(* LORA_RST low and high again; its GPIO was initialized, or there is no   *)
(* LoRa process (see AreaTable).                                           *)
Reset ==
    /\ Goto("c_reset", "c_version")
    /\ op_mode' = "STDBY"
    /\ irq' = {}
    /\ rx_next' = 0
    /\ rx_current' = 0
    /\ registers' \in PowerOn
    /\ on_air' = Nothing
    /\ heard' = Nothing
    /\ spoilt' = 0
    /\ UNCHANGED <<reciever_mode, frame, latch, got, fifo, left, lives>>

(* Up to five attempts; the constructor goes on whatever the result.       *)
ValidateVersion ==
    /\ Goto("c_version", "c_sleep")
    /\ UNCHANGED <<reciever_mode, frame, latch, got, radio, history>>

SetSleepMode ==
    /\ Goto("c_sleep", "c_rx_base")
    /\ op_mode' = "SLEEP"
    /\ UNCHANGED <<reciever_mode, frame, latch, got, irq, fifo, rx_next, rx_current,
                   left, setup, history>>

WriteRegister(from, to, register, value) ==
    /\ Goto(from, to)
    /\ registers' = [registers EXCEPT ![register] = value]
    /\ UNCHANGED <<reciever_mode, frame, latch, got, op_mode, irq, fifo, rx_next,
                   rx_current, left, lives, history>>

(* PA_BOOST, and the level above 2.                                        *)
TxPower(level) ==
    {7} \cup Bits((IF level < 2 THEN 2 ELSE IF level > 17 THEN 17 ELSE level) - 2)

(* (frequency << 19) / 32000000, without leaving 32 bits.                  *)
Frf(frequency) ==
    (frequency \div 15625) * 256 + ((frequency % 15625) * 256) \div 15625

BRAZIL == 915000000

(* Initialize, then SetFrequency and SetCRCMode.                           *)
Construct ==
    \/ Reset
    \/ ValidateVersion
    \/ SetSleepMode
    \/ WriteRegister("c_rx_base", "c_tx_base", "FIFO_RX_BASE_ADDR", {})
    \/ WriteRegister("c_tx_base", "c_lna", "FIFO_TX_BASE_ADDR", {})
    \/ WriteRegister("c_lna", "c_modem", "LNA", registers["LNA"] \cup {0, 1})
    \/ WriteRegister("c_modem", "c_power", "MODEM_CONFIG_3", {2})
    \/ WriteRegister("c_power", "c_idle", "PA_CONFIG", TxPower(17))
    \/ SetIdleMode("c_idle", "c_frequency")
    \/ WriteRegister("c_frequency", "c_crc", "FRF", Bits(Frf(BRAZIL)))
    \/ WriteRegister("c_crc", "idle", "MODEM_CONFIG_2", registers["MODEM_CONFIG_2"] \cup {2})

(* ESP_ERROR_CHECK: memory is lost, the transceiver knows nothing of it.   *)
Restart ==
    /\ lives > 0
    /\ lives' = lives - 1
    /\ lora_pc' = "c_reset"
    /\ reciever_mode' = FALSE
    /\ frame' = Nothing
    /\ latch' = {}
    /\ got' = Nothing
    /\ UNCHANGED <<op_mode, irq, fifo, rx_next, rx_current, left, registers, history>>

-----------------------------------------------------------------------------
(* Read                                                                    *)

CallRead ==
    /\ Goto("idle", "r_mode")
    /\ got' = Nothing
    /\ UNCHANGED <<reciever_mode, frame, latch, radio, history>>

(* Mutant: the CRC flag is not looked at.                                  *)
IsDataUnchecked == "RX_DONE" \in irq

IsDataInReceiver == "RX_DONE" \in irq /\ "CRC_ERROR" \notin irq

CheckReceiver ==
    /\ Goto("r_check", IF IsDataInReceiver THEN "r_irq" ELSE "idle")
    /\ UNCHANGED <<reciever_mode, frame, latch, got, radio, history>>

ReadFlags ==
    /\ Goto("r_irq", "r_clear")
    /\ latch' = irq
    /\ UNCHANGED <<reciever_mode, frame, got, radio, history>>

ReadFifo ==                     \* from FIFO_RX_CURRENT_ADDR
    /\ Goto("r_fifo", "r_resume")
    /\ got' = fifo[rx_current]
    /\ UNCHANGED <<reciever_mode, frame, latch, radio, history>>

(* The end of ReceivePacket: here the Read has delivered.                  *)
ResumeReceiver ==
    /\ reciever_mode' = TRUE
    /\ Goto("r_resume", "idle")
    /\ op_mode' = IF reciever_mode THEN op_mode ELSE "RX_CONTINUOUS"
    /\ rx_next' = IF reciever_mode THEN rx_next ELSE RxBase
    /\ heard' = Nothing
    /\ spoilt' = IF spoilt > 0 THEN spoilt - 1 ELSE 0
    /\ UNCHANGED <<frame, latch, got, irq, fifo, rx_current, left, setup, on_air>>

Read ==
    \/ CallRead
    \/ SetReceiverMode("r_mode", "r_check")
    \/ CheckReceiver
    \/ ReadFlags
    \/ ClearFlags("r_clear", "r_idle", latch)
    \/ SetIdleMode("r_idle", "r_fifo")
    \/ ReadFifo
    \/ ResumeReceiver

-----------------------------------------------------------------------------
(* Write, all of it SendPacket                                             *)

(* Mutant: the receiver is not stopped first.                              *)
CallWriteListening(f) ==
    /\ Goto("idle", "w_load")
    /\ frame' = f
    /\ on_air' = Nothing
    /\ UNCHANGED <<reciever_mode, latch, got, radio, heard, spoilt>>

CallWrite(f) ==
    /\ Goto("idle", "w_idle")
    /\ frame' = f
    /\ on_air' = Nothing
    /\ UNCHANGED <<reciever_mode, latch, got, radio, heard, spoilt>>

(* The frame goes where a packet that was not read yet may be.             *)
LoadFrame ==
    /\ Goto("w_load", "w_tx")
    /\ fifo' = [fifo EXCEPT ![0] = frame]
    /\ spoilt' = IF "RX_DONE" \in irq /\ spoilt = 0 THEN 1 ELSE spoilt
    /\ UNCHANGED <<reciever_mode, frame, latch, got, op_mode, irq, rx_next,
                   rx_current, left, setup, on_air, heard>>

(* Mutant: the mode is written only if the driver's own flag is up.        *)
StartTransmissionIfListening ==
    /\ Goto("w_tx", "w_flag")
    /\ op_mode' = IF reciever_mode THEN "TX" ELSE op_mode
    /\ UNCHANGED <<reciever_mode, frame, latch, got, irq, fifo, rx_next,
                   rx_current, left, setup, history>>

StartTransmission ==
    /\ Goto("w_tx", "w_flag")
    /\ op_mode' = "TX"
    /\ UNCHANGED <<reciever_mode, frame, latch, got, irq, fifo, rx_next,
                   rx_current, left, setup, history>>

(* Mutant: the flag stays up.                                              *)
KeepReceiverFlag ==
    /\ Goto("w_flag", "w_wait")
    /\ UNCHANGED <<reciever_mode, frame, latch, got, radio, history>>

LowerReceiverFlag ==
    /\ Goto("w_flag", "w_wait")
    /\ reciever_mode' = FALSE
    /\ UNCHANGED <<frame, latch, got, radio, history>>

(* Mutant: the wrong bit is waited for.                                    *)
AwaitReception ==
    /\ "RX_DONE" \in irq
    /\ Goto("w_wait", "w_clear")
    /\ UNCHANGED <<reciever_mode, frame, latch, got, radio, history>>

AwaitTransmission ==            \* a loop without a limit
    /\ "TX_DONE" \in irq
    /\ Goto("w_wait", "w_clear")
    /\ UNCHANGED <<reciever_mode, frame, latch, got, radio, history>>

Write ==
    \/ \E f \in Frame : CallWrite(f)
    \/ SetIdleMode("w_idle", "w_load")
    \/ LoadFrame
    \/ StartTransmission
    \/ LowerReceiverFlag
    \/ AwaitTransmission
    \/ ClearFlags("w_clear", "w_resume", {"TX_DONE"})
    \/ SetReceiverMode("w_resume", "idle")

Next == Radio \/ Construct \/ Read \/ Write \/ Restart

Spec == Init /\ [][Next]_vars

(* The constructor and a call that was made go on, a transmission ends,    *)
(* and the task keeps polling Read between its Writes                      *)
(* (CommunicationProcess::Idle).                                           *)
Continue == Construct \/ (lora_pc # "idle" /\ (Read \/ Write))

Fairness ==
    /\ WF_vars(Continue)
    /\ WF_vars(TransmitEnds)
    /\ SF_vars(CallRead)

FairSpec == Spec /\ Fairness

-----------------------------------------------------------------------------
Content == Frame \cup Packet \cup {Garbled, Nothing}

TypeOK ==
    /\ reciever_mode \in BOOLEAN
    /\ lora_pc \in Location
    /\ frame \in Frame \cup {Nothing}
    /\ latch \in SUBSET Flag
    /\ got \in Content
    /\ op_mode \in {"SLEEP", "STDBY", "RX_CONTINUOUS", "TX"}
    /\ irq \in SUBSET Flag
    /\ fifo \in [{0, 1} -> Content]
    /\ rx_next \in {0, 1}
    /\ rx_current \in {0, 1}
    /\ left \in 0 .. MaxHeard
    /\ registers \in [Register -> SUBSET (0 .. 23)]
    /\ lives \in 0 .. MaxRestarts
    /\ on_air \in Frame \cup {Nothing}
    /\ heard \in Content
    /\ spoilt \in 0 .. 2

(* When Write is past its wait, its own frame was sent, whole and on the   *)
(* region's channel: no packet got into the FIFO, no earlier TX_DONE, not  *)
(* even from before a restart, was taken for its own, and the transceiver  *)
(* was configured.                                                         *)
SentIsWritten == lora_pc \in {"w_clear", "w_resume"} => on_air = frame

(* SendPacket waits without a time-out, but never for nothing: as long as  *)
(* it waits, its own frame is still going out, or TX_DONE says that it     *)
(* went out.                                                               *)
WaitIsForOwnFrame ==
    lora_pc = "w_wait" =>
        \/ op_mode = "TX" /\ fifo[TxBase] = frame
        \/ "TX_DONE" \in irq /\ on_air = frame

(* What Read delivers is the last packet heard, without CRC error and for  *)
(* the first time, unless a packet came in between isDataInReceiver and    *)
(* SetIdleMode, or a Write used the FIFO before the packet was read.       *)
DeliveredIsHeard ==
    lora_pc = "r_resume" /\ spoilt = 0 => got = heard /\ got \in Packet

(* Every Write leaves the transceiver listening, also when a delivery had  *)
(* left it in standby before.                                              *)
ListensAfterWrite ==
    [][lora_pc = "w_resume" /\ lora_pc' = "idle" => op_mode' = "RX_CONTINUOUS"]_vars

(* The constructor, every Read and every Write comes to an end, though     *)
(* SendPacket has no time-out.                                             *)
EveryCallReturns == lora_pc # "idle" ~> lora_pc = "idle"

(* Every packet is answered for by a Read that hands something over after  *)
(* it came in, whatever the races do to the bytes, unless a later packet   *)
(* comes in, a CRC error is flagged, or a restart resets the transceiver:  *)
(* also one whose RX_DONE is cleared with that of the packet before, and   *)
(* one that a frame was loaded over.                                       *)
PacketDelivered ==
    \A packet \in Packet :
        heard = packet ~> heard # packet \/ "CRC_ERROR" \in irq

(* LoRaDriver.cpp:98 says of Read that it sets the transceiver to receiver *)
(* mode before it looks for data.                                          *)
ReadListens == lora_pc = "r_check" => op_mode = "RX_CONTINUOUS"
=============================================================================
