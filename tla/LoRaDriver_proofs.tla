-------------------------- MODULE LoRaDriver_proofs --------------------------
(***************************************************************************)
(* The safety of LoRaDriver for every set of frames and packets, whatever  *)
(* a reset leaves in the registers, and every number of receptions and     *)
(* restarts: what Write sends, what Read delivers, and that a Write leaves *)
(* the transceiver listening.                                              *)
(***************************************************************************)
EXTENDS LoRaDriver, TLAPS

RxAtZero == registers["FIFO_RX_BASE_ADDR"] = {}
TxAtZero == registers["FIFO_TX_BASE_ADDR"] = {}

(* How a transmission goes: nothing is heard from w_load on, TX_DONE       *)
(* belongs to this Write, and the driver's flag is down when Write ends.   *)
(* One that a restart has left is still that of a frame.                   *)
Sending ==
    /\ lora_pc \in {"w_idle", "w_load", "w_tx", "w_flag", "w_wait", "w_clear"}
         => frame \in Frame
    /\ lora_pc \in {"w_load", "w_tx", "w_clear", "w_resume"} => op_mode = "STDBY"
    /\ lora_pc = "w_tx" => fifo[0] = frame
    /\ lora_pc \in {"w_flag", "w_wait"} =>
         \/ op_mode = "TX" /\ fifo[0] = frame /\ "TX_DONE" \notin irq
         \/ op_mode = "STDBY" /\ on_air = frame /\ "TX_DONE" \in irq
    /\ lora_pc \in {"w_clear", "w_resume"} => on_air = frame
    /\ lora_pc \in {"w_wait", "w_clear", "w_resume"} => ~reciever_mode
    /\ op_mode = "TX" => lora_pc \in {"w_flag", "w_wait", "c_reset"}
    /\ op_mode = "TX" => fifo[0] \in Frame /\ TxAtZero
    /\ "TX_DONE" \in irq => lora_pc \in {"w_flag", "w_wait", "w_clear", "c_reset"}

(* What a reception has left, unless a race has spoilt it: until           *)
(* ReceivePacket has cleared the flags, RX_DONE stands for the last packet *)
(* heard; from then on ReceivePacket reads that packet.                    *)
Collecting == {"r_irq", "r_clear"}
Collected  == {"r_idle", "r_fifo", "r_resume"}

Receiving ==
    /\ "RX_DONE" \in irq /\ spoilt = 0 /\ lora_pc \notin Collected \cup {"c_reset"} =>
         /\ fifo[rx_current] = heard
         /\ heard \in Packet \cup {Garbled}
         /\ heard = Garbled => "CRC_ERROR" \in irq
    /\ lora_pc \in Collecting => "RX_DONE" \in irq
    /\ lora_pc = "r_clear" => "RX_DONE" \in latch
    /\ lora_pc \in Collecting \cup {"r_idle", "r_fifo"} /\ spoilt = 0
         => fifo[rx_current] = heard /\ heard \in Packet
    /\ lora_pc = "r_resume" /\ spoilt = 0 => got = heard /\ got \in Packet
    /\ lora_pc \in Collected /\ spoilt < 2 => "RX_DONE" \notin irq
    /\ lora_pc \in {"r_fifo", "r_resume"} => op_mode = "STDBY"

(* How far the constructor is: from Reset on the transceiver is quiet, and *)
(* once the constructor is done the registers hold what Read and Write     *)
(* rely on.                                                                *)
Configuring ==
    /\ lora_pc \in Constructor \ {"c_reset"} =>
         irq = {} /\ op_mode \in {"STDBY", "SLEEP"}
    /\ lora_pc \notin {"c_reset", "c_version", "c_sleep", "c_rx_base"} => RxAtZero
    /\ lora_pc \notin {"c_reset", "c_version", "c_sleep", "c_rx_base", "c_tx_base"} => TxAtZero
    /\ lora_pc \notin Constructor \ {"c_crc"} => Tuned
    /\ lora_pc \notin Constructor => ChecksCRC

IInv == TypeOK /\ Sending /\ Receiving /\ Configuring

-----------------------------------------------------------------------------
(* The constructor leaves the transceiver in standby with no flag set.     *)
LEMMA InitInv == Init => IInv
<1> SUFFICES ASSUME Init PROVE IInv
    OBVIOUS
<1> USE DEF Init
<1>1. TypeOK
  <2>1. lora_pc \in Location /\ op_mode = "STDBY"
    BY DEF Location, Constructor
  <2>2. latch \in SUBSET Flag /\ irq \in SUBSET Flag
    OBVIOUS
  <2>3. fifo \in [{0, 1} -> Content]
    BY DEF Content
  <2>4. got \in Content /\ heard \in Content
    BY DEF Content
  <2>5. left \in 0 .. MaxHeard /\ lives \in 0 .. MaxRestarts
    BY LoRaAssumption
  <2>6. rx_next \in {0, 1} /\ rx_current \in {0, 1} /\ spoilt \in 0 .. 2
    OBVIOUS
  <2>7. reciever_mode \in BOOLEAN
    OBVIOUS
  <2>8. registers \in [Register -> SUBSET (0 .. 23)]
    BY LoRaAssumption
  <2>9. frame \in Frame \cup {Nothing} /\ on_air \in Frame \cup {Nothing}
    BY DEF Content
  <2> QED BY <2>1, <2>2, <2>3, <2>4, <2>5, <2>6, <2>7, <2>8, <2>9, Zenon DEF TypeOK
<1>2. Sending /\ Receiving /\ Configuring
    BY DEF Sending, Receiving, Configuring, Collecting, Collected, Constructor
<1> QED BY <1>1, <1>2 DEF IInv

(* A packet comes in: it spoils the delivery only in ReceivePacket's window. *)
LEMMA HearWholeInv ==
    ASSUME NEW packet \in Packet,
           IInv, HearWhole(packet)
    PROVE  IInv'
<1> USE LoRaAssumption DEF IInv, TypeOK, HearWhole, Hear, Spoils, driver, setup
<1>1. TypeOK'
    BY DEF Location, Constructor, Content, Flag, TxBase, RxBase, Slot, Sending
<1>2. Sending'
    BY DEF Sending, TxAtZero, Constructor, Content
<1>3. Receiving'
    BY DEF Receiving, Sending, Collecting, Collected, Constructor, Content
<1>4. Configuring'
    BY DEF Configuring, RxAtZero, TxAtZero, Tuned, ChecksCRC, Constructor
<1> QED BY <1>1, <1>2, <1>3, <1>4

(* A packet with a CRC error comes in.                                     *)
LEMMA HearGarbledInv ==
    ASSUME IInv, HearGarbled
    PROVE  IInv'
<1> USE LoRaAssumption DEF IInv, TypeOK, HearGarbled, Hear, Spoils, driver, setup
<1>1. TypeOK'
    BY DEF Location, Constructor, Content, Flag, TxBase, RxBase, Slot, Sending
<1>2. Sending'
    BY DEF Sending, TxAtZero, Constructor, Content
<1>3. Receiving'
    BY DEF Receiving, Sending, Configuring, Collecting, Collected, Constructor, Content
<1>4. Configuring'
    BY DEF Configuring, RxAtZero, TxAtZero, Tuned, ChecksCRC, Constructor
<1> QED BY <1>1, <1>2, <1>3, <1>4

(* The transceiver has sent what is in the FIFO: the frame of this Write.  *)
LEMMA TransmitEndsInv ==
    ASSUME IInv, TransmitEnds
    PROVE  IInv'
<1> USE LoRaAssumption DEF IInv, TypeOK, TransmitEnds, driver, setup
<1>1. TypeOK'
    BY DEF Location, Constructor, Content, Flag, TxAtZero, TxBase, Slot, Sending
<1>2. Sending'
    BY DEF Sending, Configuring, TxAtZero, Tuned, TxBase, Slot, Constructor, Content
<1>3. Receiving'
    BY DEF Receiving, Sending, Collecting, Collected, Constructor, Content
<1>4. Configuring'
    BY DEF Configuring, RxAtZero, TxAtZero, Tuned, ChecksCRC, Constructor
<1> QED BY <1>1, <1>2, <1>3, <1>4

(* SetReceiverMode, at the start of Read and at the end of Write.          *)
LEMMA SetReceiverModeInv ==
    ASSUME NEW from, NEW to,
           IInv, SetReceiverMode(from, to),
           <<from, to>> \in {<<"r_mode", "r_check">>, <<"w_resume", "idle">>}
    PROVE  IInv'
<1> USE LoRaAssumption DEF IInv, TypeOK, SetReceiverMode, Goto, setup, history
<1>1. TypeOK'
    BY DEF Location, Constructor, Content, Flag, TxBase, RxBase, Slot, Sending
<1>2. Sending'
    BY DEF Sending, TxAtZero, Constructor, Content
<1>3. Receiving'
    BY DEF Receiving, Sending, Collecting, Collected, Constructor, Content
<1>4. Configuring'
    BY DEF Configuring, RxAtZero, TxAtZero, Tuned, ChecksCRC, Constructor
<1> QED BY <1>1, <1>2, <1>3, <1>4

(* SetIdleMode, in the constructor, in ReceivePacket and at the start of   *)
(* SendPacket.                                                             *)
LEMMA SetIdleModeInv ==
    ASSUME NEW from, NEW to,
           IInv, SetIdleMode(from, to),
           <<from, to>> \in {<<"c_idle", "c_frequency">>, <<"r_idle", "r_fifo">>,
                              <<"w_idle", "w_load">>}
    PROVE  IInv'
<1> USE LoRaAssumption DEF IInv, TypeOK, SetIdleMode, Goto, setup, history
<1>1. TypeOK'
    BY DEF Location, Constructor, Content, Flag, TxBase, RxBase, Slot, Sending
<1>2. Sending'
    BY DEF Sending, TxAtZero, Constructor, Content
<1>3. Receiving'
    BY DEF Receiving, Sending, Collecting, Collected, Constructor, Content
<1>4. Configuring'
    BY DEF Configuring, RxAtZero, TxAtZero, Tuned, ChecksCRC, Constructor
<1> QED BY <1>1, <1>2, <1>3, <1>4

(* Whatever the transceiver was doing, Reset ends it.                      *)
LEMMA ResetInv ==
    ASSUME IInv, Reset
    PROVE  IInv'
<1> USE LoRaAssumption DEF IInv, TypeOK, Reset, Goto
<1>1. TypeOK'
    BY DEF Location, Constructor, Content, Flag, Sending
<1>2. Sending'
    BY DEF Sending, TxAtZero, Constructor, Content
<1>3. Receiving'
    BY DEF Receiving, Sending, Collecting, Collected, Constructor, Content
<1>4. Configuring'
    BY DEF Configuring, RxAtZero, TxAtZero, Tuned, ChecksCRC, Constructor
<1> QED BY <1>1, <1>2, <1>3, <1>4

(* What the version is makes no difference.                                *)
LEMMA ValidateVersionInv ==
    ASSUME IInv, ValidateVersion
    PROVE  IInv'
<1> USE LoRaAssumption DEF IInv, TypeOK, ValidateVersion, Goto, radio, setup, history
<1>1. TypeOK'
    BY DEF Location, Constructor, Content, Flag, Sending
<1>2. Sending'
    BY DEF Sending, TxAtZero, Constructor, Content
<1>3. Receiving'
    BY DEF Receiving, Sending, Collecting, Collected, Constructor, Content
<1>4. Configuring'
    BY DEF Configuring, RxAtZero, TxAtZero, Tuned, ChecksCRC, Constructor
<1> QED BY <1>1, <1>2, <1>3, <1>4

(* The constructor puts the transceiver to sleep.                          *)
LEMMA SetSleepModeInv ==
    ASSUME IInv, SetSleepMode
    PROVE  IInv'
<1> USE LoRaAssumption DEF IInv, TypeOK, SetSleepMode, Goto, setup, history
<1>1. TypeOK'
    BY DEF Location, Constructor, Content, Flag, Sending
<1>2. Sending'
    BY DEF Sending, TxAtZero, Constructor, Content
<1>3. Receiving'
    BY DEF Receiving, Sending, Collecting, Collected, Constructor, Content
<1>4. Configuring'
    BY DEF Configuring, RxAtZero, TxAtZero, Tuned, ChecksCRC, Constructor
<1> QED BY <1>1, <1>2, <1>3, <1>4

(* The bits of a number are among the 24 of the widest register.           *)
LEMMA BitsType == \A n : Bits(n) \in SUBSET (0 .. 23)
    BY DEF Bits

(* The division of 32 MHz by 2^19 comes out even for the region's band.    *)
LEMMA BrazilIsChannel == Bits(Frf(BRAZIL)) = Channel
<1>1. Frf(BRAZIL) = 14991360
    BY DEF Frf, BRAZIL
<1> QED BY <1>1 DEF Channel

(* A register is configured: the four that Read and Write rely on get what *)
(* they need and are not written again.                                    *)
Writes == {<<"c_rx_base", "c_tx_base", "FIFO_RX_BASE_ADDR">>,
           <<"c_tx_base", "c_lna", "FIFO_TX_BASE_ADDR">>,
           <<"c_lna", "c_modem", "LNA">>,
           <<"c_modem", "c_power", "MODEM_CONFIG_3">>,
           <<"c_power", "c_idle", "PA_CONFIG">>,
           <<"c_frequency", "c_crc", "FRF">>,
           <<"c_crc", "idle", "MODEM_CONFIG_2">>}

(* Writing a register keeps the invariant.                                 *)
LEMMA WriteRegisterInv ==
    ASSUME NEW from, NEW to, NEW register, NEW value \in SUBSET (0 .. 23),
           IInv, WriteRegister(from, to, register, value),
           <<from, to, register>> \in Writes,
           register \in {"FIFO_RX_BASE_ADDR", "FIFO_TX_BASE_ADDR"} => value = {},
           register = "FRF" => value = Channel,
           register = "MODEM_CONFIG_2" => 2 \in value
    PROVE  IInv'
<1> USE LoRaAssumption DEF IInv, TypeOK, WriteRegister, Goto, history, Writes
<1>1. TypeOK'
    BY DEF Location, Constructor, Register
<1>2. Sending'
    BY DEF Sending, TxAtZero, Configuring, Constructor
<1>3. Receiving'
    BY DEF Receiving, Configuring, Collecting, Collected, Constructor
<1>4. Configuring'
    BY DEF Configuring, RxAtZero, TxAtZero, Tuned, ChecksCRC, Constructor, Register
<1> QED BY <1>1, <1>2, <1>3, <1>4

(* Each step of the constructor.                                           *)
LEMMA ConstructInv ==
    ASSUME IInv, Construct
    PROVE  IInv'
<1>1. registers \in [Register -> SUBSET (0 .. 23)]
    BY DEF IInv, TypeOK
<1>2. CASE WriteRegister("c_rx_base", "c_tx_base", "FIFO_RX_BASE_ADDR", {})
  <2> <<"c_rx_base", "c_tx_base", "FIFO_RX_BASE_ADDR">> \in Writes
    BY DEF Writes
  <2> QED BY <1>2, WriteRegisterInv
<1>3. CASE WriteRegister("c_tx_base", "c_lna", "FIFO_TX_BASE_ADDR", {})
  <2> <<"c_tx_base", "c_lna", "FIFO_TX_BASE_ADDR">> \in Writes
    BY DEF Writes
  <2> QED BY <1>3, WriteRegisterInv
<1>4. CASE WriteRegister("c_lna", "c_modem", "LNA", registers["LNA"] \cup {0, 1})
  <2> <<"c_lna", "c_modem", "LNA">> \in Writes
    BY DEF Writes
  <2> registers["LNA"] \cup {0, 1} \in SUBSET (0 .. 23)
    BY <1>1 DEF Register
  <2> QED BY <1>4, WriteRegisterInv
<1>5. CASE WriteRegister("c_modem", "c_power", "MODEM_CONFIG_3", {2})
  <2> <<"c_modem", "c_power", "MODEM_CONFIG_3">> \in Writes
    BY DEF Writes
  <2> {2} \in SUBSET (0 .. 23)
    OBVIOUS
  <2> QED BY <1>5, WriteRegisterInv
<1>6. CASE WriteRegister("c_power", "c_idle", "PA_CONFIG", TxPower(17))
  <2> <<"c_power", "c_idle", "PA_CONFIG">> \in Writes
    BY DEF Writes
  <2> TxPower(17) \in SUBSET (0 .. 23)
    BY BitsType DEF TxPower
  <2> QED BY <1>6, WriteRegisterInv
<1>7. CASE SetIdleMode("c_idle", "c_frequency")
    BY <1>7, SetIdleModeInv
<1>8. CASE WriteRegister("c_frequency", "c_crc", "FRF", Bits(Frf(BRAZIL)))
  <2> <<"c_frequency", "c_crc", "FRF">> \in Writes
    BY DEF Writes
  <2> Bits(Frf(BRAZIL)) \in SUBSET (0 .. 23)
    BY BitsType
  <2> QED BY <1>8, BrazilIsChannel, WriteRegisterInv
<1>9. CASE WriteRegister("c_crc", "idle", "MODEM_CONFIG_2",
                         registers["MODEM_CONFIG_2"] \cup {2})
  <2> <<"c_crc", "idle", "MODEM_CONFIG_2">> \in Writes
    BY DEF Writes
  <2> registers["MODEM_CONFIG_2"] \cup {2} \in SUBSET (0 .. 23)
    BY <1>1 DEF Register
  <2> QED BY <1>9, WriteRegisterInv
<1> QED BY <1>2, <1>3, <1>4, <1>5, <1>6, <1>7, <1>8, <1>9, ResetInv,
           ValidateVersionInv, SetSleepModeInv DEF Construct

(* A restart leaves everything to Reset.                                   *)
LEMMA RestartInv ==
    ASSUME IInv, Restart
    PROVE  IInv'
<1> USE LoRaAssumption DEF IInv, TypeOK, Restart, history
<1>1. TypeOK'
  <2>1. lives' \in 0 .. MaxRestarts
    OBVIOUS
  <2>2. /\ reciever_mode' \in BOOLEAN
        /\ lora_pc' \in Location
        /\ frame' \in Frame \cup {Nothing}
        /\ latch' \in SUBSET Flag
        /\ got' \in Content
    BY DEF Location, Constructor, Content
  <2>3. /\ op_mode' \in {"SLEEP", "STDBY", "RX_CONTINUOUS", "TX"}
        /\ irq' \in SUBSET Flag
        /\ fifo' \in [{0, 1} -> Content]
        /\ rx_next' \in {0, 1}
        /\ rx_current' \in {0, 1}
        /\ left' \in 0 .. MaxHeard
        /\ registers' \in [Register -> SUBSET (0 .. 23)]
        /\ on_air' \in Frame \cup {Nothing}
        /\ heard' \in Content
        /\ spoilt' \in 0 .. 2
    BY DEF Content
  <2> QED BY ONLY <2>1, <2>2, <2>3, Zenon DEF TypeOK, Content
<1>2. Sending'
    BY DEF Sending, TxAtZero, Constructor, Content
<1>3. Receiving'
    BY DEF Receiving, Sending, Collecting, Collected, Constructor, Content
<1>4. Configuring'
    BY DEF Configuring, RxAtZero, TxAtZero, Tuned, ChecksCRC, Constructor
<1> QED BY <1>1, <1>2, <1>3, <1>4

(* Read is called.                                                         *)
LEMMA CallReadInv ==
    ASSUME IInv, CallRead
    PROVE  IInv'
<1> USE LoRaAssumption DEF IInv, TypeOK, CallRead, Goto, radio, setup, history
<1>1. TypeOK'
    BY DEF Location, Constructor, Content, Flag, TxBase, RxBase, Slot, Sending
<1>2. Sending'
    BY DEF Sending, TxAtZero, Constructor, Content
<1>3. Receiving'
    BY DEF Receiving, Sending, Collecting, Collected, Constructor, Content
<1>4. Configuring'
    BY DEF Configuring, RxAtZero, TxAtZero, Tuned, ChecksCRC, Constructor
<1> QED BY <1>1, <1>2, <1>3, <1>4

(* isDataInReceiver: past it, the last packet heard has no CRC error.      *)
LEMMA CheckReceiverInv ==
    ASSUME IInv, CheckReceiver
    PROVE  IInv'
<1> USE LoRaAssumption DEF IInv, TypeOK, CheckReceiver, IsDataInReceiver, Goto, radio, setup, history
<1>1. TypeOK'
    BY DEF Location, Constructor, Content, Flag, TxBase, RxBase, Slot, Sending
<1>2. Sending'
    BY DEF Sending, TxAtZero, Constructor, Content
<1>3. Receiving'
    BY DEF Receiving, Sending, Collecting, Collected, Constructor, Content
<1>4. Configuring'
    BY DEF Configuring, RxAtZero, TxAtZero, Tuned, ChecksCRC, Constructor
<1> QED BY <1>1, <1>2, <1>3, <1>4

(* ReceivePacket reads the flags, RX_DONE among them.                      *)
LEMMA ReadFlagsInv ==
    ASSUME IInv, ReadFlags
    PROVE  IInv'
<1> USE LoRaAssumption DEF IInv, TypeOK, ReadFlags, Goto, radio, setup, history
<1>1. TypeOK'
    BY DEF Location, Constructor, Content, Flag, TxBase, RxBase, Slot, Sending
<1>2. Sending'
    BY DEF Sending, TxAtZero, Constructor, Content
<1>3. Receiving'
    BY DEF Receiving, Sending, Collecting, Collected, Constructor, Content
<1>4. Configuring'
    BY DEF Configuring, RxAtZero, TxAtZero, Tuned, ChecksCRC, Constructor
<1> QED BY <1>1, <1>2, <1>3, <1>4

(* ReceivePacket clears the flags it has read, RX_DONE among them.         *)
LEMMA ClearReadFlagsInv ==
    ASSUME IInv, ClearFlags("r_clear", "r_idle", latch)
    PROVE  IInv'
<1> USE LoRaAssumption DEF IInv, TypeOK, ClearFlags, Goto, setup, history
<1>1. TypeOK'
    BY DEF Location, Constructor, Content, Flag, TxBase, RxBase, Slot, Sending
<1>2. Sending'
    BY DEF Sending, TxAtZero, Constructor, Content
<1>3. Receiving'
    BY DEF Receiving, Sending, Collecting, Collected, Constructor, Content
<1>4. Configuring'
    BY DEF Configuring, RxAtZero, TxAtZero, Tuned, ChecksCRC, Constructor
<1> QED BY <1>1, <1>2, <1>3, <1>4

(* ReceivePacket reads the packet.                                         *)
LEMMA ReadFifoInv ==
    ASSUME IInv, ReadFifo
    PROVE  IInv'
<1> USE LoRaAssumption DEF IInv, TypeOK, ReadFifo, Goto, radio, setup, history
<1>1. TypeOK'
    BY DEF Location, Constructor, Content, Flag, TxBase, RxBase, Slot, Sending
<1>2. Sending'
    BY DEF Sending, TxAtZero, Constructor, Content
<1>3. Receiving'
    BY DEF Receiving, Sending, Collecting, Collected, Constructor, Content
<1>4. Configuring'
    BY DEF Configuring, RxAtZero, TxAtZero, Tuned, ChecksCRC, Constructor
<1> QED BY <1>1, <1>2, <1>3, <1>4

(* ReceivePacket ends: the packet is delivered.                            *)
LEMMA ResumeReceiverInv ==
    ASSUME IInv, ResumeReceiver
    PROVE  IInv'
<1> USE LoRaAssumption DEF IInv, TypeOK, ResumeReceiver, Goto, setup
<1>1. TypeOK'
    BY DEF Location, Constructor, Content, Flag, TxBase, RxBase, Slot, Sending
<1>2. Sending'
    BY DEF Sending, TxAtZero, Constructor, Content
<1>3. Receiving'
    BY DEF Receiving, Sending, Collecting, Collected, Constructor, Content
<1>4. Configuring'
    BY DEF Configuring, RxAtZero, TxAtZero, Tuned, ChecksCRC, Constructor
<1> QED BY <1>1, <1>2, <1>3, <1>4

(* Write is called.                                                        *)
LEMMA CallWriteInv ==
    ASSUME NEW f \in Frame,
           IInv, CallWrite(f)
    PROVE  IInv'
<1> USE LoRaAssumption DEF IInv, TypeOK, CallWrite, Goto, radio, setup
<1>1. TypeOK'
    BY DEF Location, Constructor, Content, Flag, TxBase, RxBase, Slot, Sending
<1>2. Sending'
    BY DEF Sending, TxAtZero, Constructor, Content
<1>3. Receiving'
    BY DEF Receiving, Sending, Collecting, Collected, Constructor, Content
<1>4. Configuring'
    BY DEF Configuring, RxAtZero, TxAtZero, Tuned, ChecksCRC, Constructor
<1> QED BY <1>1, <1>2, <1>3, <1>4

(* SendPacket fills the FIFO; a packet that waits there is spoilt.         *)
LEMMA LoadFrameInv ==
    ASSUME IInv, LoadFrame
    PROVE  IInv'
<1> USE LoRaAssumption DEF IInv, TypeOK, LoadFrame, Goto, setup
<1>1. TypeOK'
    BY DEF Location, Constructor, Content, Flag, TxBase, RxBase, Slot, Sending
<1>2. Sending'
    BY DEF Sending, TxAtZero, Constructor, Content
<1>3. Receiving'
    BY DEF Receiving, Sending, Collecting, Collected, Constructor, Content
<1>4. Configuring'
    BY DEF Configuring, RxAtZero, TxAtZero, Tuned, ChecksCRC, Constructor
<1> QED BY <1>1, <1>2, <1>3, <1>4

(* SendPacket starts the transmission.                                     *)
LEMMA StartTransmissionInv ==
    ASSUME IInv, StartTransmission
    PROVE  IInv'
<1> USE LoRaAssumption DEF IInv, TypeOK, StartTransmission, Goto, setup, history
<1>1. TypeOK'
    BY DEF Location, Constructor, Content, Flag, TxBase, RxBase, Slot, Sending
<1>2. Sending'
    BY DEF Sending, Configuring, TxAtZero, Constructor, Content
<1>3. Receiving'
    BY DEF Receiving, Sending, Collecting, Collected, Constructor, Content
<1>4. Configuring'
    BY DEF Configuring, RxAtZero, TxAtZero, Tuned, ChecksCRC, Constructor
<1> QED BY <1>1, <1>2, <1>3, <1>4

(* SendPacket takes its receiver flag down, sent or not yet.               *)
LEMMA LowerReceiverFlagInv ==
    ASSUME IInv, LowerReceiverFlag
    PROVE  IInv'
<1> USE LoRaAssumption DEF IInv, TypeOK, LowerReceiverFlag, Goto, radio, setup, history
<1>1. TypeOK'
    BY DEF Location, Constructor, Content, Flag, TxBase, RxBase, Slot, Sending
<1>2. Sending'
    BY DEF Sending, TxAtZero, Constructor, Content
<1>3. Receiving'
    BY DEF Receiving, Sending, Collecting, Collected, Constructor, Content
<1>4. Configuring'
    BY DEF Configuring, RxAtZero, TxAtZero, Tuned, ChecksCRC, Constructor
<1> QED BY <1>1, <1>2, <1>3, <1>4

(* SendPacket has seen TX_DONE.                                            *)
LEMMA AwaitTransmissionInv ==
    ASSUME IInv, AwaitTransmission
    PROVE  IInv'
<1> USE LoRaAssumption DEF IInv, TypeOK, AwaitTransmission, Goto, radio, setup, history
<1>1. TypeOK'
    BY DEF Location, Constructor, Content, Flag, TxBase, RxBase, Slot, Sending
<1>2. Sending'
    BY DEF Sending, TxAtZero, Constructor, Content
<1>3. Receiving'
    BY DEF Receiving, Sending, Collecting, Collected, Constructor, Content
<1>4. Configuring'
    BY DEF Configuring, RxAtZero, TxAtZero, Tuned, ChecksCRC, Constructor
<1> QED BY <1>1, <1>2, <1>3, <1>4

(* SendPacket clears TX_DONE.                                              *)
LEMMA ClearTxDoneInv ==
    ASSUME IInv, ClearFlags("w_clear", "w_resume", {"TX_DONE"})
    PROVE  IInv'
<1> USE LoRaAssumption DEF IInv, TypeOK, ClearFlags, Goto, setup, history
<1>1. TypeOK'
    BY DEF Location, Constructor, Content, Flag, TxBase, RxBase, Slot, Sending
<1>2. Sending'
    BY DEF Sending, TxAtZero, Constructor, Content
<1>3. Receiving'
    BY DEF Receiving, Sending, Collecting, Collected, Constructor, Content
<1>4. Configuring'
    BY DEF Configuring, RxAtZero, TxAtZero, Tuned, ChecksCRC, Constructor
<1> QED BY <1>1, <1>2, <1>3, <1>4

-----------------------------------------------------------------------------
(* Every step keeps the invariant.                                         *)
LEMMA StepInv == IInv /\ [Next]_vars => IInv'
<1> SUFFICES ASSUME IInv, [Next]_vars PROVE IInv'
    OBVIOUS
<1>1. CASE Radio
    BY <1>1, HearWholeInv, HearGarbledInv, TransmitEndsInv DEF Radio
<1>2. CASE Read
  <2>1. CASE SetReceiverMode("r_mode", "r_check")
    BY <2>1, SetReceiverModeInv
  <2>2. CASE SetIdleMode("r_idle", "r_fifo")
    BY <2>2, SetIdleModeInv
  <2> QED BY <1>2, <2>1, <2>2, CallReadInv, CheckReceiverInv, ReadFlagsInv,
             ClearReadFlagsInv, ReadFifoInv, ResumeReceiverInv DEF Read
<1>3. CASE Write
  <2>1. CASE SetReceiverMode("w_resume", "idle")
    BY <2>1, SetReceiverModeInv
  <2>2. CASE SetIdleMode("w_idle", "w_load")
    BY <2>2, SetIdleModeInv
  <2> QED BY <1>3, <2>1, <2>2, CallWriteInv, LoadFrameInv, StartTransmissionInv,
             LowerReceiverFlagInv, AwaitTransmissionInv, ClearTxDoneInv DEF Write
<1>4. CASE UNCHANGED vars
    BY <1>4 DEF IInv, TypeOK, Sending, Receiving, Configuring, RxAtZero, TxAtZero, Tuned,
                ChecksCRC, vars, driver, radio, setup, history
<1> QED BY <1>1, <1>2, <1>3, <1>4, ConstructInv, RestartInv DEF Next

(* The inductive invariant: a transmission belongs to the Write that waits *)
(* for it, and RX_DONE to the packet that is read because of it.           *)
THEOREM Invariant == Spec => []IInv
<1>1. Init => IInv
    BY InitInv
<1>2. IInv /\ [Next]_vars => IInv'
    BY StepInv
<1> QED BY <1>1, <1>2, PTL DEF Spec

(* Every variable has its type.                                            *)
THEOREM TypeCorrect == Spec => []TypeOK
<1>1. IInv => TypeOK
    BY DEF IInv
<1> QED BY <1>1, Invariant, PTL

(* SendPacket returns only after its own frame went out whole.             *)
THEOREM SendsWhatIsWritten == Spec => []SentIsWritten
<1>1. IInv => SentIsWritten
    BY DEF IInv, Sending, SentIsWritten
<1> QED BY <1>1, Invariant, PTL

(* The loop without a limit in SendPacket: what it waits for is on its way *)
(* or is there.                                                            *)
THEOREM NeverWaitsForNothing == Spec => []WaitIsForOwnFrame
<1>1. IInv => WaitIsForOwnFrame
  <2> SUFFICES ASSUME IInv, lora_pc = "w_wait"
               PROVE  \/ op_mode = "TX" /\ fifo[TxBase] = frame
                      \/ "TX_DONE" \in irq /\ on_air = frame
    BY DEF WaitIsForOwnFrame
  <2>1. \/ op_mode = "TX" /\ fifo[0] = frame
        \/ "TX_DONE" \in irq /\ on_air = frame
    BY DEF IInv, Sending
  <2>2. TxBase = 0
    BY DEF IInv, Configuring, Constructor, TxAtZero, TxBase, Slot
  <2> QED BY ONLY <2>1, <2>2
<1> QED BY <1>1, Invariant, PTL

(* ReceivePacket delivers the last packet heard, sound and once, unless    *)
(* one of the two races the property names has happened.                   *)
THEOREM DeliversWhatIsHeard == Spec => []DeliveredIsHeard
<1>1. IInv => DeliveredIsHeard
    BY DEF IInv, Receiving, DeliveredIsHeard
<1> QED BY <1>1, Invariant, PTL

(* Whatever Read has left the transceiver in, a Write leaves it listening. *)
THEOREM WriteRestoresReception == Spec => ListensAfterWrite
<1> DEFINE Listening == lora_pc = "w_resume" /\ lora_pc' = "idle"
                            => op_mode' = "RX_CONTINUOUS"
<1>1. IInv /\ [Next]_vars => [Listening]_vars
  <2> SUFFICES ASSUME IInv, Next, lora_pc = "w_resume", lora_pc' = "idle"
               PROVE  op_mode' = "RX_CONTINUOUS"
    OBVIOUS
  <2>1. SetReceiverMode("w_resume", "idle")
    BY DEF Next, Radio, HearWhole, HearGarbled, Hear, TransmitEnds, driver, Read, Write,
           Construct, Reset, ValidateVersion, SetSleepMode, WriteRegister, Restart,
           CallRead, SetReceiverMode, CheckReceiver, ReadFlags, ClearFlags,
           SetIdleMode, ReadFifo, ResumeReceiver, CallWrite, LoadFrame,
           StartTransmission, LowerReceiverFlag, AwaitTransmission, Goto
  <2>2. ~reciever_mode
    BY DEF IInv, Sending
  <2> QED BY <2>1, <2>2 DEF SetReceiverMode
<1> QED BY <1>1, Invariant, PTL DEF Spec, ListensAfterWrite
=============================================================================
