SPECIFICATION FairSpec
CONSTANTS
    Frame = {f1, f2}
    Packet = {p1, p2}
    Garbled = Garbled
    Nothing = Nothing
    PowerOn <- MCPowerOn
    MaxRestarts = 1
    MaxHeard = 3
INVARIANTS
    TypeOK
    SentIsWritten
    WaitIsForOwnFrame
    DeliveredIsHeard
PROPERTIES
    ListensAfterWrite
    EveryCallReturns
    PacketDelivered
