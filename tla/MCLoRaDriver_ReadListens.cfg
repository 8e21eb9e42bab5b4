SPECIFICATION Spec
CONSTANTS
    Frame = {f1}
    Packet = {p1}
    Garbled = Garbled
    Nothing = Nothing
    PowerOn <- MCPowerOn
    MaxRestarts = 0
    MaxHeard = 1
INVARIANT ReadListens
