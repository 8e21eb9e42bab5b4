SPECIFICATION Spec
CONSTANTS
    BufferSize = 23
    NoPackage = NoPackage
    Packages <- MCPackages
    Noise <- MCNoise
    Wrong <- MCWrong
    MaxSent = 2
    MaxFaults = 2
    FifoSize = 4
INVARIANT TypeOK
PROPERTIES
    AcceptedWasSent
    UnharmedIsAccepted
