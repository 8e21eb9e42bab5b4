SPECIFICATION Spec
CONSTANTS
    BufferSize = 23
    NoPackage = NoPackage
    Packages <- MCTwoPackages
    Noise <- MCNoise
    Wrong <- MCWrong
    MaxSent = 2
    MaxFaults = 1
    FifoSize = 4
PROPERTY AcceptedIsReceived
