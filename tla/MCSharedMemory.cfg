SPECIFICATION FairSpec
CONSTANTS
    Task = {t1, t2}
    Free = Free
    short = short
    wraps = wraps
    huge = huge
    raw = raw
    Value <- MCValue
    Decodable <- MCDecodable
    Size <- MCSize
    AreaSize = 258
    BufferSize = 512
    Access = "READ_WRITE"
    EmptyIsMessage = FALSE
    Zeroed = Zeroed
    Partial = Partial
INVARIANTS
    TypeOK
    Exclusion
    WholeWhenFree
    NoTornRead
PROPERTIES
    UpdateNeverLost
    IsRegister
    CallsReturn
