SPECIFICATION Spec
CONSTANTS
    Task = {t1, t2}
    Free = Free
    short = short
    wraps = wraps
    huge = huge
    raw = raw
    Value <- MCTwoValues
    Decodable <- MCTwoValues
    Size <- MCTwoSizes
    AreaSize = 258
    BufferSize = 512
    Access = "READ_WRITE"
    EmptyIsMessage = FALSE
    Zeroed = Zeroed
    Partial = Partial
INVARIANT WriteAnswersOwnOutcome
