SPECIFICATION FairSpec
CONSTANTS
    text = text
    message = message
    zero = zero
    full = full
    Boot <- MCBoot
    SignsUp <- MCSignsUp
    Needs <- MCNeeds
    NeedsHardware = {"lora"}
    MayFail = {"lora"}
    AreaSize <- MCAreaSize
    NoValue = NoValue
    Value <- MCValue
    Size <- MCSize
    TextSize <- MCTextSize
    Keys <- MCKeys
    Posts <- MCPosts
    Stores <- MCStores
INVARIANTS
    TypeOK
    TasksHaveAreas
    CountReachesAreas
PROPERTIES
    AnswerIsHeld
    PostAnswered
    BrokerReceives
