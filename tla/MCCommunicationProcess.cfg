SPECIFICATION FairSpec
CONSTANTS
    short = short
    long = long
    ask = ask
    often = often
    seldom = seldom
    wraps = wraps
    Value <- MCValue
    Size <- MCSize
    Requested <- MCRequested
    Lists <- MCLists
    Entries <- MCEntries
    AreaSize <- MCAreaSize
    Single = 6
    Continuos = 7
    Watched = 1
    Invalid = 0
    Package <- MCPackage
    Posts <- MCPosts
    Address = 4117
    NoValue = NoValue
    MaxEntries = 2
    MaxElapsed = 5
    MaxDelay = 1
INVARIANTS
    TypeOK
    UpdateSeenUnlessTaken
    ListFollowsArea
PROPERTIES
    StoredIfAddressed
    SentIsHeld
    EveryRoundEnds
    RequestTaken
    EntriesSent
