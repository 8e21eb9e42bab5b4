SPECIFICATION System
CONSTANTS
    Credential = {home}
    NoData = NoData
    Empty = Empty
    MaxEvents = 2
    MaxPosts = 1
INVARIANT StatusPublished
