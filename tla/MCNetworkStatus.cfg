SPECIFICATION FairSystem
CONSTANTS
    Credential = {home, office}
    NoData = NoData
    Empty = Empty
    MaxEvents = 2
    MaxPosts = 2
INVARIANTS
    TypeOK
    CredentialsNotForgotten
    AccessPointRecorded
    PublishedUnlessOvertaken
    ClientAgrees
PROPERTIES
    ClientFollowsArea
    BrokerFollowsArea
    ServerFollowsArea
    CredentialsApplied
