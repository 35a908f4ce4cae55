SPECIFICATION SpecBoth
CONSTANTS
    Lengths = {2, 6}
    HeadSize = 1
    DefaultSize = 4
    ShrinkCount = 1
    MaxMessages = 2
    Ids <- TwoIds
    Messages <- MessageKinds
    Tags = {"a", "b"}
    None = None
    MaxBatch = 2
    FixedSize = 2
    TopicLengths = {1, 4}
    CharMax = 3
    MaxChanges = 2
    MaxLost = 1
INVARIANTS MessagesIntact FilterExact
PROPERTIES MessagesDelivered PullsResumed
CHECK_DEADLOCK FALSE
