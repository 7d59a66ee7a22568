SPECIFICATION FairSpec
CONSTANTS
    BufSize = 5
    Streams <- MCStreams
    ContentLengths <- MCLengths
    IntBound = 8
    ReadSizes = {1, 3}
    MaxConnections = 2
    MaxReads = 2
INVARIANTS
    TypeOK
    BrokenByLengthOnly
    BodyInOrder
    FramingIndependent
    AnswerFitsStream
    ReadsComplete
PROPERTIES
    EveryConnectionEnds
CHECK_DEADLOCK FALSE
