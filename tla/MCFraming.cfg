CONSTANTS
    c1 = c1
    c2 = c2
    c3 = c3
    s1 = s1
    s2 = s2
    None = None
    Pieces = 2
    Calls <- MCCalls
    Streams <- MCStreams
SPECIFICATION FairSpec
INVARIANTS
    StreamsSound
    AnswersOwnCall
PROPERTIES
    AtMostOnce
    CallsSettle
CHECK_DEADLOCK FALSE
