CONSTANTS
    c1 = c1
    c2 = c2
    c3 = c3
    c4 = c4
    s1 = s1
    s2 = s2
    s3 = s3
    None = None
    Callers <- FourCallers
    Streams <- ThreeStreams
    PoolSizes = {0, 1, 2, 3}
    Failures <- AllFailures
SPECIFICATION Spec
SYMMETRY Symmetry
INVARIANTS
    PoolSound
    OpenCountExact
    StreamsExclusive
CHECK_DEADLOCK FALSE
