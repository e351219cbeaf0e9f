CONSTANTS
    Readings <- AfterEpoch
    Epoch = 250
    Word = 1024
    Timestamps = 32
    TimeWrap = 256
    CounterMask = 3
    Shards = 2
    MaxDraws = 10
    HalfWord = 256
    MachineIDs = 4
    MachineID = 1
    HighBits = 2
    LowBits = 8
    TimestampBits = 5
    MachineBits = 2
    CPUs = 2
    Host <- Hostname
    HashBasis = 129
    HashPrime = 67
    DoubleBits = 12
    SafeHigh = 2
SPECIFICATION WordSpec
INVARIANTS
    MuidSound
    IdsUnique
    StringsNameIds
    WordsAgree
CHECK_DEADLOCK FALSE
