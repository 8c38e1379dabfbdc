SPECIFICATION GlueSpec
CONSTANTS
    Ifaces = {0, 1}
    LocalMod = 5
    IdMod = 8
    Slots = {s1, s2, s3}
    MaxOpens = 4
    None = None
    Callers = {"task", "app", "other"}
    Unlocked = {}
    TX_POOL_N = 3
    Leases <- MCLeases
    Statics <- MCStatics
    Parts <- MCParts
    Bad = Bad
    MaxParts = 5
    Names <- MCNames
    QueryIds = {1, 2}
    Ports = {5, 6}
    Answers <- MCAnswers
    MaxInFlight = 2
    Repeats = FALSE
INVARIANTS
    HandlesDenote NothingStranded AllReturned CopiesAgree EncodingsAgree
    OwnAnswer SocketsRestored ARecordFound
