CONSTANTS
    a1 = a1
    a2 = a2
    k1 = k1
    k2 = k2
    p1 = p1
    NoKey = NoKey
    RemoteAddr = RemoteAddr
    Addrs <- MCAddrs
    Keys <- MCKeys
    PeerIdOf <- MCPeerIdOf
    UserTasks <- BackpressureTasks
    IdWidth = 1
    MaxConnectionNumber = 1
    SendEventSize = 0
    Forever = FALSE
    EvCap = 2
    SessChanCap = 1
    MaxTasks = 4
    MaxInbound = 0
    SyncErrors = FALSE
    Protos = {}
    SvcProtos = {}
    SessProtos = {}
    RecvEventSize = 0
    HandleChanCap = 1
    MaxProtoEvents = 0
    FtCap = 1
    HandlerErrors = FALSE
    LateSetup = TRUE
    ResolveChanges = FALSE

SPECIFICATION FairSpec

PROPERTY UserTasksEventuallyPolled
