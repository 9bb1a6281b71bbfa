CONSTANTS
    a1 = a1
    a2 = a2
    k1 = k1
    k2 = k2
    p1 = p1
    NoKey = NoKey
    RemoteAddr = RemoteAddr
    Addrs <- MCAddrs
    Keys <- MCKeys
    PeerIdOf <- MCPeerIdOf
    UserTasks <- ProtocolTasks
    IdWidth = 1
    MaxConnectionNumber = 1
    SendEventSize = 0
    Forever = FALSE
    EvCap = 2
    SessChanCap = 1
    MaxTasks = 3
    MaxInbound = 0
    SyncErrors = FALSE
    Protos = {p1}
    SvcProtos = {p1}
    SessProtos = {p1}
    RecvEventSize = 0
    HandleChanCap = 1
    MaxProtoEvents = 2
    FtCap = 1
    HandlerErrors = TRUE
    LateSetup = TRUE
    ResolveChanges = FALSE

SPECIFICATION Spec

INVARIANT HandleRecordsBacked

