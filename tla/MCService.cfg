CONSTANTS
    a1 = a1
    a2 = a2
    k1 = k1
    k2 = k2
    p1 = p1
    NoKey = NoKey
    RemoteAddr = RemoteAddr
    Addrs <- MCAddrs
    Keys <- MCKeys
    PeerIdOf <- MCPeerIdOf
    UserTasks <- CoreTasks
    IdWidth = 1
    MaxConnectionNumber = 1
    SendEventSize = 1
    Forever = FALSE
    EvCap = 2
    SessChanCap = 1
    MaxTasks = 3
    MaxInbound = 1
    SyncErrors = TRUE
    Protos = {}
    SvcProtos = {}
    SessProtos = {}
    RecvEventSize = 0
    HandleChanCap = 1
    MaxProtoEvents = 0
    FtCap = 1
    HandlerErrors = FALSE
    LateSetup = TRUE
    ResolveChanges = TRUE

SPECIFICATION Spec

INVARIANT TypeOK
INVARIANT NoDuplicatePubkey
INVARIANT PendingCoversInFlight
INVARIANT SessionsMatchTasks
PROPERTY SessionNeverReplaced
