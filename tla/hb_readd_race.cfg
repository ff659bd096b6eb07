CONSTANTS
    local = local
    p1 = p1
    wallet = wallet
    e1 = e1
    e2 = e2
    Peers <- MCPeersPair
    Local = local
    Wallets = {wallet}
    Workers <- TwoWorkers
    KeyOrder <- MCKeyOrderPair
    HEARTBEAT_FAILURE_MS = 1000
    EXPIRY_INVISIBILITY_WINDOW_MS = 2000
    EXPIRY_CACHE_SIZE = 2
    MaxTime = 2
    MaxTimerJobs = 1
    MaxInboundJobs = 1
SPECIFICATION Spec
INVARIANT InvisibilityWindow
