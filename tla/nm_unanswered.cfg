\* Two raft clients call through the executor while workers publish, a peer asks and answers, requests fail and the coordinator cancels.
CONSTANTS
    c1 = c1
    c2 = c2
    p1 = p1
    Clients <- MCClients
    Peers <- MCPeers
    ObservedAddrs <- MCObservedAddrs
    OtherEvents <- MCOtherEvents
    P2P_PORT = 9000
    MaxRequests = 2
    MaxPubsub = 2
    MaxInbound = 1
    MaxEvents = 2
    MaxBus = 1
    MaxInputs = 3
SPECIFICATION Spec




CHECK_DEADLOCK FALSE
INVARIANT NoCallWaitsOnNothing
