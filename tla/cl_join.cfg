\* One wallet holder, one relayer that holds nothing, one peer that announces itself up to twice; delivery in any order, one network manager that may stop.
CONSTANTS
    Nodes = {a, b, j}
    Clusters = {local_cluster, other_cluster}
    LocalCluster = local_cluster
    Wallets = {w1}
    Orders = {o1, o2}
    OrderWallet <- MCOrderWallet
    InitialWallets <- MCInitialWallets
    InitialProofs <- MCInitialProofs
    Joiners = {j}
    MaxJoins = 2
    MaxStops = 1
    a = a
    b = b
    j = j
    w1 = w1
    o1 = o1
    o2 = o2
    local_cluster = local_cluster
    other_cluster = other_cluster
SPECIFICATION FairSpec
INVARIANT TypeOK
PROPERTY AdmittedPeerReplicates
PROPERTY ProofsReachReplicas
PROPERTY ReplicaAnnounced
CHECK_DEADLOCK FALSE
