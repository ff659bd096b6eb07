\* A nullifier is spent between the chain query of handle_new_order and its write.
CONSTANTS
    Orders = {o1, o2}
    Nullifiers = {n1, n2}
    Clusters = {local_cluster, remote_cluster}
    LocalCluster = local_cluster
    Claimed <- MCClaimed
    Proofs <- MCProofs
    None = None
    o1 = o1
    o2 = o2
    n1 = n1
    n2 = n2
    local_cluster = local_cluster
    remote_cluster = remote_cluster
    g1 = g1
    g2 = g2
    Workers <- OneHandler
    JobTypes <- NewOrdersOnly
SPECIFICATION Spec
INVARIANT NoLiveOrderOnNullified
