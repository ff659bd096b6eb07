\* The order book under every order-book job, two handlers in flight.
CONSTANTS
    Orders = {o1, o2}
    Nullifiers = {n1, n2}
    Clusters = {local_cluster, remote_cluster}
    LocalCluster = local_cluster
    Claimed <- MCClaimed
    Proofs <- MCProofs
    Workers <- TwoHandlers
    JobTypes <- AllJobTypes
    None = None
    o1 = o1
    o2 = o2
    n1 = n1
    n2 = n2
    local_cluster = local_cluster
    remote_cluster = remote_cluster
    g1 = g1
    g2 = g2
SYMMETRY HandlerSymmetry
SPECIFICATION Spec
INVARIANT TypeOK
INVARIANT NullifierIndexConsistent
INVARIANT VerifiedHoldsItsProof
PROPERTY UnsoundBundleNeedsLocalClaim
PROPERTY NullifyCancelsExactly
