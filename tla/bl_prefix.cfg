\* A node boots, fails and is started again while the sidecars of three clusters upload snapshots.
CONSTANTS
    CLUSTER_ID <- MCClusterId
    ClusterIds <- MCClusterIds
    Environments <- MCEnvironments
    MaxKeys = 2
    MaxSnapshots = 3
    MaxBoots = 3
SPECIFICATION Spec
CHECK_DEADLOCK FALSE
INVARIANT SnapshotIsOfThisCluster
