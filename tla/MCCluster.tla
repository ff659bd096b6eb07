------------------------------ MODULE MCCluster ------------------------------
(***************************************************************************)
(* Cluster for TLC: a relayer that holds a wallet of two orders and the    *)
(* proofs of one of them, a relayer of the cluster that holds nothing, and *)
(* a third that announces itself, once or twice, to its own cluster or to  *)
(* another.                                                                *)
(***************************************************************************)
EXTENDS Cluster, TLC

CONSTANTS a, b, j, w1, o1, o2, local_cluster, other_cluster

MCOrderWallet == (o1 :> w1) @@ (o2 :> w1)
MCInitialWallets == (a :> {w1}) @@ (b :> {}) @@ (j :> {})
MCInitialProofs == (a :> {o1}) @@ (b :> {}) @@ (j :> {})

=============================================================================
