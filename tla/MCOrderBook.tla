----------------------------- MODULE MCOrderBook -----------------------------
(***************************************************************************)
(* OrderBook for TLC: one order of the local cluster and one of a remote   *)
(* cluster, two nullifiers (a wallet before and after an update), and the  *)
(* proof bundles that take each exit of verify_validity_proofs.            *)
(***************************************************************************)
EXTENDS OrderBook

CONSTANTS o1, o2, n1, n2, local_cluster, remote_cluster, g1, g2

\* Every message about o2 names the remote cluster; messages about o1 name
\* either, as the messages of a peer that misreports an order's cluster do.
MCClaimed == (o1 :> {local_cluster, remote_cluster}) @@ (o2 :> {remote_cluster})

\* Every message names the cluster that manages the order.
MCHonest == (o1 :> {local_cluster}) @@ (o2 :> {remote_cluster})

Bundle(nullifier, linked, reblind_valid, commitments_valid) ==
    [ original_shares_nullifier |-> nullifier, linked |-> linked,
      reblind_valid |-> reblind_valid, commitments_valid |-> commitments_valid ]

MCProofs ==
    { Bundle(n1, TRUE, TRUE, TRUE), Bundle(n2, TRUE, TRUE, TRUE),
      Bundle(n1, FALSE, TRUE, TRUE), Bundle(n2, TRUE, FALSE, TRUE),
      Bundle(n2, TRUE, TRUE, FALSE) }

AllJobTypes ==
    {"OrderInfoResponse", "OrderReceived", "OrderProofUpdated", "OrderWitnessResponse"}
NewOrdersOnly == {"OrderReceived"}
PubsubJobs == {"OrderReceived", "OrderProofUpdated"}
OneHandler == {g1}
TwoHandlers == {g1, g2}

\* Handlers are interchangeable: no action or property tells g1 from g2.
HandlerSymmetry == Permutations(TwoHandlers)

=============================================================================
