------------------------------- MODULE Cluster -------------------------------
(***************************************************************************)
(* Cluster management between the relayers of one cluster                  *)
(* (workers/gossip-server/src/cluster.rs), every relayer running the same  *)
(* handlers.                                                               *)
(*                                                                         *)
(* A peer announces itself with a ClusterJoin on the cluster's management  *)
(* topic.  Every relayer that hears it adds the peer and asks it, in a     *)
(* Replicate request, to hold the wallets the relayer holds.  The peer     *)
(* stores them, tells the topic it is now a replica and asks the topic for *)
(* the validity proofs of the orders it has none for; whoever has one      *)
(* answers the asker directly.                                             *)
(*                                                                         *)
(* net holds what has been sent and not yet handled.  The network manager  *)
(* hands every inbound message to the gossip server as the job of          *)
(* ClusterManagementJob it stands for, so net holds the jobs themselves; a *)
(* Replicated message becomes one AddWalletReplica job per wallet it       *)
(* names.  Delivery is in any order.  A handler that gives up its thread   *)
(* between two accesses of the state is one action per access.             *)
(*                                                                         *)
(* A relayer sends through the channel to its network manager.  Once the   *)
(* manager has stopped, every send returns an error and the handler that   *)
(* made it returns with it.                                                *)
(***************************************************************************)
EXTENDS Naturals, FiniteSets, Bags

CONSTANTS
    Nodes,              \* the relayers
    Clusters,           \* cluster identifiers a join may name
    LocalCluster,       \* global_state.local_cluster_id, the same at every relayer
    Wallets,            \* wallet identifiers
    Orders,             \* order identifiers
    OrderWallet,        \* the wallet each order belongs to
    InitialWallets,     \* the wallets each relayer holds at the start
    InitialProofs,      \* the orders each relayer has validity proofs for at the start
    Joiners,            \* the peers that announce themselves with a ClusterJoin
    MaxJoins,           \* bound: ClusterJoin messages published in a behaviour
    MaxStops            \* bound: network managers that stop in a behaviour

ASSUME
    /\ LocalCluster \in Clusters
    /\ OrderWallet \in [Orders -> Wallets]
    /\ InitialWallets \in [Nodes -> SUBSET Wallets]
    /\ InitialProofs \in [Nodes -> SUBSET Orders]
    /\ \A n \in Nodes : \A o \in InitialProofs[n] : OrderWallet[o] \in InitialWallets[n]
    /\ Joiners \subseteq Nodes
    /\ MaxJoins \in Nat
    /\ MaxStops \in Nat

VARIABLES
    peer_index,         \* the peers each relayer knows
    wallet_index,       \* the wallets each relayer holds
    replicas,           \* per relayer and wallet: the peers it believes replicate it
    proofs,             \* per relayer: the orders whose validity proofs it stores
    net,                \* bag of jobs sent and not yet handled
    worker,             \* per relayer: where its handler in flight stands
    joins,              \* ClusterJoin messages published so far
    network             \* per relayer: its network manager still takes what is sent

vars == <<peer_index, wallet_index, replicas, proofs, net, worker, joins, network>>

Idle == [pc |-> "idle"]

-----------------------------------------------------------------------------
(* The jobs of ClusterManagementJob, addressed to the relayer that is to   *)
(* handle them.                                                            *)

ClusterJoinRequest(to, cluster_id, peer_id) ==
    [type |-> "ClusterJoinRequest", to |-> to, cluster_id |-> cluster_id, peer_id |-> peer_id]

ReplicateRequest(to, wallets) ==
    [type |-> "ReplicateRequest", to |-> to, wallets |-> wallets]

AddWalletReplica(to, wallet_id, peer_id) ==
    [type |-> "AddWalletReplica", to |-> to, wallet_id |-> wallet_id, peer_id |-> peer_id]

ShareValidityProofs(to, order_ids, sender) ==
    [type |-> "ShareValidityProofs", to |-> to, order_ids |-> order_ids, sender |-> sender]

UpdateValidityProof(to, order_id) ==
    [type |-> "UpdateValidityProof", to |-> to, order_id |-> order_id]

\* Every subscriber of the management topic but the publisher.
Subscribers(n) == Nodes \ {n}

\* The jobs of one variant waiting at a relayer.
Inbox(n, type) == {job \in BagToSet(net) : job.to = n /\ job.type = type}

Without(job) == net (-) SetToBag({job})

Goto(n, frame) == worker' = [worker EXCEPT ![n] = frame]

-----------------------------------------------------------------------------
(* handle_cluster_join_job                                                 *)

\* network_channel.send: the jobs reach the network unless the receiving end
\* of the channel is gone.
Send(n, jobs) == IF network[n] THEN net (+) jobs ELSE net

SendReplicateRequestWhenEmpty(n, peer, wallets) ==
    IF wallets # {} THEN net ELSE Send(n, SetToBag({ReplicateRequest(peer, wallets)}))

SendReplicateRequest(n, peer, wallets) ==
    IF wallets = {} THEN net ELSE Send(n, SetToBag({ReplicateRequest(peer, wallets)}))

\* The error send_replicate_request returns.
ReplicateRequestFails(n, wallets) == wallets # {} /\ ~network[n]

\* A join that names another cluster is dropped.
JoinIgnored(n) ==
    \E job \in Inbox(n, "ClusterJoinRequest") :
        /\ worker[n] = Idle
        /\ job.cluster_id # LocalCluster
        /\ net' = Without(job)
        /\ UNCHANGED <<peer_index, wallet_index, replicas, proofs, worker, joins, network>>

\* The handler up to add_single_peer; add_peer_to_cluster tests the cluster
\* a second time.
JoinAddPeer(n) ==
    \E job \in Inbox(n, "ClusterJoinRequest") :
        /\ worker[n] = Idle
        /\ job.cluster_id = LocalCluster
        /\ peer_index' = [peer_index EXCEPT ![n] = @ \cup {job.peer_id}]
        /\ net' = Without(job)
        /\ Goto(n, [pc |-> "add_peer_replicate", peer_id |-> job.peer_id])
        /\ UNCHANGED <<wallet_index, replicas, proofs, joins, network>>

\* The rest of add_peer_to_cluster: the wallet index is read and the request
\* sent; an error of the send ends the handler.
AddPeerToCluster(n) ==
    /\ worker[n].pc = "add_peer_replicate"
    /\ net' = SendReplicateRequest(n, worker[n].peer_id, wallet_index[n])
    /\ Goto(n, IF ReplicateRequestFails(n, wallet_index[n]) THEN Idle
               ELSE [worker[n] EXCEPT !.pc = "join_replicate"])
    /\ UNCHANGED <<peer_index, wallet_index, replicas, proofs, joins, network>>

\* The handler reads the wallet index again and sends the request a second
\* time.
JoinReplicate(n) ==
    /\ worker[n].pc = "join_replicate"
    /\ net' = SendReplicateRequest(n, worker[n].peer_id, wallet_index[n])
    /\ Goto(n, Idle)
    /\ UNCHANGED <<peer_index, wallet_index, replicas, proofs, joins, network>>

HandleClusterJoinJob(n) ==
    JoinIgnored(n) \/ JoinAddPeer(n) \/ AddPeerToCluster(n) \/ JoinReplicate(n)

-----------------------------------------------------------------------------
(* handle_replicate_request                                                *)

\* global_state.add_wallets: a wallet new to the index starts with the
\* local peer as its replica, and its orders are in the order book from then.
AddWallets(n, wallets) ==
    /\ wallet_index' = [wallet_index EXCEPT ![n] = @ \cup wallets]
    /\ replicas' = [replicas EXCEPT ![n] =
            [w \in Wallets |-> IF w \in wallets \ wallet_index[n] THEN {n} ELSE @[w]]]

\* The Replicated message, as the jobs it becomes at its subscribers.
ReplicatedMessage(n, wallets) ==
    SetToBag({AddWalletReplica(p, w, n) : p \in Subscribers(n), w \in wallets})

ReplicateDropEmpty(job) ==
    /\ job.wallets = {}
    /\ net' = Without(job)
    /\ UNCHANGED <<wallet_index, replicas, worker>>

\* The wallets are stored and Replicated published; when the publication
\* fails the handler returns and asks for no proofs.
ReplicateAddWallets(n) ==
    \E job \in Inbox(n, "ReplicateRequest") :
        /\ worker[n] = Idle
        /\ IF job.wallets = {}
           THEN ReplicateDropEmpty(job)
           ELSE /\ AddWallets(n, job.wallets)
                /\ net' = Send(n, ReplicatedMessage(n, job.wallets)) (-) SetToBag({job})
                /\ Goto(n, IF network[n]
                           THEN [pc |-> "request_proofs", wallets |-> job.wallets]
                           ELSE Idle)
        /\ UNCHANGED <<peer_index, proofs, joins, network>>

OrdersWithProofs(n, wallets) ==
    {o \in Orders : OrderWallet[o] \in wallets /\ o \in proofs[n]}

\* The orders of the wallets a relayer holds are the orders its book knows.
KnownOrders(n) == {o \in Orders : OrderWallet[o] \in wallet_index[n]}

\* The orders of the request's wallets the order book has no proofs for.
OrdersNeedingProofs(n, wallets) ==
    {o \in Orders : OrderWallet[o] \in wallets /\ o \notin proofs[n]}

\* The request is published even when it names no order.
ReplicateRequestProofs(n) ==
    /\ worker[n].pc = "request_proofs"
    /\ LET order_ids == OrdersNeedingProofs(n, worker[n].wallets)
       IN  net' = Send(n, SetToBag({ShareValidityProofs(p, order_ids, n) : p \in Subscribers(n)}))
    /\ Goto(n, Idle)
    /\ UNCHANGED <<peer_index, wallet_index, replicas, proofs, joins, network>>

-----------------------------------------------------------------------------
(* The handlers of one access.                                             *)

AddReplicaUnlessHeld(index, wallet_id, peer_id) ==
    [index EXCEPT ![wallet_id] = IF index[wallet_id] = {} THEN @ \cup {peer_id} ELSE @]

\* WalletIndex::add_replica: a wallet the relayer does not hold has no
\* replica set to add to.
AddReplica(index, wallet_id, peer_id) ==
    [index EXCEPT ![wallet_id] = IF index[wallet_id] = {} THEN @ ELSE @ \cup {peer_id}]

HandleAddReplicaJob(n) ==
    \E job \in Inbox(n, "AddWalletReplica") :
        /\ replicas' = [replicas EXCEPT ![n] = AddReplica(@, job.wallet_id, job.peer_id)]
        /\ net' = Without(job)
        /\ UNCHANGED <<peer_index, wallet_index, proofs, worker, joins, network>>

\* One ValidityProof request to the asker for every requested order the
\* local order book has proofs for; the first send that fails ends the loop.
OutboundProofs(n, req) ==
    SetToBag({UpdateValidityProof(req.sender, o) : o \in req.order_ids \cap proofs[n]})

HandleShareValidityProofsJob(n) ==
    \E job \in Inbox(n, "ShareValidityProofs") :
        /\ net' = Send(n, OutboundProofs(n, job)) (-) SetToBag({job})
        /\ UNCHANGED <<peer_index, wallet_index, replicas, proofs, worker, joins, network>>

\* add_order_validity_proofs attaches the bundle to the order it is for; the
\* book refuses a bundle for an order it does not know.
HandleUpdatedValidityProof(n) ==
    \E job \in Inbox(n, "UpdateValidityProof") :
        /\ proofs' = [proofs EXCEPT ![n] = @ \cup ({job.order_id} \cap KnownOrders(n))]
        /\ net' = Without(job)
        /\ UNCHANGED <<peer_index, wallet_index, replicas, worker, joins, network>>

HandleReplicateRequest(n) ==
    ReplicateAddWallets(n) \/ ReplicateRequestProofs(n)

\* handle_cluster_management_job: the dispatch on the job's variant.
HandleClusterManagementJob(n) ==
    \/ HandleClusterJoinJob(n)
    \/ HandleReplicateRequest(n)
    \/ HandleAddReplicaJob(n)
    \/ HandleShareValidityProofsJob(n)
    \/ HandleUpdatedValidityProof(n)

-----------------------------------------------------------------------------
(* The environment.                                                        *)

\* A peer publishes a ClusterJoin; the cluster it names is the publisher's
\* choice.
PeerJoins(p, cluster_id) ==
    /\ joins < MaxJoins
    /\ joins' = joins + 1
    /\ net' = net (+) SetToBag({ClusterJoinRequest(n, cluster_id, p) : n \in Subscribers(p)})
    /\ UNCHANGED <<peer_index, wallet_index, replicas, proofs, worker, network>>

\* The network manager of a relayer stops and drops its end of the channel.
Stopped == {n \in Nodes : ~network[n]}

NetworkManagerStops(n) ==
    /\ network[n]
    /\ Cardinality(Stopped) < MaxStops
    /\ network' = [network EXCEPT ![n] = FALSE]
    /\ UNCHANGED <<peer_index, wallet_index, replicas, proofs, net, worker, joins>>

\* update_global_state_after_startup: a relayer starts knowing itself.
Init ==
    /\ peer_index = [n \in Nodes |-> {n}]
    /\ wallet_index = InitialWallets
    /\ replicas = [n \in Nodes |-> [w \in Wallets |->
                        IF w \in InitialWallets[n] THEN {n} ELSE {}]]
    /\ proofs = InitialProofs
    /\ net = EmptyBag
    /\ worker = [n \in Nodes |-> Idle]
    /\ joins = 0
    /\ network = [n \in Nodes |-> TRUE]

Next ==
    \/ \E n \in Nodes : HandleClusterManagementJob(n)
    \/ \E n \in Nodes : NetworkManagerStops(n)
    \/ \E p \in Joiners, cluster_id \in Clusters : PeerJoins(p, cluster_id)

Spec == Init /\ [][Next]_vars

\* Every relayer's executor keeps taking jobs and finishing handlers.
Fairness == \A n \in Nodes : WF_vars(HandleClusterManagementJob(n))

FairSpec == Spec /\ Fairness

-----------------------------------------------------------------------------

Jobs ==
    [type : {"ClusterJoinRequest"}, to : Nodes, cluster_id : Clusters, peer_id : Nodes]
    \cup [type : {"ReplicateRequest"}, to : Nodes, wallets : SUBSET Wallets]
    \cup [type : {"AddWalletReplica"}, to : Nodes, wallet_id : Wallets, peer_id : Nodes]
    \cup [type : {"ShareValidityProofs"}, to : Nodes, order_ids : SUBSET Orders, sender : Nodes]
    \cup [type : {"UpdateValidityProof"}, to : Nodes, order_id : Orders]

Frames ==
    {Idle}
    \cup [pc : {"add_peer_replicate", "join_replicate"}, peer_id : Nodes]
    \cup [pc : {"request_proofs"}, wallets : SUBSET Wallets]

\* The variables have their types, and no Replicate request in flight is
\* empty: send_replicate_request returns before sending one.
TypeOK ==
    /\ peer_index \in [Nodes -> SUBSET Nodes]
    /\ wallet_index \in [Nodes -> SUBSET Wallets]
    /\ replicas \in [Nodes -> [Wallets -> SUBSET Nodes]]
    /\ proofs \in [Nodes -> SUBSET Orders]
    /\ BagToSet(net) \subseteq Jobs
    /\ \A job \in BagToSet(net) : job.type = "ReplicateRequest" => job.wallets # {}
    /\ worker \in [Nodes -> Frames]
    /\ joins \in 0..MaxJoins
    /\ network \in [Nodes -> BOOLEAN]

\* Wallets, proofs and replica sets only grow here, so each of the three
\* properties below says of a condition that, once the cluster has settled,
\* it holds for good.  Nothing is sent again after a send has failed, so
\* each is promised only while every network manager runs.

NetworkStopped == Stopped # {}

WalletsReplicated ==
    \A n \in Nodes : \A p \in peer_index[n] : wallet_index[n] \subseteq wallet_index[p]

\* A peer a relayer has admitted with handle_cluster_join_job comes to
\* hold every wallet the relayer holds: the Replicate request is sent and
\* handle_replicate_request stores its wallets.
AdmittedPeerReplicates == <>[](WalletsReplicated \/ NetworkStopped)

ProofsShared ==
    \A p \in Nodes, o \in Orders :
        (OrderWallet[o] \in wallet_index[p] \ InitialWallets[p] /\ \E n \in Nodes : o \in proofs[n])
            => o \in proofs[p]

\* A relayer that came to hold an order's wallet by replication comes to
\* store the order's validity proofs when any relayer has them:
\* handle_replicate_request asks for the proofs it lacks,
\* handle_share_validity_proofs_job answers, and no answer reaches the book
\* of handle_updated_validity_proof before the order it is for.
ProofsReachReplicas == <>[](ProofsShared \/ NetworkStopped)

ReplicasKnown ==
    \A n \in Nodes, p \in Nodes : \A w \in InitialWallets[n] :
        w \in wallet_index[p] \ InitialWallets[p] => p \in replicas[n][w]

\* A relayer that held a wallet from the start learns of every peer that
\* comes to hold it by replication: the peer publishes Replicated after add_wallets and
\* handle_add_replica_job records it.
ReplicaAnnounced == <>[](ReplicasKnown \/ NetworkStopped)

=============================================================================
