------------------------------ MODULE OrderBook ------------------------------
(***************************************************************************)
(* The network order book of one relayer.                                  *)
(*                                                                         *)
(* Two pieces of code meet here.  The state applicator                     *)
(* (statev2/src/applicator/order_book.rs) keeps every known order, the     *)
(* reverse index from a wallet-share nullifier to the orders that depend   *)
(* on it, and the match priorities; each of its entry points runs in one   *)
(* write transaction.  The gossip server's order-book handlers             *)
(* (workers/gossip-server/src/orderbook.rs) feed it from the network; they *)
(* are async functions that query the chain and then write, with other     *)
(* work running in between.  The chain itself spends nullifiers at any     *)
(* time and the relayer learns of it through NullifyOrders.                *)
(*                                                                         *)
(* A handler is one action per stretch of code between two awaits that     *)
(* other work can observe.  The calls the handlers make on the global      *)
(* state (add_order, add_order_validity_proofs, contains_order) are taken  *)
(* to be the applicator's new_order, add_order_validity_proof and a read   *)
(* of the orders table.                                                    *)
(***************************************************************************)
EXTENDS Naturals, FiniteSets, TLC

CONSTANTS
    Orders,             \* order identifiers
    Nullifiers,         \* public share nullifiers
    Clusters,           \* cluster identifiers
    LocalCluster,       \* global_state.local_cluster_id
    Claimed,            \* the clusters a message may name as an order's manager
    Proofs,             \* validity proof bundles gossip may carry
    Workers,            \* handlers that may be in flight at once
    JobTypes,           \* the order-book jobs the network delivers
    None                \* Option::None

ASSUME
    /\ LocalCluster \in Clusters
    /\ Claimed \in [Orders -> SUBSET Clusters \ {{}}]
    /\ \A proof \in Proofs :
        /\ proof.original_shares_nullifier \in Nullifiers
        /\ {proof.linked, proof.reblind_valid, proof.commitments_valid} \subseteq BOOLEAN
    /\ JobTypes \subseteq
        {"OrderInfoResponse", "OrderReceived", "OrderProofUpdated", "OrderWitnessResponse"}

VARIABLES
    db,                 \* ORDERS_TABLE (orders and nullifier sets) and PRIORITIES_TABLE
    spent,              \* nullifiers the darkpool contract has seen spent
    nullify_pending,    \* spent nullifiers whose NullifyOrders is yet to be applied
    nullified,          \* history: nullifiers whose NullifyOrders has been applied
    worker              \* what each handler in flight is at

vars == <<db, spent, nullify_pending, nullified, worker>>

CLUSTER_DEFAULT_PRIORITY == 1
ORDER_DEFAULT_PRIORITY == 1

Idle == [pc |-> "idle"]

-----------------------------------------------------------------------------
(* The applicator: pure functions from a transaction's view to the view it *)
(* commits.  An error return aborts the transaction: the view is unchanged.*)

\* NetworkOrder::new: a fresh order is Received and carries no proof.
NetworkOrder(nullifier, cluster, is_local) ==
    [ public_share_nullifier |-> nullifier, cluster |-> cluster,
      state |-> "Received", validity_proofs |-> None,
      validity_proof_witnesses |-> FALSE, local |-> is_local ]

ContainsOrder(tx, id) == id \in DOMAIN tx.orders

ReadNullifierSet(tx, nullifier) == tx.nullifiers[nullifier]

WriteNullifierSet(tx, nullifier, set) == [tx EXCEPT !.nullifiers[nullifier] = set]

AppendToNullifierSet(tx, nullifier, id) ==
    WriteNullifierSet(tx, nullifier, ReadNullifierSet(tx, nullifier) \cup {id})

UpdateOrderNullifierKeepsOld(tx, id, old_nullifier, new_nullifier) ==
    AppendToNullifierSet(tx, new_nullifier, id)

UpdateOrderNullifier(tx, id, old_nullifier, new_nullifier) ==
    LET updated_old_set == ReadNullifierSet(tx, old_nullifier) \ {id}
    IN  AppendToNullifierSet(WriteNullifierSet(tx, old_nullifier, updated_old_set),
                             new_nullifier, id)

WriteOrderInfo(tx, id, order) == [tx EXCEPT !.orders = (id :> order) @@ @]

AddOrderWithTx(tx, id, order) ==
    LET indexed ==
            IF ContainsOrder(tx, id)
            THEN UpdateOrderNullifier(tx, id, tx.orders[id].public_share_nullifier,
                                      order.public_share_nullifier)
            ELSE AppendToNullifierSet(tx, order.public_share_nullifier, id)
    IN  WriteOrderInfo(indexed, id, order)

GetClusterPriority(tx, cluster) ==
    IF cluster \in DOMAIN tx.priorities
    THEN tx.priorities[cluster] ELSE CLUSTER_DEFAULT_PRIORITY

WriteOrderPriority(tx, id, order) ==
    LET priority == [ cluster_priority |-> GetClusterPriority(tx, order.cluster),
                      order_priority |-> ORDER_DEFAULT_PRIORITY ]
    IN  [tx EXCEPT !.priorities = (id :> priority) @@ @]

\* Both factors are the defaults in every priority this code writes.
GetEffectivePriority(priority) == priority.cluster_priority * priority.order_priority

NewOrderUnprioritised(tx, id, order) == AddOrderWithTx(tx, id, order)

NewOrder(tx, id, order) == AddOrderWithTx(WriteOrderPriority(tx, id, order), id, order)

AttachWithoutReindex(tx, id, proof) ==
    WriteOrderInfo(tx, id,
        [tx.orders[id] EXCEPT
            !.state = "Verified",
            !.public_share_nullifier = proof.original_shares_nullifier,
            !.validity_proofs = proof])

AttachValidityProofWithTx(tx, id, proof) ==
    LET prev_nullifier == tx.orders[id].public_share_nullifier
        new_nullifier == proof.original_shares_nullifier
        reindexed ==
            IF prev_nullifier # new_nullifier
            THEN UpdateOrderNullifier(tx, id, prev_nullifier, new_nullifier)
            ELSE tx
    IN  AttachWithoutReindex(reindexed, id, proof)

\* read_order_info_unchecked fails on an order the book does not hold.
AddOrderValidityProof(tx, id, proof) ==
    IF ContainsOrder(tx, id) THEN AttachValidityProofWithTx(tx, id, proof) ELSE tx

CancelKeepsProof(order) == [order EXCEPT !.state = "Cancelled"]

CancelOrderWithTx(order) ==
    [order EXCEPT !.state = "Cancelled", !.validity_proof_witnesses = FALSE,
                  !.validity_proofs = None]

NullifyOrdersWithTx(tx, nullifier) ==
    LET set == ReadNullifierSet(tx, nullifier)
    IN  IF set \subseteq DOMAIN tx.orders
        THEN [tx EXCEPT !.orders =
                [id \in DOMAIN @ |-> IF id \in set THEN CancelOrderWithTx(@[id]) ELSE @[id]]]
        ELSE tx

\* attach_validity_proof_witness of the order book: the witness is kept with
\* the order it is for.
AttachValidityProofWitness(tx, id) ==
    IF ContainsOrder(tx, id)
    THEN [tx EXCEPT !.orders[id].validity_proof_witnesses = TRUE]
    ELSE tx

-----------------------------------------------------------------------------
(* The chain.                                                              *)

CheckNullifierUnused(nullifier) == nullifier \notin spent

\* A wallet update lands on chain: its old nullifier is spent and the
\* relayer will be told.
SpendNullifier(nullifier) ==
    /\ nullifier \notin spent
    /\ spent' = spent \cup {nullifier}
    /\ nullify_pending' = nullify_pending \cup {nullifier}
    /\ UNCHANGED <<db, nullified, worker>>

\* nullify_orders: every order indexed by the nullifier is cancelled.
NullifyOrders(nullifier) ==
    /\ nullifier \in nullify_pending
    /\ db' = NullifyOrdersWithTx(db, nullifier)
    /\ nullify_pending' = nullify_pending \ {nullifier}
    /\ nullified' = nullified \cup {nullifier}
    /\ UNCHANGED <<spent, worker>>

-----------------------------------------------------------------------------
(* The gossip handlers.                                                    *)

IsLocal(cluster) == cluster = LocalCluster

Starts(w, type) == worker[w] = Idle /\ type \in JobTypes

Goto(w, frame) == worker' = [worker EXCEPT ![w] = frame]

VerifyWithoutLinkCheck(proof) ==
    /\ CheckNullifierUnused(proof.original_shares_nullifier)
    /\ proof.reblind_valid
    /\ proof.commitments_valid

\* verify_validity_proofs.  The Merkle root of the statement is looked up and
\* a root the contract never had is only logged.
VerifyValidityProofs(proof) ==
    /\ proof.linked
    /\ CheckNullifierUnused(proof.original_shares_nullifier)
    /\ proof.reblind_valid
    /\ proof.commitments_valid

\* handle_new_order up to the answer of the chain: a spent nullifier or a
\* failed request ends the handler.  The cluster is the one the message names.
HandleNewOrder(w) ==
    /\ Starts(w, "OrderReceived")
    /\ \E id \in Orders, nullifier \in Nullifiers :
        \E cluster \in Claimed[id] :
            IF CheckNullifierUnused(nullifier)
            THEN Goto(w, [pc |-> "add_order", order_id |-> id, nullifier |-> nullifier,
                          cluster |-> cluster])
            ELSE UNCHANGED worker
    /\ UNCHANGED <<db, spent, nullify_pending, nullified>>

\* handle_new_order from the answer on: the order is indexed as Received.
AddNewOrder(w) ==
    /\ worker[w].pc = "add_order"
    /\ LET job == worker[w]
       IN  db' = NewOrder(db, job.order_id,
                    NetworkOrder(job.nullifier, job.cluster, IsLocal(job.cluster)))
    /\ Goto(w, Idle)
    /\ UNCHANGED <<spent, nullify_pending, nullified>>

\* handle_new_validity_proof up to the verdict on the bundle; a bundle whose
\* message names the local cluster is trusted.
HandleNewValidityProof(w) ==
    /\ Starts(w, "OrderProofUpdated")
    /\ \E id \in Orders, proof \in Proofs :
        \E cluster \in Claimed[id] :
            IF IsLocal(cluster) \/ VerifyValidityProofs(proof)
            THEN Goto(w, [pc |-> "contains_order", order_id |-> id,
                          cluster |-> cluster, proof_bundle |-> proof])
            ELSE UNCHANGED worker
    /\ UNCHANGED <<db, spent, nullify_pending, nullified>>

\* The look in the book that decides whether the order is first added.
CheckContainsOrder(w) ==
    /\ worker[w].pc = "contains_order"
    /\ Goto(w, [worker[w] EXCEPT !.pc =
            IF ContainsOrder(db, worker[w].order_id) THEN "attach_proof" ELSE "add_proven"])
    /\ UNCHANGED <<db, spent, nullify_pending, nullified>>

AddProvenOrder(w) ==
    /\ worker[w].pc = "add_proven"
    /\ LET job == worker[w]
       IN  db' = NewOrder(db, job.order_id,
                    NetworkOrder(job.proof_bundle.original_shares_nullifier,
                                 job.cluster, IsLocal(job.cluster)))
    /\ Goto(w, [worker[w] EXCEPT !.pc = "attach_proof"])
    /\ UNCHANGED <<spent, nullify_pending, nullified>>

\* add_order_validity_proofs, the last write of handle_new_validity_proof
\* and of handle_order_info_response.  The request for the witness that
\* handle_new_validity_proof sends afterwards changes nothing here, sent or not.
AttachProof(w) ==
    /\ worker[w].pc = "attach_proof"
    /\ db' = AddOrderValidityProof(db, worker[w].order_id, worker[w].proof_bundle)
    /\ Goto(w, Idle)
    /\ UNCHANGED <<spent, nullify_pending, nullified>>

\* handle_order_info_response up to its first write: whatever state the peer
\* reported, the order is indexed as Received and its proof set aside.
HandleOrderInfoResponse(w) ==
    /\ Starts(w, "OrderInfoResponse")
    /\ \E id \in Orders, nullifier \in Nullifiers, proof \in Proofs \cup {None} :
        \E cluster \in Claimed[id] :
            /\ db' = NewOrder(db, id, NetworkOrder(nullifier, cluster, IsLocal(cluster)))
            /\ Goto(w, IF proof = None THEN Idle
                       ELSE [pc |-> "verify_info", order_id |-> id,
                             cluster |-> cluster, proof_bundle |-> proof])
    /\ UNCHANGED <<spent, nullify_pending, nullified>>

\* The verdict on the proof the peer attached.  A proof of another cluster
\* that is rejected, and a proof of the local cluster whose request for the
\* witness cannot be sent (request_order_witness fails once the network
\* manager has dropped its end of the channel), end the handler and leave
\* the order Received.
VerifyOrderInfo(w) ==
    /\ worker[w].pc = "verify_info"
    /\ \E sent \in BOOLEAN :
        LET accepted == IF IsLocal(worker[w].cluster) THEN sent
                        ELSE VerifyValidityProofs(worker[w].proof_bundle)
        IN  Goto(w, IF accepted THEN [worker[w] EXCEPT !.pc = "attach_proof"] ELSE Idle)
    /\ UNCHANGED <<db, spent, nullify_pending, nullified>>

HandleValidityWitnessResponse(w) ==
    /\ Starts(w, "OrderWitnessResponse")
    /\ \E id \in Orders : db' = AttachValidityProofWitness(db, id)
    /\ UNCHANGED <<spent, nullify_pending, nullified, worker>>

\* handle_order_book_management_job, for the jobs that write.
HandleOrderBookManagementJob(w) ==
    \/ HandleOrderInfoResponse(w) \/ VerifyOrderInfo(w)
    \/ HandleNewOrder(w) \/ AddNewOrder(w)
    \/ HandleNewValidityProof(w) \/ CheckContainsOrder(w) \/ AddProvenOrder(w)
    \/ AttachProof(w)
    \/ HandleValidityWitnessResponse(w)

-----------------------------------------------------------------------------

Init ==
    /\ db = [ orders |-> <<>>, nullifiers |-> [n \in Nullifiers |-> {}],
              priorities |-> <<>> ]
    /\ spent = {}
    /\ nullify_pending = {}
    /\ nullified = {}
    /\ worker = [w \in Workers |-> Idle]

Next ==
    \/ \E w \in Workers : HandleOrderBookManagementJob(w)
    \/ \E nullifier \in Nullifiers : SpendNullifier(nullifier)
    \/ \E nullifier \in Nullifiers : NullifyOrders(nullifier)

Spec == Init /\ [][Next]_vars

-----------------------------------------------------------------------------
(* Properties.                                                             *)

OrderRecords ==
    [ public_share_nullifier : Nullifiers, cluster : Clusters,
      state : {"Received", "Verified", "Cancelled"},
      validity_proofs : Proofs \cup {None},
      validity_proof_witnesses : BOOLEAN, local : BOOLEAN ]

Frames ==
    {Idle}
    \cup [pc : {"add_order"}, order_id : Orders, nullifier : Nullifiers, cluster : Clusters]
    \cup [pc : {"contains_order", "add_proven", "attach_proof", "verify_info"},
          order_id : Orders, cluster : Clusters, proof_bundle : Proofs]

\* The tables hold what their types say, and every order of the book has a
\* match priority: new_order writes both in one transaction.
TypeOK ==
    /\ DOMAIN db.orders \subseteq Orders
    /\ \A id \in DOMAIN db.orders : db.orders[id] \in OrderRecords
    /\ db.nullifiers \in [Nullifiers -> SUBSET Orders]
    /\ DOMAIN db.priorities = DOMAIN db.orders
    /\ \A id \in DOMAIN db.priorities : GetEffectivePriority(db.priorities[id]) >= 1
    /\ spent \subseteq Nullifiers
    /\ nullify_pending \subseteq spent
    /\ nullified \subseteq spent
    /\ worker \in [Workers -> Frames]

\* The reverse index is exact: an order is in the set of the nullifier it
\* records and in no other, however often add_order_with_tx and
\* attach_validity_proof_with_tx have moved it between nullifiers.
NullifierIndexConsistent ==
    \A nullifier \in Nullifiers :
        ReadNullifierSet(db, nullifier) =
            {id \in DOMAIN db.orders : db.orders[id].public_share_nullifier = nullifier}

\* nullify_orders cancels every order that depends on the spent nullifier
\* and touches no other order, whatever re-indexing came before it.
NullifyCancelsExactly ==
    [][\A nullifier \in nullify_pending \ nullify_pending' :
        \A id \in DOMAIN db.orders :
            IF db.orders[id].public_share_nullifier = nullifier
            THEN db'.orders[id].state = "Cancelled"
            ELSE db'.orders[id] = db.orders[id]]_vars

Sound(proof) == proof.linked /\ proof.reblind_valid /\ proof.commitments_valid

\* An order is Verified exactly while it holds a proof bundle, and the bundle
\* is for the nullifier the order is indexed by: no sequence of gossip,
\* re-adding (add_order_with_tx) and cancelling (cancel_order_with_tx) leaves
\* a bundle on an order that is not Verified or under another nullifier.
VerifiedHoldsItsProof ==
    \A id \in DOMAIN db.orders :
        LET order == db.orders[id]
        IN  /\ order.state = "Verified" <=> order.validity_proofs # None
            /\ order.validity_proofs # None =>
                order.validity_proofs.original_shares_nullifier
                    = order.public_share_nullifier

\* The bundle an order newly holds after a step.
Attached(id) ==
    LET bundle == db'.orders[id].validity_proofs
    IN  IF id \in DOMAIN db.orders /\ db.orders[id].validity_proofs = bundle
        THEN None ELSE bundle

\* A bundle that verify_validity_proofs rejects reaches the book only through
\* a handler whose message named the local cluster: every other bundle that
\* add_order_validity_proofs stores has passed the link check and both
\* proofs, whatever ran between the verdict and the write.
UnsoundBundleNeedsLocalClaim ==
    [][\A id \in DOMAIN db'.orders :
        Attached(id) # None /\ ~Sound(Attached(id)) =>
            \E w \in Workers :
                /\ worker[w].pc = "attach_proof" /\ worker'[w] = Idle
                /\ worker[w].order_id = id
                /\ IsLocal(worker[w].cluster)]_vars

\* "We can trust local (i.e. originating from cluster peers) proofs"
\* (handle_order_info_response, handle_new_validity_proof): an order the book
\* records as managed by another cluster holds only bundles that passed
\* verify_validity_proofs.
VerifiedProofsSound ==
    \A id \in DOMAIN db.orders :
        LET order == db.orders[id]
        IN  order.validity_proofs # None /\ ~order.local => Sound(order.validity_proofs)

\* Once NullifyOrders has been applied for a nullifier, no order that depends
\* on it is live: handle_new_order asks the chain before it indexes an order.
NoLiveOrderOnNullified ==
    \A id \in DOMAIN db.orders :
        db.orders[id].public_share_nullifier \in nullified
            => db.orders[id].state = "Cancelled"

\* A verified order keeps its proof until its nullifier is spent: gossip
\* about an order the book already holds never sends it back to Received.
VerifiedSurvivesGossip ==
    [][\A id \in DOMAIN db.orders :
        db.orders[id].state = "Verified" => db'.orders[id].state # "Received"]_vars

=============================================================================
