# TLA+ models of the renegade relayer

This directory holds TLA+ specifications of the relayer's concurrent and
distributed parts and of its pure algorithms (circuit types, gadgets, the
wallet, the `circuit_type` macro), the TLC configurations that check them, and
`PROJECT.json`, which records for every definition the source lines it
models, for every run what it checks, and for every hazard where in the code
it bites. Paths below are relative to the repository's `src/`.

## The system

A relayer is one process of a cluster. Its parts, and how they interact:

| Part | Source | State | Operations |
|---|---|---|---|
| Gossip heartbeat | `core/src/gossip/heartbeat.rs`, `types.rs`, `worker.rs` | peer index (peer -> last heartbeat), LRU expiry cache, replica list of each managed wallet, the timer's cursor, the job queue | timer loop, `send_heartbeat`, `maybe_expire_peer`, `record_heartbeat`, `merge_peer_index`, `add_new_peer`, `merge_wallets`, `merge_cluster_metadata` |
| Order book applicator | `statev2/src/applicator/order_book.rs` | orders table, nullifier -> orders index, priorities table | `new_order`, `add_order_validity_proof`, `nullify_orders` and their helpers |
| Gossip order-book handlers | `workers/gossip-server/src/orderbook.rs` | handlers in flight | order info request/response, new order, new validity proof, witness request/response, `verify_validity_proofs` |
| Cluster management | `workers/gossip-server/src/cluster.rs` | cluster members, wallets held, replicas | cluster join, replicate request, add replica, share and update validity proofs |
| Task queue interface | `state/src/interface/task_queue.rs` | per-wallet queues, history (applied by the replicated state machine) | `append_task`, `pop_task`, `transition_task`, `clear_task_queue`, pause/resume, `reassign_tasks`, getters |
| Raft transport | `state/src/replicationv2/network/gossip.rs` | the oneshot response channel of each call | `send_request`, `to_raft_response`, `new_p2p_client` |
| Network manager | `workers/network-manager/src/manager.rs` | job channel, swarm event stream, warm-up buffer, response channels held, discovered identity | the select loop, `handle_outbound_message`, `handle_inbound_message`, `replace_port`, cancel |
| Price reporter | `core/src/price_reporter/exchange/connection.rs`, `external-events/src/exchanges/connection.rs` | ring channel of capacity one, websocket | connect, pre-stream report, stream reader, keepalive |
| Circuit types and gadgets | `circuit-types/src`, `circuits/src/types/match.rs`, `circuits/src/zk_gadgets/merkle.rs`, `src/circuits/poseidon.rs`, `common/src/types/wallet.rs` | none (pure) | key split/combine, `MatchResult` conversions, opening and commitment, Merkle prove/verify, hash inputs, wallet conversion, reblinding, look-ups |
| `circuit_type` macro | `circuit-macros/src/circuit_type.rs`, `circuit_type/mpc_types.rs` | none (pure) | argument validation, generics, generated items, derived `to_scalars` / `from_scalars` / `commitment_randomness` / serde |
| Chain clients | `starknet-client`, `darkpool-client`, `arbitrum-client` | constants | default Merkle path, `Chain`, selectors |
| Bootloader | `node-support/bootloader/src/main.rs` | the config file and the snapshot file on the node's disk, the two child processes | `fetch_config`, `modify_config`, `download_snapshot`, `download_s3_file`, start of and wait for the sidecar and the relayer |
| API server, utilities | `core/src/api_server`, `util` | none that a protocol depends on | HTTP routing |

The timer thread enqueues heartbeat jobs; executor threads send heartbeats,
expire peers that stopped answering and merge the peer lists other relayers
gossip. Order-book gossip reaches the order-book handlers, which ask the chain
whether a nullifier is spent and then write through the applicator; the chain
listener applies `NullifyOrders` when a nullifier is spent. Cluster peers
replicate wallets and pass validity proofs to each other. Long-running wallet
operations are serialised in the task queue, which is replicated by raft over
the same gossip network: a raft client hands each request to the network
manager's executor with a response channel and waits on it. Before any of
this runs, the bootloader prepares the node's disk (the config with the
environment laid over it, the newest snapshot of the cluster) and starts the
relayer beside the snapshot sidecar.

What is hard in this code is what happens between two steps: state read under
one lock and used under the next, a chain query answered before an await and
acted on after it, jobs and messages that arrive late, twice or in another
order, and bounded structures (the expiry cache, the ring channel) at their
limit. `PROJECT.json` lists each such hazard at its line.

## Modules

### Heartbeat (`Heartbeat.tla`, `MCHeartbeat.tla`)

One relayer and its view of the network; the other relayers are environment
(`PeerAnswers`, `PeerAsks`, `PeerFails`).

| Variable | Code |
|---|---|
| `known_peers` | the peer index, a map from peer to `last_heartbeat` |
| `expiry_cache` | the `LruCache` of expiry times, least recently used first |
| `replicas` | `metadata.replicas` of every managed wallet |
| `peer_index` | the timer's cursor into the index's keys |
| `job_queue` | the gossip server's job channel |
| `worker` | what each executor thread is doing, with the values it holds across locks |
| `now` | the wall clock in seconds |
| `pending`, `alive` | environment: heartbeats sent and unanswered, peers still running |
| `network` | environment: whether the network manager still holds the receiver of `network_channel` |
| `expired_at` | history: when each peer was last expired |

A function of the code is one action per lock scope: `send_heartbeat` is
`SendHeartbeat` (the send, which returns an error before any expiry once the
network manager has stopped); `maybe_expire_peer` is `ReadClock` (the clock
is read before any lock is taken), `CheckExpiry` (read lock on the index),
`RemovePeers` (write lock on the index) and `CacheExpiry` (write lock on the
cache); `merge_peer_index` is `MergePeerIndexRead` (which also ends on a key
that is no peer id) and `MergePeerIndexWrite`. `merge_wallets` is one action:
its read-locked first phase only decides whether the second is needed, and
replica sets only grow there, so no other thread's step between the two
changes what is written. `Workers` is the set of executor threads; the runs
have two, the interleavings of a work-stealing runtime. Iteration order of
the `HashMap` is the constant `KeyOrder`. Subtraction of clock values keeps
the behaviour of `u64`: a negative difference wraps to a value larger than
every threshold.

A thread that panics is gone, and how it went matters. The `unwrap` of a
missing peer (`heartbeat.rs:332`) is taken under a read guard and leaves the
thread in `Panicked`. The `unwrap` of the send of `NewAddr`
(`heartbeat.rs:292`) is taken while `merge_peer_index` holds the write guards
of index and cache: the thread ends in `PanickedWriting` after the insert,
both locks are poisoned, and every other thread panics at its next lock
(`PanicOnPoisonedLock`). `remove_peers` and the locking helpers of the global
state are outside this source tree and are modelled from the specification.

### OrderBook (`OrderBook.tla`, `MCOrderBook.tla`)

The applicator's functions are operators from a transaction's view `tx` to the
view it commits (`AddOrderWithTx`, `AttachValidityProofWithTx`,
`UpdateOrderNullifier`, `NullifyOrdersWithTx`, ...); an error return leaves the
view unchanged. `db` is the committed view. The gossip handlers are actions
split where they await the chain or the book: `HandleNewOrder` (chain query)
then `AddNewOrder` (write); `HandleNewValidityProof` (verification),
`CheckContainsOrder`, `AddProvenOrder`, `AttachProof`;
`HandleOrderInfoResponse`, `VerifyOrderInfo`, `AttachProof`. The chain is the
set `spent`; `SpendNullifier` spends one and `NullifyOrders` applies the
resulting transition. The handlers' calls on the global state are taken to be
the applicator's entry points. The cluster of an order is whatever a message
says it is: every handler takes it from its message, among the clusters
`Claimed` allows for the order, writes it into the book and decides by it
whether the bundle is verified. `VerifyOrderInfo` has both error returns of
`handle_order_info_response`: the verification that rejects a bundle of
another cluster, and the witness request of a local order that cannot be
sent. A proof bundle is a record of its nullifier and of the outcome of each
check `verify_validity_proofs` makes.

`nullify_orders_with_tx` fails as a whole when the nullifier set names an
order the book lacks. The operator has the failing exit, and no reachable
state takes it: `NullifierIndexConsistent` is the reason, since it says the
sets name exactly the live orders of the book.

### Cluster (`Cluster.tla`, `MCCluster.tla`)

Every relayer of `Nodes` runs the handlers of `cluster.rs`; the jobs between
them are the bag `net`, so a job sent twice is there twice.

| Variable | Code |
|---|---|
| `peer_index` | the peers each relayer has indexed (`add_single_peer`) |
| `wallet_index` | the wallets each relayer holds (`add_wallets`, `get_all_wallets`) |
| `replicas` | the replica set of each wallet at each relayer (`add_replica`) |
| `proofs` | the orders a relayer's order book has validity proofs for |
| `net` | jobs sent to a relayer's gossip server and not yet handled |
| `worker` | the handler a relayer has in flight, with the values it holds across its sends |
| `joins` | environment: announcements published so far |
| `network` | environment: for each relayer, whether its network manager still holds the receiver of `network_channel` |

`handle_cluster_join_job` is `JoinIgnored` (the early return), `JoinAddPeer`
(`add_peer_to_cluster` up to its await of `add_single_peer`),
`AddPeerToCluster` (the read of the wallet index after that await and the
first send) and `JoinReplicate` (the second read of the wallet index and the
second send). `handle_replicate_request` is `ReplicateAddWallets` (store,
publish `Replicated`) and `ReplicateRequestProofs` (read the order book,
publish the proof request, also when it names no order). The three handlers
of one access are one action each. Every send goes through `Send`: once
`NetworkManagerStops` has taken a relayer's network manager away the send
fails, nothing is delivered, and the handler returns at that point without
the steps that follow (`ReplicateRequestFails`, the `?` of
`handle_replicate_request`). A pubsub message becomes one job at every subscriber but
its publisher; a `Replicated` message becomes one `AddWalletReplica` job per
wallet. The calls on the global state are outside this source tree:
`add_wallets` gives a new wallet the local peer as its replica and puts its
orders in the book, `add_replica` does nothing for a wallet the relayer does
not hold, and `add_order_validity_proofs` attaches a bundle to an order the
book knows (`KnownOrders`) and refuses any other. `Init` is the state after
`update_global_state_after_startup`: a relayer knows itself. `PeerJoins` is a
peer's announcement; it may name a cluster other than the local one, which is
what the handler's first check is for.

### TaskQueue (`TaskQueue.tla`, `TaskQueueSpec.tla`, `MCTaskQueue.tla`)

The task queue interface of the replicated state,
`state/src/interface/task_queue.rs`.

| Variable | Code |
|---|---|
| `task_queues` | the `task_queues` table: per key the queued tasks, head first, each with its state, its executor and the queues its descriptor names |
| `paused` | the keys of the paused queues (`is_queue_paused`) |
| `task_history` | the `task_history` table: per key the popped tasks, latest first |
| `issued` | environment: the identifiers `TaskIdentifier::new_v4` has handed out |

Each proposer (`append_task`, `pop_task`, `transition_task`,
`clear_task_queue`, `pause_multiple_task_queues`,
`resume_multiple_task_queues`, `reassign_tasks`) is an action that builds the
`StateTransition` of the source and hands it to `SendProposal`; the forms with
one key and `append_wallet_refresh_task` are cases of these. Proposers read no
state and the log applies proposals in the order they are submitted, so a
proposal and its application are one step: every interleaving of the peers'
proposals is an order of the actions. The getters are operators on the tables.

The applicator is outside this source tree. Its operators (`Apply...`) follow
the specification's task queue semantics, read as follows: an append to an
idle queue that is not paused starts the task; a transition is valid only for
the head of a queue, in `Running` or `Preemptive`, to a `Running` state with
no smaller step and with `committed` never reset; a pop removes a task only
from the head, archives it as `Completed` or `Failed` and starts the next task
unless the queue is paused; a preemption changes all of its queues or, when
one of them has a committed head, none, and puts the task that ran back to
`Queued`; a resume unpauses its queues and removes the head of those that were
paused; a reassignment moves the failed peer's tasks to the new executor and
restarts an uncommitted running task at step 0; a clear empties the queue and
leaves its pause flag.

`TaskQueueSpec` is what the queues promise without states, steps and
executors: first in, first out; only the front of a queue may run; a
preemptive task goes to the front of all its queues in one step. `TaskQueue`
implements it under the mapping that keeps the identifiers of the queued tasks
(`order`), takes the tasks in `Running` or `Preemptive` as those that may run
(`active`), and `paused` as `halted`.

`pop_task` sends no executor (`task_queue.rs:182`), although the specification
has the promoted head run on the peer that proposed the pop: the promoted task
keeps the executor it was appended with. `PROJECT.json` records the difference
as a finding.

### PriceStream (`PriceStream.tla`, `MCPriceStream.tla`)

One call of `create_receiver` of an exchange connection, in either copy of
the code (`core/src/price_reporter/exchange/connection.rs`,
`external-events/src/exchanges/connection.rs`), for one exchange.

| Variable | Code |
|---|---|
| `crate`, `exchange` | which copy runs, and the argument of `create_receiver` |
| `pc`, `result` | where `create_receiver` stands (dispatch, pre-stream, connect, subscribe, returned) and what it returned |
| `task` | every task it may spawn (pre-stream, reader, keepalive, the UniswapV3 delegate): none, running, or how it ended |
| `worker_handles` | the tasks whose `JoinHandle` is in `WorkerHandles` |
| `channel`, `receiver` | the ring channel, oldest report first, and who holds its receiver |
| `socket` | the websocket |
| `streamed`, `latest_sent` | environment and history: the prices streamed so far, the report sent into the ring last |

`create_receiver` is one action per step between its awaits; each spawned
task is an action per loop iteration. A send into the ring (`RingSend`) drops
the oldest report when the ring is full and fails when the receiver is gone;
an `unwrap` on a failed send, on the end of the stream, or on a message that
is not JSON ends the task with a panic. The exchange streams prices, sends
anything else, and hangs up when it likes; the price reporter reads the ring
or drops the receiver. The exchange handlers themselves are outside this
source tree and are modelled from the specification by their outcome.

TLC reaches three behaviours of the code that `PROJECT.json` records as
findings: the pre-stream report, sent five seconds late into the same ring,
replaces a fresher streamed price (`connection.rs:251`, `ReportsNeverGoBack`
with `ps_stale.cfg`); the external-events
reader panics on any message outside the JSON protocol, a ping included
(`connection.rs:288`); and the copy in core keeps no handle of the
pre-stream task.

### Transport (`Transport.tla`, `MCTransport.tla`)

The network manager's executor and the raft clients that call through it.

| Code | Model |
|---|---|
| `NetworkManagerExecutor` (`manager.rs:161-227`) | `executor`: `running`, `discovered_identity`, `warmup_finished`, `warmup_buffer`, `response_channels` |
| the job channel, the swarm's event stream, the wallet update topic | `job_channel`, `swarm_events`, `bus`: sequences, oldest first |
| the swarm | `swarm`: requests in flight, addresses known, inbound channels open, what was published, answered, given up |
| `executor_loop`'s `select!` (`manager.rs:230-289`) | `ExecutorLoop`: one action per arm, `HandleOutboundMessage`, `HandleInboundMessage`, `HandleWalletUpdate`, `Cancelled` |
| `handle_outbound_message` (`manager.rs:322-360`) | one action per variant: `OutboundRequest`, `OutboundResponse`, `OutboundPubsub`, `OutboundManagementMessage` |
| `handle_inbound_message` (`manager.rs:291-320`) | `InboundRequestResponse`, `InboundPubsub`, `InboundIdentify`, `InboundIgnored` |
| `replace_port` (`manager.rs:63-81`) | `ReplacePort`: the transport component of the address is replaced, not appended |
| `send_request` (`gossip.rs:64-81`) | `SendRequest` up to the await, `Resume` from there, `ToRaftResponse` |
| a oneshot channel | `Empty`, `Full(body)` or `Closed`: a sender that is dropped wakes the receiver with an error |

`manager.rs` has no arm for an outbound job that carries a response channel:
`gossip.rs` is written against a job type the manager of this tree does not
have yet. `OutboundRequestWithResponse` and the routing of a response to its
channel are therefore written from the contract `send_request` relies on (the
manager keeps the sender until the response to that request arrives, and a
manager that returns drops what it holds), and are marked as modelled from the
specification in `PROJECT.json`, as are the handlers of the manager's
sub-modules (`handle_identify_event`, `forward_outbound_pubsub`,
`handle_control_directive`), the state the executor starts in and what it
drops when it returns. A request is named by a number; serialisation is the
variant of the message and whether its bytes deserialise as a raft response.

The warm-up ends with the Identify event that confirms the local address, as
the specification says ("replays them once the local identity is confirmed
via `Identify`"). The executor of this tree has two flags,
`discovered_identity` and `warmup_finished`, and its comments speak of a
warm-up period that elapses (`manager.rs:147`, `manager.rs:173`); the code
that sets either flag is in a sub-module outside the tree. Should the period
end on a timer instead, `WarmupReplaysInOrder` would have to be stated of
`warmup_finished` alone.

The environment: workers publish and answer, peers answer requests in any
order, send requests of their own and close channels, the swarm reports
failures, Identify reports an address at any time, the coordinator cancels.
`MaxInputs` bounds what the environment asks of the node in one behaviour.

### Bootloader (`Bootloader.tla`, `MCBootloader.tla`)

`main` of the bootloader as a program counter over its steps, each step an
action with every outcome it has; a step that returns `Err` or panics ends
`main`.

| Code | Model |
|---|---|
| the file at `CONFIG_PATH`, `snapshot.gz` | `config_file`, `snapshot_file`: absent, torn or whole; a config is, for each key, whether its value is the bucket's or the environment's; a snapshot is its cluster and its `last_modified` |
| `fetch_config`, `modify_config` (`main.rs:97-132`) | `FetchConfig`, `ModifyConfig` with `Parsed` and `Overlay` |
| `download_snapshot` (`main.rs:135-164`) | `ListSnapshots` (the prefix `SnapPath`, one page of `MaxKeys` keys, the empty listing) and `GetSnapshot` (`Latest`) |
| `download_s3_file` (`main.rs:192-224`) | `DownloadS3File`: what it returns and what it leaves at the destination |
| the spawns and `try_join!` (`main.rs:75-93`) | `Spawn`, `Joined`, `WaitFails` |
| the snapshot bucket, the children, whoever starts the node | `Uploads`, `Exits`, `Restart` |

Two details of the code carry the module. `File::create` empties the
destination before the body is written, and `write_all` on a tokio file
returns when the last write has been handed to a background task, not when it
has been done: the function can return `Ok` over a file that is short, for a
moment or, when that write fails, for good. The model takes the file as its
next reader may find it. And a cluster's snapshots are found by the prefix
`cluster-{id}` of their key, which is a comparison of strings: cluster ids are
sequences of characters, and the model has a cluster whose id extends the
node's own.

The relayer's config parser is outside this source tree; a config that does
not name the cluster is taken not to parse (the `expect` of
`download_snapshot`). `Restart` starts `main` again after it ended or while it
waits, on the disk as it was left or on an empty one.

`try_join!` (`main.rs:88`) completes when the second of the two waits does.
`RelayerExitEndsMain` asks that the exit of the relayer alone ends `main`,
which is what a supervisor needs, and the code does not give it
(`bl_supervision.cfg`).

### Algorithms (`Field`, `Keychain`, `CircuitType`, `BaseType`, `MatchResult`, `Merkle`, `Wallet`, `Algorithms`, `MCAlgorithms`)

The sequential code: functions of values, one operator each, named after the
function.

| Module | Source | Operators |
|---|---|---|
| `Field` | (conventions) | outcomes `Ok`, `Err`, `Panic`; `ScalarToU64`; field elements `Sc`, the hash `Sponge` |
| `Keychain` | `circuit-types/src/keychain.rs` | `SplitBiguintIntoWords`, `CombineWordsIntoBiguint`, `SerializeKey`, `DeserializeKey`, the conversions to and from an ed25519 key |
| `CircuitType` | `circuit-macros/src/circuit_type.rs`, `circuit_type/mpc_types.rs` | `Validate`, `ParseMacroArgs`, the identifier helpers, `ParamsFromGenerics`, `MergeGenerics`, `FilterGenerics`, `CircuitTypeImpl` and the builders of the MPC types |
| `BaseType` | `circuit_type.rs`, `keychain.rs`, `fee.rs`, `note.rs`, `transfers.rs`, `macro_tests.rs` | the annotated structs; `BuildSerializeMethod`, `BuildDeserializeMethod`, `BuildCommitmentRandomnessMethod`, the serde methods; `FeeIsDefault`, `NoteCommitment` |
| `MatchResult` | `circuits/src/types/match.rs` | both serialised forms, `Open`, `OpenAndAuthenticate`, `Commit`, `CommitVerifier` |
| `Merkle` | `circuits/src/zk_gadgets/merkle.rs`, `darkpool-client/src/constants.rs`, `starknet-client/src/lib.rs` | `ComputeRoot`, `Prove`, `Verify`, both `DEFAULT_AUTHENTICATION_PATH`s, `Chain`'s `Display` and `FromStr`; reference definitions `TreeRoot`, `AuthPath` |
| `Wallet` | `common/src/types/wallet.rs`, `src/circuits/poseidon.rs` | `IntoSizedCircuitWallet`, the commitments and the nullifier, `ReblindWallet`, `RemoveDefaultElements`, `GetBalanceAndFeeForOrder`, the index-map serialisers; the hash inputs and `Evaluate` |
| `Algorithms` | the callers | one state machine over all of them |

How data is abstracted:

- A field element is a term: `Sc(n)` is the scalar `n`, `Sponge(elements)` the
  hash of a sequence of terms. The hash is a free constructor, so two hashes
  are equal exactly when their inputs are. What the model can tell apart is
  which values are hashed and in which order, and that is what the code
  decides. A commitment and a constraint variable stand for the value they
  hide; a proof records the circuit it was made for and whether the witness
  satisfied it.
- A call returns `Ok(v)`, `Err(e)` or `Panic`; every `unwrap`, slice and
  assertion of the code that can fail is a `Panic` of its operator.
- Widths are constants that keep the code's relations: a byte has `ByteBase`
  values, a scalar holds `SCALAR_MAX_BYTES` bytes of a key in a buffer of one
  byte more, the group order lies between the two, a `u64` has `U64` values.
- An identifier of the macro is the sequence of its parts, a struct its
  identifier, generics and fields in declaration order, a generated item the
  trait or type it provides and the identifier it provides it for. A derived
  method is the function the generated code computes.
- A string (`Chain`) is the word it spells and whether it is in lower case.
- The MPC fabric answers an opening by delivering it, by a network error, or
  with a tampered share, which only the authenticated opening notices.
- The derived `Deserialize` first reads a vector of scalars, which can fail
  or come back short, and then rebuilds the value from it
  (`circuit_type.rs:496-497`): `SerdeDeserialize` takes the outcome of the
  read as its argument.
- `reblind_wallet` indexes the last and the last but one private share. The
  shares are those of a `SizedWalletShare`, whose shape is fixed by the
  circuit's sizes and has more than two scalars for every size, so the
  subtraction at `wallet.rs:215` cannot underflow and the operator has no
  such exit.

`Algorithms` has one variable, `call`: the operation in use, its argument and
the values returned so far. `Init` chooses an operation and an argument;
every action is one call of a function on the argument or on what the calls
before it returned, in the sequences the callers use: flatten and rebuild a
match, prove and verify, split, combine and serialise a key, serialise and
deserialise a value, parse the macro's arguments and generate, merge and
filter generics, reblind a wallet again and again, hash one wallet and then
another with the same or a fresh sponge.

## Runs

| Run | Model | Checks | Result |
|---|---|---|---|
| `hb_concurrent` | 1 remote peer, 2 executor threads, clock to 2, a network manager that may stop, fair | `TypeOK`, `OnlyResponsesRefresh`, `DeadPeerExpires` | holds |
| `hb_readd_race` | 1 remote peer, 2 threads | `InvisibilityWindow` | violated: the peer is re-added between `remove_peers` and the cache entry |
| `hb_stale_job` | 1 remote peer, 1 thread | `ExpiryFindsPeer` | violated: a queued heartbeat job for a peer already expired panics at the `unwrap` |
| `hb_timeout_race` | 1 remote peer, 2 threads | `TimeoutDecisionSound` | violated: a response recorded after the clock read makes `now - last_heartbeat` underflow |
| `ob_safety` | 2 orders, 2 nullifiers, 5 bundles, 2 handlers, all jobs, one order that messages place in either cluster | `TypeOK`, `NullifierIndexConsistent`, `VerifiedHoldsItsProof`, `UnsoundBundleNeedsLocalClaim`, `NullifyCancelsExactly` | holds |
| `ob_stale_check` | 1 handler, `OrderReceived` only | `NoLiveOrderOnNullified` | violated: the nullifier is spent and nullified between check and write |
| `cl_join` | 3 relayers (one holds a wallet of 2 orders), 1 joiner announcing up to twice, 1 network manager that may stop, fair | `TypeOK`, `AdmittedPeerReplicates`, `ProofsReachReplicas`, `ReplicaAnnounced` | holds |
| `tq_safety` | 2 peers, 2 queues, 3 tasks, steps 0..1, every proposer with any argument | `OneRunningTask`, `TaskHistoryFillsLen`, `CommittedStaysPut`, `PreemptIsAtomic`, `ImplementsTaskQueueSpec` | holds |
| `ps_stream` | both copies, every exchange, ring of 1, 2 streamed prices, fair | `TypeOK`, `StoppedStreamIsVisible`, `HangupEndsEveryTask` | holds |
| `alg_calls` | every operation over the argument sets of `MCAlgorithms` | `TypeOK`, `OpenReturnsTheMatch`, `MerkleLeftmostOpeningVerifies`, `MerkleOpeningIsSound`, `DefaultPathOpensEmptyTree`, `KeyWordsRoundTrip`, `ScalarsRoundTrip`, `ReblindSharesAreFresh`, `CircuitWalletKeepsEveryElement`, `WalletHashBindsWallet` | holds |
| `nm_transport` | 2 raft clients, 1 peer, 2 requests, 2 pubsub messages, 1 inbound request, 3 inputs of the environment, fair | `TypeOK`, `WarmupReplaysInOrder`, `OkIsTheReplyToThisCall`, `CallsEndUnlessUnanswered` | holds |
| `bl_boot` | 3 clusters (`a`, `ab`, `c`), 3 snapshots, pages of 2 keys, 3 starts, every required variable missing in turn | `RestoresNewestSnapshot`, `ConfigCarriesEnvironment` | holds |

Configurations kept beside the runs; each checks one property that the code
violates, and `PROJECT.json` records what the trace shows as a finding:

| Configuration | Module | Property | What TLC finds |
|---|---|---|---|
| `ob_downgrade.cfg` | `MCOrderBook` | `VerifiedSurvivesGossip` | a late `OrderReceived` resets a verified order |
| `ob_claimed_cluster.cfg` | `MCOrderBook` | `VerifiedProofsSound` | an order recorded under another cluster gets an unverified bundle from a message that names the local cluster |
| `ps_stale.cfg` | `MCPriceStream` | `ReportsNeverGoBack` | the pre-stream report, sent after its sleep, follows a fresher streamed price into the ring |
| `nm_unanswered.cfg` | `MCTransport` | `NoCallWaitsOnNothing` | the swarm gives a request up, the manager drops the event, `send_request` waits for ever |
| `bl_torn.cfg` | `MCBootloader` | `StartsOnWholeFiles` | `download_s3_file` returns `Ok` over a short file and the relayer starts on it |
| `bl_prefix.cfg` | `MCBootloader` | `SnapshotIsOfThisCluster` | a node of cluster `a` restores the newer snapshot of cluster `ab` |
| `bl_truncated.cfg` | `MCBootloader` | `RestoresNewestOfAny` | with three snapshots and pages of two keys the newest is not listed |
| `bl_supervision.cfg` | `MCBootloader` | `RelayerExitEndsMain` | the relayer exits and `main` waits for the sidecar |

`InvisibilityWindow` is the specification's peer-expiry invisibility. The
executor runs its handlers on several threads, and with two of them the
property fails: expiry removes the peer under one lock and records the expiry
under the next, and a heartbeat merged in between finds the peer in neither
place.

`hb_concurrent` states `DeadPeerExpires` up to what ends the protocol: the
network manager stopping (no heartbeat is sent, and `send_heartbeat` returns
before the expiry) and the loss of every executor thread. The run reaches
both, and the panic that poisons the locks.

`ob_safety` takes the cluster of an order from each message, so the book can
hold an order under one cluster while a message about it names another.
`VerifiedHoldsItsProof` and `NullifierIndexConsistent` hold whatever the
messages claim. `UnsoundBundleNeedsLocalClaim` is the trust the code really
extends: a bundle that fails verification is attached only by a handler whose
own message names the local cluster. `VerifiedProofsSound` is the trust the
comment at `orderbook.rs:135` describes, stated of the cluster the book
records, and `ob_claimed_cluster.cfg` shows that it does not hold.

`cl_join` holds although `handle_cluster_join_job` sends every Replicate
request twice (`cluster.rs:75` after `cluster.rs:100`): the handlers
downstream are idempotent, and the duplicate costs a second `Replicated`
message and a second proof request to every member of the cluster. The
specification has one request per admission; `PROJECT.json` records the
difference as a finding. The three liveness properties are stated up to the
stop of a network manager: the handlers have no retry, so a send that fails
is a wallet, a proof or an announcement that never arrives, and the run
includes those behaviours. `ReplicaAnnounced` is stated of the relayers that
held the wallet from the start; a relayer that receives the wallet later can
hear of a replica before it holds the wallet, and `add_replica` then drops
the announcement.

`nm_transport` checks the calls of raft through the manager from the first
job to the cancel. `CallsEndUnlessUnanswered` is as strong as the code allows:
`send_request` has no timeout and the manager acts on no failure event, so a
call whose request the swarm gave up stays open; every other call ends. When
the executor returns on the cancel signal a client that calls or waits
panics on an `unwrap` (`gossip.rs:76`, `gossip.rs:79`) where the
specification has cancellation propagate cooperatively.

`bl_boot` states `RestoresNewestSnapshot` of the starts in which one listing
held every object under the prefix and every object was the cluster's own,
and of a snapshot file that is whole; the three configurations above show
what happens outside each of the three conditions.

`TaskHistoryFillsLen` is checked for every choice of the tasks that have a
historical form (`HistoricalTask::from_queued_task` is outside this source
tree) and promises the full length when none of the queued tasks is dropped.
When one is, `get_task_history` returns fewer than `len` tasks although the
history could fill the rest: the room for the history is computed before the
filter (`task_queue.rs:66`).

`alg_calls` states each property with the precondition under which the code
keeps it, and the states outside the precondition are reachable in the same
run. TLC finds each of the following when the precondition is dropped, and
`PROJECT.json` records them as findings:

| Where | What the code does |
|---|---|
| `match.rs:164` | the authenticated deserialiser reads `quote_amount` where `base_mint` was written: a match flattened and rebuilt has the two exchanged |
| `match.rs:184` | `scalar_to_u64` keeps the low eight bytes: a mint or an amount of 2^64 or more opens to another value |
| `merkle.rs:38` | no path selection: only the opening of the leftmost leaf verifies |
| `merkle.rs:171` | `tree_height - 1` underflows for height 0 and slices out of bounds for a height past the commitments: the verifier panics |
| `starknet-client/src/lib.rs:85` | `curr_val` is never advanced: the default path is not the opening of the empty tree |
| `keychain.rs:226` | a public key with a zero top byte panics the conversion to an ed25519 key |
| `circuit_type.rs:497` | the derived `Deserialize` panics on a vector that is too short |
| `poseidon.rs:187` | a sponge that is reused carries the first input into the second hash |
| `wallet.rs:165` | a wallet with more elements than the circuit wallet holds is cut without an error |

Every property of a passing run is listed in `PROJECT.json` with a change to a
mapped definition (a dropped check, an open boundary, a cursor that does not
wrap, a missing re-index) under which TLC finds the property violated.

## Bounds

- Thresholds are scaled to `HEARTBEAT_FAILURE_MS = 1000` and
  `EXPIRY_INVISIBILITY_WINDOW_MS = 2000`, keeping failure < window as in the
  code (7 s and 10 s). `MaxTime = 2` lets a peer be expired (1 s) and be
  re-added inside its window; one remote peer beside the local one is what
  the races of expiry, merge and response need, and a second would not fit
  the time of a run with two threads.
- `MaxTimerJobs = 1` and `MaxInboundJobs = 1` cap the heartbeat jobs and the
  inbound messages waiting in the queue. One waiting job of each kind behind a
  job in progress is what the stale-job trace needs.
- `EXPIRY_CACHE_SIZE = 2` holds every peer, so no entry is evicted in the
  passing run.
- The order book has two orders (one of the local cluster, one of a remote
  cluster) and two nullifiers: an order can be re-indexed from one nullifier
  to the other and back, and nullifying one must leave the other order alone.
  The five bundles take every exit of `verify_validity_proofs`. Messages
  about the first order name either cluster (`MCClaimed`), messages about the
  second the remote one. The two handlers are symmetric: no definition names
  one of them, and every property of the run is a safety property.

- The cluster has three relayers: one that holds a wallet and the proofs of
  one of its two orders, one that holds nothing (it admits the joiner without
  a request, receives announcements of a wallet it does not hold and proof
  requests it cannot answer), and the joiner. `Joiners = {j}` and
  `MaxJoins = 2` let the joiner announce itself twice, to its own cluster or
  to another, so that up to four Replicate requests and their answers cross.
  `MaxStops = 1` lets the network manager of any one relayer stop at any
  time: the holder's (nothing is sent to the joiner), the joiner's (it stores
  the wallets and announces nothing) or the third's.
  With every relayer a possible joiner the state space exceeds what TLC
  explores in the time a run is given.
- The task queues have two keys, three tasks and two peers: a queue holds a
  running task, a queued one and a preemptive one at once, a settlement
  preempts both queues while one of them has a committed head, and a task is
  reassigned from one peer to the other. `MaxStep = 1` gives a running task an
  earlier and a later step, committed or not. `get_task_history` is asked for
  the lengths `0..MaxLen = 3`, below, at and above what a queue and its
  history hold. Peers, queues and task identifiers are symmetric: no
  definition names one of them, and every property of the run is a safety
  property.

- `ps_stream` has a ring of capacity one, as the code, and two streamed
  prices: with the pre-stream report that makes three sends into a ring of
  one, from two tasks, with the receiver reading in between, not reading, or
  gone. All five exchanges and both copies of the code are initial states.
- `alg_calls` scales the widths: `U64 = 8`, `ByteBase = 4`,
  `SCALAR_MAX_BYTES = 2` in a buffer of 3, `GroupOrder = 37` (between 4^2 and
  4^3, as the Ristretto order lies between 256^31 and 256^32),
  `ROOT_KEY_WORDS = 2`, `PUBLIC_KEY_LENGTH = 3`. Keys range over every value
  of up to one byte more than a root key holds, so that short keys, full keys
  and keys that do not fit all occur. Match fields lie below and above `U64`.
  Merkle trees have `2^(MERKLE_HEIGHT - 1) = 4` leaves over two leaf values,
  every leaf index, and statements of height 0, the true height, one more and
  three more. Wallets have up to two balances, orders and fees against
  `MAX_BALANCES = 2`, `MAX_ORDERS = 1`, `MAX_FEES = 1`: below, at and above
  each bound, with bounds that differ. Every annotated struct is serialised
  with every value over two scalars per leaf; the macro is called with every
  set of arguments and an unknown one, on structs without generics, with a
  const generic, and with a parameter named like the macro's own (`N`).
  `MaxReblinds = 3` reblinds a wallet three times in a row, so that shares of
  four versions are compared.

- `nm_transport` has two raft clients and one peer, two requests, two pubsub
  messages and one inbound request: two calls are open at once and their
  responses cross, a message is buffered during the warm-up while another is
  sent after it, and a response races the cancel. `MaxEvents = 2` and
  `MaxBus = 1` bound what waits in the swarm's stream and on the bus;
  `MaxInputs = 3` bounds the events the environment adds in one behaviour
  (responses, failures, inbound requests, Identify, closed channels, wallet
  updates), which is what keeps the run within its time.
- `bl_boot` has the clusters `a` (the node's), `ab` (whose path the node's
  prefix matches) and `c`, up to `MaxSnapshots = 3` objects against pages of
  `MaxKeys = 2`, so that listings are complete, complete with foreign
  objects, and cut; `MaxBoots = 3` starts, so that a start inherits the disk
  of a start that itself inherited one. The environments are the full one and
  the full one without `PUBLIC_IP`, `CONFIG_FILE`, `P2P_PORT` or
  `SNAPSHOT_BUCKET`: the optional variable and one required variable of each
  step.

## Fairness

`hb_concurrent` assumes weak fairness of the clock, of the timer loop and of
each executor thread's next step: the timer is a thread of its own that sleeps
and loops, and an executor thread that holds a job runs it to the end. Nothing
is assumed of the network: a heartbeat may stay unanswered for ever, and the
network manager may stop. The liveness property is stated for a peer that has
stopped, whose last heartbeat is old enough before the clock bound, and holds
as long as an executor thread survives and heartbeats can be sent.

`cl_join` assumes weak fairness of each relayer's gossip server
(`HandleClusterManagementJob`): a job in the queue is eventually handled and a
handler that has started runs to its end. Announcements are not fair: a peer
need not join, and a network manager need not stop. Every job that was sent
is delivered; the code has no retry, so a Replicate request whose send failed
leaves the admitted peer without wallets until it announces itself again. The
run does not check for deadlock, since a cluster with nothing to replicate is
at rest.

`tq_safety` assumes no fairness: every property of it is a safety property.
The module's `TypeOK` is kept as documentation of the tables and is not among
the run's properties: a transition accepted for any state, the change it was
checked against, is found by `CommittedStaysPut`.

`ps_stream` assumes weak fairness of `create_receiver`'s own steps (it is
awaited), of the pre-stream task's send (it sleeps and then sends), of the
keepalive task (it pings every fifteen seconds), and of a reader only while
the socket is closed: a reader blocked on an open socket proceeds when the
exchange sends, and nothing is assumed of the exchange. The run does not
check for deadlock: a connection whose tasks have all ended is at rest.

`alg_calls` assumes no fairness and does not check for deadlock: a sequence
of calls ends.

`nm_transport` assumes weak fairness of each arm of the executor's select
and of a client whose await has resolved: `tokio::select!` polls its arms in a
random order, so an arm that stays ready is taken. Nothing is assumed of the
environment: a peer need not answer and the swarm need not report. The run
does not check for deadlock, since an executor that has returned is at rest.

`bl_boot` assumes no fairness: its properties are safety properties.
`bl_supervision.cfg` assumes weak fairness of `Joined`, the return of
`try_join!` once both waits have completed, and of nothing else: a future
whose two halves are ready is polled again by the runtime that woke it. No
child has to exit, no wait has to fail, and no call on S3 has to return (the
client has no timeout). Neither checks for deadlock: a node that has ended
and is not started again is at rest.

## Not modelled

- The content of messages beyond what the handlers branch on; signatures,
  proofs and hashes are outcomes, not computations.
- `merge_cluster_metadata`, the two read-only order-book handlers and the
  system bus: they send and do not change state.
- A wall clock that steps back, and a start-up order in which the timer runs
  before the local peer is indexed.
- A network that loses jobs between cluster peers after they were sent, the
  versions of proof
  bundles in cluster replication (a bundle is the order it belongs to), and
  the repair of replica sets by the heartbeat's wallet merge.
- The raft log itself (election, replication), the `ProposalWaiter` a
  proposer gets back, and database errors: the task queue module starts from
  a log that applies proposals in the order submitted.
- The construction of the swarm in the network manager's `start`, and what
  `handle_wallet_update` subscribes to: sockets and gossip topics.
- The API server's handlers (`http_handlers.rs`): each enqueues a job for the
  proof manager or the price reporter manager and, for the health route,
  blocks on the two answers. Both managers are outside this source tree and
  the specification treats the HTTP API as an external collaborator, so what
  the handlers wait for cannot be written from either.
- The `Worker` implementations of the gossip server and the handshake
  manager (`new`, `start`, `join`, `cleanup`): the coordinator that calls
  them, and the executor and scheduler loops they start, are outside this
  source tree. The task descriptors of `settle_match.rs`, the job types of
  `job-types/src/task_driver.rs` and the error and ABI types of the Arbitrum
  client are data without operations.
- The witness exchange of the order-book handlers between two nodes
  (`request_order_witness`, `handle_validity_witness_request`): the request
  leaves through the network manager's request-response handler and the
  answer comes back through it, and that handler is outside this source
  tree. `OrderBook` has the response as a job that may arrive at any time
  for any order, which includes every answer a peer can give.
- An S3 object that is deleted or replaced between the listing and the
  download, and a relayer config without a cluster id.
- The exchange handlers of the price reporter (the JSON of each exchange, the
  UniswapV3 stream), which are outside this source tree, and a tokio runtime
  with fewer worker threads than blocking tasks.
- Constraint systems, Bulletproofs, the Poseidon permutation and its
  parameters: a hash is a free constructor and a proof is whether the witness
  satisfies the one constraint. Collisions and the zero-knowledge property
  are out of a model checker's reach.
- The MPC arithmetic of `circuits/integration/mpc_gadgets/arithmetic.rs`
  (integration tests of gadgets outside this source tree), the tests of
  `macro_tests.rs` beyond the struct they annotate and its round trip, token
  streams and spans of the macro, and the builders of the singleprover,
  linkable and secret-share families, which are in submodules outside this
  source tree and appear by the trait they provide.
- Further hazards of the code that no property covers yet and that the list
  in `PROJECT.json` leaves out: a wall clock that steps back
  (`heartbeat.rs:270`), a Replicate request lost on its way
  (`cluster.rs:113`), an older proof bundle that overwrites a newer one
  (`cluster.rs:226`), a witness response after a cancel
  (`orderbook.rs:319`), a replica list merged from a peer that has not yet
  expired a failed peer (`heartbeat.rs:207`), a reader left alive after its receiver is dropped (`connection.rs:368`),
  `resume_multiple_task_queues` removing a head that is not the preemptive
  task (`task_queue.rs:246`), an expiry cache smaller than the number of
  peers that expire within one window (`heartbeat.rs:346`), the timer's
  cursor at the width of its integer (`heartbeat.rs:437`), macro arguments
  that ask for a type without the one it refers to (`circuit_type.rs:296`),
  and a Poseidon sponge reused for a second hash (`poseidon.rs:187`, a
  finding of `alg_calls`).
- The parts listed as `not_modelled` in `PROJECT.json`.

## Plan

1. `Heartbeat`, `OrderBook`, `Cluster`, `TaskQueue`, `PriceStream`,
   `Algorithms`, `Transport` and `Bootloader` (done). Every hazard listed in
   `PROJECT.json` names a property that a run checks, or the configuration
   kept beside the runs that shows the code going wrong there.
2. `Cluster` extended: proof bundles with the versions `OrderBook` keeps (an
   older bundle answered late against a newer one), and replica sets repaired
   by `Heartbeat`'s wallet merge after an announcement was dropped.
3. `TaskQueue` composed with `Transport`: a proposer whose call never returns,
   and expiry in `Heartbeat` issuing `ReassignTasks` while the expired peer
   still proposes.

What is left of the source tree beyond these is serialisation and conversion
boilerplate, declarations, tests, and glue around executors, managers and
routers that are not part of it; a model of those would be written from
their names and not from their code.
