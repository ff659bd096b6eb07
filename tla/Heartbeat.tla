------------------------------ MODULE Heartbeat ------------------------------
(***************************************************************************)
(* The heartbeat sub-protocol of the gossip server, as seen by one relayer *)
(* (src/core/src/gossip/heartbeat.rs).                                     *)
(*                                                                         *)
(* A timer thread walks the peer index and enqueues one ExecuteHeartbeat   *)
(* job per slot.  Executor threads take jobs from the same queue: timer    *)
(* jobs (send a heartbeat, then maybe expire the peer) and inbound         *)
(* heartbeat requests and responses (record the heartbeat, then merge the  *)
(* sender's view into the local state).  Every handler is split where the  *)
(* code releases one lock and takes the next, so with more than one        *)
(* executor thread the steps of two handlers interleave exactly as the     *)
(* locks allow.  Remote peers are the environment: they answer heartbeats  *)
(* while alive and gossip arbitrary peer and replica sets.                 *)
(*                                                                         *)
(* Time is the wall clock in whole seconds, as get_current_time_seconds    *)
(* returns it.  The outbound channel is write-only for this component:     *)
(* NewAddr and ClusterAuth messages are not kept, a heartbeat request is   *)
(* kept as `pending` because its answer comes back.  A send fails once the *)
(* network manager has dropped the receiver of the channel.                *)
(***************************************************************************)
EXTENDS Naturals, Sequences, FiniteSets, SequencesExt

CONSTANTS
    Peers,                        \* every peer id that exists
    Local,                        \* the local peer id
    Wallets,                      \* the locally managed wallets
    Workers,                      \* the executor threads
    HEARTBEAT_FAILURE_MS,         \* heartbeat.rs:41
    EXPIRY_INVISIBILITY_WINDOW_MS,\* heartbeat.rs:44
    EXPIRY_CACHE_SIZE,            \* heartbeat.rs:46
    KeyOrder,                     \* the order HashMap::keys() yields the peers in
    MaxTime,                      \* bound: the clock stops here
    MaxTimerJobs,                 \* bound: ExecuteHeartbeat jobs waiting in the queue
    MaxInboundJobs                \* bound: inbound heartbeat jobs waiting in the queue

ASSUME /\ Local \in Peers
       /\ KeyOrder \in SetToSeqs(Peers)
       /\ EXPIRY_CACHE_SIZE \in Nat \ {0}
       /\ {HEARTBEAT_FAILURE_MS, EXPIRY_INVISIBILITY_WINDOW_MS, MaxTime} \subseteq Nat

VARIABLES
    now,           \* the wall clock, in seconds
    known_peers,   \* the peer index: peer id -> last_heartbeat
    expiry_cache,  \* the LRU peer_expiry_cache, least recently used first
    replicas,      \* wallet -> the replicas of its metadata
    peer_index,    \* the timer loop's cursor into the keys of the peer index
    job_queue,     \* the executor's job channel
    pending,       \* peers a heartbeat request is in flight to
    alive,         \* the remote peers that still answer
    worker,        \* what each executor thread is in the middle of
    network,       \* whether network_channel still has its receiver
    expired_at     \* history: peer -> the `now` of its latest expiry

vars == <<now, known_peers, expiry_cache, replicas, peer_index, job_queue,
          pending, alive, worker, network, expired_at>>

Remote == Peers \ {Local}
Idle == [pc |-> "idle"]

\* A thread that panicked: on the unwrap of a peer the index lacks
\* (heartbeat.rs:332), on the unwrap of a send while it held the write locks
\* of index and cache (292), or on a lock such a panic has poisoned.
Panicked == [pc |-> "panicked"]
PanickedWriting == [pc |-> "panicked_writing"]
PanickedOnLock == [pc |-> "panicked_on_lock"]
Gone == {Panicked, PanickedWriting, PanickedOnLock}

\* A RwLock whose writer panicked fails every later lock().expect(..).
Poisoned == \E w \in Workers : worker[w] = PanickedWriting

ExecuteHeartbeat(p) == [type |-> "ExecuteHeartbeat", peer |-> p]
HeartbeatResp(p) == [type |-> "HeartbeatResp", peer |-> p]
HeartbeatReq == [type |-> "HeartbeatReq"]

Waiting(types) == Len(SelectSeq(job_queue, LAMBDA j : j.type \in types))

-----------------------------------------------------------------------------
(* u64 arithmetic and the LRU cache                                        *)

\* What stands for a u64 difference that wrapped: larger than any threshold.
Wrapped == MaxTime + HEARTBEAT_FAILURE_MS + EXPIRY_INVISIBILITY_WINDOW_MS + 1

\* `t - since` on u64 in a release build.
Elapsed(t, since) == IF t >= since THEN t - since ELSE Wrapped

Cached(cache) == {cache[i].peer : i \in DOMAIN cache}
Entry(cache, p) == cache[CHOOSE i \in DOMAIN cache : cache[i].peer = p]
Without(cache, p) == SelectSeq(cache, LAMBDA e : e.peer # p)

\* LruCache::get: a hit makes the entry the most recently used.
LruGet(cache, p) == Append(Without(cache, p), Entry(cache, p))

\* LruCache::put: insert or update as most recently used, evict the least
\* recently used entry when the cache is over its capacity.
LruPutUnbounded(cache, p, t) == Append(Without(cache, p), [peer |-> p, at |-> t])

LruPut(cache, p, t) ==
    LET put == LruPutUnbounded(cache, p, t)
    IN  IF Len(put) > EXPIRY_CACHE_SIZE THEN Tail(put) ELSE put

-----------------------------------------------------------------------------
(* add_new_peer, on the pair <<peer index, expiry cache>>                  *)

\* heartbeat.rs:271-272: the peer was expired too recently to come back.
Invisible(t, at) == Elapsed(t, at) <= EXPIRY_INVISIBILITY_WINDOW_MS \div 1000

InsertAlways(known, p, t) == [q \in DOMAIN known \cup {p} |-> IF q = p THEN t ELSE known[q]]

\* heartbeat.rs:280-283: Entry::Vacant, with the dummy heartbeat.
InsertIfVacant(known, p, t) == IF p \in DOMAIN known THEN known ELSE InsertAlways(known, p, t)

\* The third component says that the unwrap of the NewAddr send (287-292)
\* has panicked: the peer is inserted by then, and the loop that called is
\* over.
AddNewPeer(state, p) ==
    LET known == state[1]
        cache == state[2]
        unwrap == IF p \in DOMAIN known THEN FALSE ELSE ~network
    IN  IF state[3] THEN state
        ELSE IF p \notin Cached(cache)
        THEN <<InsertIfVacant(known, p, now), cache, unwrap>>
        ELSE IF Invisible(now, Entry(cache, p).at)
             THEN <<known, LruGet(cache, p), FALSE>>
             ELSE <<InsertIfVacant(known, p, now), Without(cache, p), unwrap>>

-----------------------------------------------------------------------------
(* The timer thread                                                        *)

Keys == SelectSeq(KeyOrder, LAMBDA p : p \in DOMAIN known_peers)

NextCursorStuck(cursor, count) == IF cursor + 1 >= count THEN count ELSE cursor + 1

\* heartbeat.rs:428-431
NextCursor(cursor, count) == IF cursor + 1 >= count THEN 0 ELSE cursor + 1

\* One pass of HeartbeatTimer::execution_loop.  The division by peer_count
\* at line 437 traps on an empty index, the send at line 421 fails once
\* the executor is gone, and the read lock at 406 on a poisoned index ends
\* the thread.
ExecutionLoop ==
    LET peer_count == Len(Keys)
        slot == peer_index + 1
        enqueue == slot <= peer_count /\ Keys[slot] # Local
    IN  /\ peer_count > 0
        /\ ~Poisoned
        /\ \E w \in Workers : worker[w] \notin Gone
        /\ enqueue => Waiting({"ExecuteHeartbeat"}) < MaxTimerJobs
        /\ job_queue' = IF enqueue THEN Append(job_queue, ExecuteHeartbeat(Keys[slot]))
                                   ELSE job_queue
        /\ peer_index' = NextCursor(peer_index, peer_count)
        /\ UNCHANGED <<now, known_peers, expiry_cache, replicas, pending, alive,
                       worker, network, expired_at>>

-----------------------------------------------------------------------------
(* The executor: send_heartbeat and maybe_expire_peer                      *)

\* A thread is at a step of a handler, and the locks the step takes are
\* sound.
At(w, label) == ~Poisoned /\ worker[w].pc = label

Takes(w, types) ==
    /\ At(w, "idle")
    /\ job_queue # <<>>
    /\ Head(job_queue).type \in types
    /\ job_queue' = Tail(job_queue)

\* heartbeat.rs:299-319, up to the call of maybe_expire_peer: nothing for
\* the local peer, and an error, before any expiry, when the send fails
\* (317).
SendHeartbeat(w) ==
    LET p == Head(job_queue).peer
        sent == p # Local /\ network
    IN  /\ Takes(w, {"ExecuteHeartbeat"})
        /\ pending' = IF sent THEN pending \cup {p} ELSE pending
        /\ worker' = [worker EXCEPT ![w] =
                        IF sent THEN [pc |-> "expire_clock", peer |-> p] ELSE Idle]
        /\ UNCHANGED <<now, known_peers, expiry_cache, replicas, peer_index,
                       alive, network, expired_at>>

\* heartbeat.rs:329: maybe_expire_peer reads the clock before it takes a lock.
ReadClock(w) ==
    /\ worker[w].pc = "expire_clock"
    /\ worker' = [worker EXCEPT ![w] =
                    [pc |-> "expire_check", peer |-> worker[w].peer, now |-> now]]
    /\ UNCHANGED <<now, known_peers, expiry_cache, replicas, peer_index,
                   job_queue, pending, alive, network, expired_at>>

\* heartbeat.rs:333, negated
TimedOut(t, last) == ~(Elapsed(t, last) < HEARTBEAT_FAILURE_MS \div 1000)

\* heartbeat.rs:331-335: the read-locked look at the peer's last heartbeat.
\* The unwrap at line 332 panics when the peer is no longer indexed.
CheckExpiry(w) ==
    LET p == worker[w].peer
    IN  /\ At(w, "expire_check")
        /\ worker' = [worker EXCEPT ![w] =
              IF p \notin DOMAIN known_peers THEN Panicked
              ELSE IF TimedOut(worker[w].now, known_peers[p])
                   THEN [worker[w] EXCEPT !.pc = "expire_remove"]
                   ELSE Idle]
        /\ UNCHANGED <<now, known_peers, expiry_cache, replicas, peer_index,
                       job_queue, pending, alive, network, expired_at>>

\* heartbeat.rs:339: remove_peers, under the index's write lock.
RemovePeers(w) ==
    LET p == worker[w].peer
    IN  /\ At(w, "expire_remove")
        /\ known_peers' = [q \in DOMAIN known_peers \ {p} |-> known_peers[q]]
        /\ expired_at' = IF p \in DOMAIN known_peers
                         THEN InsertAlways(expired_at, p, worker[w].now)
                         ELSE expired_at
        /\ worker' = [worker EXCEPT ![w].pc = "expire_cache"]
        /\ UNCHANGED <<now, expiry_cache, replicas, peer_index, job_queue,
                       pending, alive, network>>

\* heartbeat.rs:345-346: the expiry goes into the cache under its own lock.
CacheExpiry(w) ==
    /\ At(w, "expire_cache")
    /\ expiry_cache' = LruPut(expiry_cache, worker[w].peer, worker[w].now)
    /\ worker' = [worker EXCEPT ![w] = Idle]
    /\ UNCHANGED <<now, known_peers, replicas, peer_index, job_queue, pending,
                   alive, network, expired_at>>

-----------------------------------------------------------------------------
(* The executor: record_heartbeat and merge_state_from_message             *)

\* record_heartbeat (heartbeat.rs:63-67)
RecordHeartbeat(known, p) ==
    IF p \in DOMAIN known THEN [known EXCEPT ![p] = now] ELSE known

\* A heartbeat response: record the heartbeat, then merge the message.
HandleHeartbeatResp(w) ==
    /\ Takes(w, {"HeartbeatResp"})
    /\ known_peers' = RecordHeartbeat(known_peers, Head(job_queue).peer)
    /\ worker' = [worker EXCEPT ![w] = [pc |-> "merge_read"]]
    /\ UNCHANGED <<now, expiry_cache, replicas, peer_index, pending, alive,
                   network, expired_at>>

\* A heartbeat request: answer it and merge the message.
HandleHeartbeatReq(w) ==
    /\ Takes(w, {"HeartbeatReq"})
    /\ worker' = [worker EXCEPT ![w] = [pc |-> "merge_read"]]
    /\ UNCHANGED <<now, known_peers, expiry_cache, replicas, peer_index,
                   pending, alive, network, expired_at>>

\* merge_peer_index, first half (heartbeat.rs:106-121): under the read lock,
\* find the peers of the message that the index lacks; none, and return.  A
\* key of the message that is no peer id is an error (110-111), and the
\* error ends merge_state_from_message (87).
MergePeerIndexRead(w) ==
    /\ At(w, "merge_read")
    /\ \E incoming_peer_info \in SUBSET Peers : \E parsed \in BOOLEAN :
         LET peers_to_add == incoming_peer_info \ DOMAIN known_peers
         IN  worker' = [worker EXCEPT ![w] =
               IF ~parsed THEN Idle
               ELSE IF peers_to_add = {} THEN [pc |-> "merge_wallets"]
               ELSE [pc |-> "merge_write", peers_to_add |-> peers_to_add]]
    /\ UNCHANGED <<now, known_peers, expiry_cache, replicas, peer_index,
                   job_queue, pending, alive, network, expired_at>>

\* merge_peer_index, second half (heartbeat.rs:123-139): under the write
\* locks of index and cache, add_new_peer for each, in the Vec's order.  A
\* panic in add_new_peer unwinds through both guards.
MergePeerIndexWrite(w) ==
    /\ At(w, "merge_write")
    /\ \E order \in SetToSeqs(worker[w].peers_to_add) :
         LET merged == FoldLeft(AddNewPeer, <<known_peers, expiry_cache, FALSE>>, order)
         IN  /\ known_peers' = merged[1]
             /\ expiry_cache' = merged[2]
             /\ worker' = [worker EXCEPT ![w] =
                   IF merged[3] THEN PanickedWriting ELSE [pc |-> "merge_wallets"]]
    /\ UNCHANGED <<now, replicas, peer_index, job_queue, pending, alive,
                   network, expired_at>>

\* heartbeat.rs:194-212: the message's replicas the index knows are added.
MergedReplicas(local, message) == local \cup (message \cap DOMAIN known_peers)

\* merge_wallets (heartbeat.rs:147-214) and merge_cluster_metadata
\* (218-250).  Replica sets only grow here, so the read-locked first phase
\* of merge_wallets decides nothing the second phase would not; the cluster
\* merge only emits ClusterAuth requests.
MergeWallets(w) ==
    /\ At(w, "merge_wallets")
    /\ \E managed \in SUBSET Wallets : \E message_replicas \in SUBSET Peers :
         replicas' = [id \in Wallets |->
                        IF id \in managed
                        THEN MergedReplicas(replicas[id], message_replicas)
                        ELSE replicas[id]]
    /\ worker' = [worker EXCEPT ![w] = Idle]
    /\ UNCHANGED <<now, known_peers, expiry_cache, peer_index, job_queue,
                   pending, alive, network, expired_at>>

\* Whatever a thread does next takes a lock of the index or of the cache:
\* on a poisoned lock it panics, with the job it has just taken.
PanicOnPoisonedLock(w) ==
    /\ Poisoned
    /\ worker[w] \notin Gone
    /\ worker[w] = Idle => job_queue # <<>>
    /\ job_queue' = IF worker[w] = Idle THEN Tail(job_queue) ELSE job_queue
    /\ worker' = [worker EXCEPT ![w] = PanickedOnLock]
    /\ UNCHANGED <<now, known_peers, expiry_cache, replicas, peer_index,
                   pending, alive, network, expired_at>>

-----------------------------------------------------------------------------
(* The environment                                                         *)

Tick ==
    /\ now < MaxTime
    /\ now' = now + 1
    /\ UNCHANGED <<known_peers, expiry_cache, replicas, peer_index, job_queue,
                   pending, alive, worker, network, expired_at>>

\* The network manager stops and drops the receiver of network_channel.
NetworkManagerStops ==
    /\ network
    /\ network' = FALSE
    /\ UNCHANGED <<now, known_peers, expiry_cache, replicas, peer_index,
                   job_queue, pending, alive, worker, expired_at>>

\* A live peer answers the heartbeat request in flight to it.
PeerAnswers(p) ==
    /\ p \in pending \cap alive
    /\ Waiting({"HeartbeatResp", "HeartbeatReq"}) < MaxInboundJobs
    /\ pending' = pending \ {p}
    /\ job_queue' = Append(job_queue, HeartbeatResp(p))
    /\ UNCHANGED <<now, known_peers, expiry_cache, replicas, peer_index, alive,
                   worker, network, expired_at>>

\* Some peer sends the local one a heartbeat request.
PeerAsks ==
    /\ Waiting({"HeartbeatResp", "HeartbeatReq"}) < MaxInboundJobs
    /\ job_queue' = Append(job_queue, HeartbeatReq)
    /\ UNCHANGED <<now, known_peers, expiry_cache, replicas, peer_index,
                   pending, alive, worker, network, expired_at>>

PeerFails(p) ==
    /\ p \in alive
    /\ alive' = alive \ {p}
    /\ UNCHANGED <<now, known_peers, expiry_cache, replicas, peer_index,
                   job_queue, pending, worker, network, expired_at>>

\* With every executor thread gone the timer's send fails and it returns.
Halted ==
    /\ \A w \in Workers : worker[w] \in Gone
    /\ UNCHANGED vars

-----------------------------------------------------------------------------

\* The index holds the local peer and the bootstrap peers, each with a
\* heartbeat at construction (types.rs:28-35); the gossip server made the
\* local peer a replica of every managed wallet (worker.rs:52-57).
Init ==
    /\ now = 0
    /\ \E bootstrap \in SUBSET Remote :
         known_peers = [p \in bootstrap \cup {Local} |-> 0]
    /\ expiry_cache = <<>>
    /\ replicas = [id \in Wallets |-> {Local}]
    /\ peer_index = 0
    /\ job_queue = <<>>
    /\ pending = {}
    /\ alive = Remote
    /\ worker = [w \in Workers |-> Idle]
    /\ network = TRUE
    /\ expired_at = <<>>

\* maybe_expire_peer (heartbeat.rs:324-347), one lock scope at a time.
MaybeExpirePeer(w) == ReadClock(w) \/ CheckExpiry(w) \/ RemovePeers(w) \/ CacheExpiry(w)

\* merge_state_from_message (heartbeat.rs:75-94), one lock scope at a time.
MergeStateFromMessage(w) ==
    MergePeerIndexRead(w) \/ MergePeerIndexWrite(w) \/ MergeWallets(w)

Step(w) ==
    \/ SendHeartbeat(w)
    \/ MaybeExpirePeer(w)
    \/ HandleHeartbeatResp(w)
    \/ HandleHeartbeatReq(w)
    \/ MergeStateFromMessage(w)
    \/ PanicOnPoisonedLock(w)

Next ==
    \/ Tick
    \/ NetworkManagerStops
    \/ ExecutionLoop
    \/ \E w \in Workers : Step(w)
    \/ \E p \in Remote : PeerAnswers(p) \/ PeerFails(p)
    \/ PeerAsks
    \/ Halted

Spec == Init /\ [][Next]_vars

\* The clock advances, the timer thread loops and every executor thread
\* that has something to do does it.
Fairness ==
    /\ WF_vars(Tick)
    /\ WF_vars(ExecutionLoop)
    /\ \A w \in Workers : WF_vars(Step(w))

FairSpec == Spec /\ Fairness

-----------------------------------------------------------------------------
(* Properties                                                              *)

Times == 0..MaxTime
CacheEntry == [peer : Peers, at : Times]
Job == {ExecuteHeartbeat(p) : p \in Peers} \cup {HeartbeatResp(p) : p \in Peers}
         \cup {HeartbeatReq}
WorkerState ==
    Gone \cup {Idle, [pc |-> "merge_read"], [pc |-> "merge_wallets"]}
    \cup [pc : {"expire_clock"}, peer : Remote]
    \cup [pc : {"expire_check", "expire_remove", "expire_cache"},
          peer : Remote, now : Times]
    \cup [pc : {"merge_write"}, peers_to_add : SUBSET Remote \ {{}}]

TypeOK ==
    /\ now \in Times
    /\ DOMAIN known_peers \in SUBSET Peers
    /\ \A p \in DOMAIN known_peers : known_peers[p] \in Times
    /\ expiry_cache \in Seq(CacheEntry)
    /\ Len(expiry_cache) = Cardinality(Cached(expiry_cache))
    /\ Len(expiry_cache) <= EXPIRY_CACHE_SIZE
    /\ replicas \in [Wallets -> SUBSET Peers]
    /\ peer_index \in 0..(Cardinality(Peers) - 1)
    /\ job_queue \in Seq(Job)
    /\ pending \in SUBSET Remote
    /\ alive \in SUBSET Remote
    /\ worker \in [Workers -> WorkerState]
    /\ network \in BOOLEAN
    /\ DOMAIN expired_at \in SUBSET Remote
    /\ \A p \in DOMAIN expired_at : expired_at[p] \in Times

InsideWindow(p) ==
    /\ p \in DOMAIN expired_at
    /\ now - expired_at[p] <= EXPIRY_INVISIBILITY_WINDOW_MS \div 1000

\* Peer-expiry invisibility: a peer that maybe_expire_peer removed is not in
\* the peer index again until EXPIRY_INVISIBILITY_WINDOW has passed since
\* that expiry, whatever heartbeats merge_peer_index receives meanwhile.
InvisibilityWindow == \A p \in DOMAIN known_peers : ~InsideWindow(p)

\* Only a heartbeat response of the peer itself moves its last_heartbeat:
\* merge_peer_index finding the peer in another relayer's message must not,
\* or gossip alone would keep a dead peer in the index.
OnlyResponsesRefresh ==
    [][\A p \in DOMAIN known_peers \cap DOMAIN known_peers' :
         known_peers'[p] # known_peers[p] =>
            /\ job_queue # <<>>
            /\ Head(job_queue) = HeartbeatResp(p)
            /\ job_queue' = Tail(job_queue)]_vars

\* A dead peer does not stay in the index: once it stops answering, the
\* timer's round robin and maybe_expire_peer remove it (as long as the clock
\* can still reach its timeout, an executor thread survives and heartbeats
\* can still be sent: send_heartbeat returns before the expiry when its
\* send fails).
DeadPeerExpires ==
    \A p \in Remote :
        [](/\ p \in DOMAIN known_peers
           /\ p \notin alive
           /\ p \notin pending
           /\ HeartbeatResp(p) \notin ToSet(job_queue)
           /\ known_peers[p] + HEARTBEAT_FAILURE_MS \div 1000 <= MaxTime
           => <>(\/ p \notin DOMAIN known_peers
                 \/ \A w \in Workers : worker[w] \in Gone
                 \/ ~network))

\* maybe_expire_peer always finds the peer of its job in the index (the
\* unwrap at heartbeat.rs:332 never panics).
ExpiryFindsPeer == \A w \in Workers : worker[w] # Panicked

\* maybe_expire_peer decides that a peer timed out only when its last
\* successful heartbeat is at least HEARTBEAT_FAILURE old.
TimeoutDecisionSound ==
    [][\A w \in Workers :
         worker[w].pc = "expire_check" /\ worker'[w].pc = "expire_remove" =>
            now - known_peers[worker[w].peer] >= HEARTBEAT_FAILURE_MS \div 1000]_vars

=============================================================================
