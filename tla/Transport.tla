------------------------------ MODULE Transport ------------------------------
(***************************************************************************)
(* The network manager's executor and the raft network that is its client  *)
(* (src/workers/network-manager/src/manager.rs,                            *)
(* src/state/src/replicationv2/network/gossip.rs).                         *)
(*                                                                         *)
(* The executor is one loop around a select over four sources: the job     *)
(* channel the workers send outbound messages on, the swarm's event        *)
(* stream, the wallet updates of the system bus and the coordinator's      *)
(* cancel signal.  Every arm is an action; select takes any arm that is    *)
(* ready.  A raft client serialises its request, sends a job that carries  *)
(* a oneshot response channel and awaits that channel.  The swarm, the     *)
(* remote peers, the other workers and the coordinator are the             *)
(* environment.                                                            *)
(*                                                                         *)
(* The handlers that manager.rs calls in its sub-modules (pubsub,          *)
(* request_response, identify, control_directives) are written from the    *)
(* specification's section on the network manager.  A request is named by  *)
(* a number when it is sent to the job channel; the swarm's RequestId      *)
(* stands for nothing else.                                                *)
(***************************************************************************)
EXTENDS Naturals, Sequences, FiniteSets, SequencesExt

CONSTANTS
    Clients,       \* the raft clients: GossipNetwork handles that call send_request
    Peers,         \* the remote peers
    ObservedAddrs, \* the addresses Identify may report for the local node
    P2P_PORT,      \* NetworkManagerExecutor::p2p_port
    OtherEvents,   \* the swarm events no arm acts on
    MaxRequests,   \* bound: requests sent to the job channel
    MaxPubsub,     \* bound: pubsub messages the workers publish
    MaxInbound,    \* bound: requests the remote peers send
    MaxEvents,     \* bound: events waiting in the swarm's stream
    MaxBus,        \* bound: messages waiting on the wallet update topic
    MaxInputs      \* bound: what the environment asks of the node, all in all

VARIABLES
    executor,          \* the NetworkManagerExecutor
    cancel,            \* the coordinator's cancel signal
    job_channel,       \* the outbound messages of the workers, oldest first
    swarm_events,      \* the swarm's event stream, oldest first
    swarm,             \* the swarm's behaviours
    bus,               \* the wallet update topic of the system bus
    gossip_work_queue, \* the gossip server's job queue
    local_addr,        \* the local peer's address in the global state
    client,            \* the raft clients
    asked              \* what the environment has asked so far

quiet == <<cancel, bus, local_addr>>
vars == <<executor, job_channel, swarm_events, swarm, gossip_work_queue, client,
          asked, quiet>>

-----------------------------------------------------------------------------
(* Addresses and messages                                                  *)

TRANSPORT_PROTOCOL_NAME == "udp"

Udp(port) == [protocol |-> TRANSPORT_PROTOCOL_NAME, value |-> port]

AppendPort(multiaddr, port) == Append(multiaddr, Udp(port))

\* The first component of the transport protocol gets the port; an address
\* without one gets the component at its end.
ReplacePort(multiaddr, port) ==
    LET transport == {i \in DOMAIN multiaddr : multiaddr[i].protocol = TRANSPORT_PROTOCOL_NAME}
    IN  IF transport = {} THEN Append(multiaddr, Udp(port))
        ELSE [multiaddr EXCEPT ![Min(transport)] = Udp(port)]

\* GossipOutbound, and the job with a response channel that gossip.rs sends.
Request(id, p) == [type |-> "Request", id |-> id, peer |-> p]
RequestWithResponse(id, p, c) ==
    [type |-> "RequestWithResponse", id |-> id, peer |-> p, client |-> c]
Response(ch) == [type |-> "Response", channel |-> ch]
Pubsub(n) == [type |-> "Pubsub", message |-> n]
ManagementMessage(p) == [type |-> "ManagementMessage", peer |-> p]

\* A GossipResponse as to_raft_response sees it: its variant, whether its
\* bytes deserialise, and the request the peer answered with it.
NoBody == [kind |-> "None", decodes |-> FALSE, re |-> 0]
Bodies(id) ==
    {[kind |-> "Raft", decodes |-> d, re |-> id] : d \in BOOLEAN}
    \cup {[kind |-> "Heartbeat", decodes |-> TRUE, re |-> id]}

\* What the swarm's stream yields.
ResponseEvent(id, body) == [type |-> "Response", id |-> id, body |-> body]
OutboundFailure(id) == [type |-> "OutboundFailure", id |-> id]
InboundRequest(ch, signed) == [type |-> "Request", channel |-> ch, signed |-> signed]
Spontaneous ==
    {[type |-> "PubsubMessage"]}
    \cup {[type |-> "Identify", observed_addr |-> a] : a \in ObservedAddrs}
    \cup {[type |-> "Other", kind |-> k] : k \in OtherEvents}

\* A oneshot channel: empty, holding a response, or with its sender dropped.
Empty == [state |-> "empty", body |-> NoBody]
Closed == [state |-> "closed", body |-> NoBody]
Full(body) == [state |-> "full", body |-> body]

Idle == [pc |-> "idle", id |-> 0, rx |-> Empty, result |-> "none"]

Awaits(c) == client[c].pc = "awaiting" /\ client[c].rx = Empty

\* The senders of these clients' channels are dropped: their awaits resolve
\* with an error.
Hangup(dropped) ==
    [c \in Clients |-> IF c \in dropped /\ Awaits(c)
                       THEN [client[c] EXCEPT !.rx = Closed] ELSE client[c]]

Without(f, x) == [y \in DOMAIN f \ {x} |-> f[y]]

-----------------------------------------------------------------------------
(* The raft client: GossipNetwork::send_request                            *)

\* Up to the await.  A request that does not serialise is the call's error;
\* the send is unwrapped, and fails once the executor has dropped the
\* receiver of the job channel.
SendRequest(c) ==
    /\ client[c].pc \in {"idle", "returned"}
    /\ asked.requests < MaxRequests /\ asked.inputs < MaxInputs
    /\ \E target \in Peers, serialises \in BOOLEAN :
         LET id == asked.requests + 1
             sent == serialises /\ executor.running
         IN  /\ asked' = [asked EXCEPT !.inputs = @ + 1,
                                       !.requests = IF sent THEN id ELSE @]
             /\ job_channel' = IF sent
                               THEN Append(job_channel, RequestWithResponse(id, target, c))
                               ELSE job_channel
             /\ client' = [client EXCEPT ![c] =
                   IF ~serialises THEN [Idle EXCEPT !.pc = "returned", !.result = "Network"]
                   ELSE IF ~executor.running THEN [Idle EXCEPT !.pc = "panicked"]
                   ELSE [Idle EXCEPT !.pc = "awaiting", !.id = id]]
    /\ UNCHANGED <<executor, swarm_events, swarm, gossip_work_queue, quiet>>

ToRaftResponseUnchecked(body) == IF body.decodes THEN "Ok" ELSE "Deserialize"

\* Only the Raft variant is a raft response, and its bytes must deserialise.
ToRaftResponse(body) ==
    IF body.kind = "Raft" /\ body.decodes THEN "Ok" ELSE "Deserialize"

\* The await resolves; the unwrap panics on a channel whose sender was
\* dropped.
Resume(c) ==
    /\ client[c].pc = "awaiting"
    /\ client[c].rx # Empty
    /\ client' = [client EXCEPT ![c] =
          IF client[c].rx = Closed THEN [@ EXCEPT !.pc = "panicked"]
          ELSE [@ EXCEPT !.pc = "returned", !.result = ToRaftResponse(client[c].rx.body)]]
    /\ UNCHANGED <<executor, job_channel, swarm_events, swarm, gossip_work_queue,
                   asked, quiet>>

-----------------------------------------------------------------------------
(* The executor: handle_outbound_message                                   *)

TakesJob(type) ==
    /\ executor.running
    /\ job_channel # <<>>
    /\ Head(job_channel).type = type
    /\ job_channel' = Tail(job_channel)

\* Signed, the request goes to the swarm; one that cannot be signed is the
\* handler's error.
OutboundRequest ==
    LET msg == Head(job_channel)
    IN  /\ TakesJob("Request")
        /\ \E signs \in BOOLEAN :
             swarm' = IF signs
                      THEN [swarm EXCEPT !.in_flight = @ \cup {[id |-> msg.id, peer |-> msg.peer]}]
                      ELSE swarm
        /\ UNCHANGED <<executor, swarm_events, gossip_work_queue, client, asked, quiet>>

\* The same for the job of a raft client: the manager keeps the response
\* channel under the request.  The job that is dropped with the error takes
\* the sender of the channel with it.
OutboundRequestWithResponse ==
    LET msg == Head(job_channel)
    IN  /\ TakesJob("RequestWithResponse")
        /\ \/ /\ swarm' = [swarm EXCEPT !.in_flight = @ \cup {[id |-> msg.id, peer |-> msg.peer]}]
              /\ executor' = [executor EXCEPT !.response_channels =
                                [id \in DOMAIN @ \cup {msg.id} |->
                                    IF id = msg.id THEN msg.client ELSE @[id]]]
              /\ UNCHANGED client
           \/ /\ client' = Hangup({msg.client})
              /\ UNCHANGED <<swarm, executor>>
        /\ UNCHANGED <<swarm_events, gossip_work_queue, asked, quiet>>

\* The response is signed and sent on the channel of the request, which
\* it uses up; a channel that has closed is the handler's error.
OutboundResponse ==
    LET ch == Head(job_channel).channel
    IN  /\ TakesJob("Response")
        /\ \E signs \in BOOLEAN :
             swarm' = [swarm EXCEPT
                         !.open_channels = @ \ {ch},
                         !.answered = IF signs THEN @ \cup ({ch} \cap swarm.open_channels)
                                      ELSE @]
        /\ UNCHANGED <<executor, swarm_events, gossip_work_queue, client, asked, quiet>>

\* forward_outbound_pubsub: a message of the warm-up period is buffered.
ForwardOutboundPubsub(message) ==
    \/ /\ executor.warmup_finished
       /\ swarm' = [swarm EXCEPT !.published = Append(@, message)]
       /\ UNCHANGED executor
    \/ /\ ~executor.warmup_finished
       /\ executor' = [executor EXCEPT !.warmup_buffer = Append(@, message)]
       /\ UNCHANGED swarm

OutboundPubsub ==
    /\ TakesJob("Pubsub")
    /\ ForwardOutboundPubsub(Head(job_channel).message)
    /\ UNCHANGED <<swarm_events, gossip_work_queue, client, asked, quiet>>

\* handle_control_directive, for the directive that registers a peer's
\* address with the behaviour.
HandleControlDirective(command) ==
    swarm' = [swarm EXCEPT !.known_addrs = @ \cup {command.peer}]

OutboundManagementMessage ==
    /\ TakesJob("ManagementMessage")
    /\ HandleControlDirective(Head(job_channel))
    /\ UNCHANGED <<executor, swarm_events, gossip_work_queue, client, asked, quiet>>

\* The first arm of the select.
HandleOutboundMessage ==
    \/ OutboundRequest
    \/ OutboundRequestWithResponse
    \/ OutboundResponse
    \/ OutboundPubsub
    \/ OutboundManagementMessage

-----------------------------------------------------------------------------
(* The executor: handle_inbound_message                                    *)

TakesEvent(types) ==
    /\ executor.running
    /\ swarm_events # <<>>
    /\ Head(swarm_events).type \in types
    /\ swarm_events' = Tail(swarm_events)

Dispatch(job) == gossip_work_queue' = Append(gossip_work_queue, job)

\* handle_inbound_request_response_message.  A request is dispatched once
\* its signature has been verified under the cluster key; a response goes
\* to the channel the manager holds for its request, else to the gossip
\* server.
HandleInboundRequestResponseMessage(message) ==
    \/ /\ message.type = "Request"
       /\ IF message.signed THEN Dispatch([type |-> "Request", channel |-> message.channel])
          ELSE UNCHANGED gossip_work_queue
       /\ UNCHANGED <<executor, client>>
    \/ /\ message.type = "Response"
       /\ message.id \in DOMAIN executor.response_channels
       /\ LET c == executor.response_channels[message.id]
          IN  client' = [client EXCEPT ![c].rx = IF Awaits(c) THEN Full(message.body) ELSE @]
       /\ executor' = [executor EXCEPT !.response_channels = Without(@, message.id)]
       /\ UNCHANGED gossip_work_queue
    \/ /\ message.type = "Response"
       /\ message.id \notin DOMAIN executor.response_channels
       /\ Dispatch([type |-> "Response", id |-> message.id])
       /\ UNCHANGED <<executor, client>>

InboundRequestResponse ==
    /\ TakesEvent({"Request", "Response"})
    /\ HandleInboundRequestResponseMessage(Head(swarm_events))
    /\ UNCHANGED <<job_channel, swarm, asked, quiet>>

\* A pubsub message goes to the gossip server.
InboundPubsub ==
    /\ TakesEvent({"PubsubMessage"})
    /\ Dispatch([type |-> "Pubsub"])
    /\ UNCHANGED <<executor, job_channel, swarm, client, asked, quiet>>

\* handle_identify_event: the first Identify confirms the local node's
\* dialable address, which ends the warm-up; the buffered messages are
\* replayed in the order they came.
HandleIdentifyEvent(observed_addr) ==
    /\ executor' = [executor EXCEPT !.discovered_identity = TRUE,
                                    !.warmup_finished = TRUE,
                                    !.warmup_buffer = <<>>]
    /\ swarm' = [swarm EXCEPT !.published = @ \o executor.warmup_buffer]
    /\ local_addr' = IF executor.discovered_identity THEN local_addr
                     ELSE ReplacePort(observed_addr, P2P_PORT)

InboundIdentify ==
    /\ TakesEvent({"Identify"})
    /\ HandleIdentifyEvent(Head(swarm_events).observed_addr)
    /\ UNCHANGED <<job_channel, gossip_work_queue, client, asked, cancel, bus>>

\* What no arm acts on: a request-response event that is not a message (the
\* failure of an outbound request among them), a pubsub event that is not
\* one, Kademlia events, a new listen address and every other swarm event.
InboundIgnored ==
    /\ TakesEvent({"OutboundFailure", "Other"})
    /\ UNCHANGED <<executor, job_channel, swarm, gossip_work_queue, client, asked, quiet>>

\* handle_inbound_message, under the second arm of the select.
HandleInboundMessage ==
    \/ InboundRequestResponse
    \/ InboundPubsub
    \/ InboundIdentify
    \/ InboundIgnored

-----------------------------------------------------------------------------
(* The executor: the other arms of the select                              *)

\* A wallet update is handled, anything else on the topic is logged;
\* neither touches what is modelled here.
HandleWalletUpdate ==
    /\ executor.running
    /\ bus # <<>>
    /\ bus' = Tail(bus)
    /\ UNCHANGED <<executor, job_channel, swarm_events, swarm, gossip_work_queue,
                   client, asked, cancel, local_addr>>

DroppedChannelsOnly == Range(executor.response_channels)

\* The clients whose sender the executor owns: in a job of the job channel
\* or among the response channels.
Dropped ==
    {j.client : j \in {k \in Range(job_channel) : k.type = "RequestWithResponse"}}
    \cup Range(executor.response_channels)

\* executor_loop returns and the executor is dropped, with it the job
\* channel's receiver and the jobs in it, the response channels and the
\* swarm.
Cancelled ==
    /\ executor.running
    /\ cancel
    /\ executor' = [executor EXCEPT !.running = FALSE, !.response_channels = <<>>]
    /\ job_channel' = <<>>
    /\ client' = Hangup(Dropped)
    /\ swarm_events' = <<>>
    /\ swarm' = [swarm EXCEPT !.in_flight = {}, !.open_channels = {}]
    /\ UNCHANGED <<gossip_work_queue, asked, quiet>>

\* One turn of executor_loop.
ExecutorLoop ==
    \/ HandleOutboundMessage
    \/ HandleInboundMessage
    \/ HandleWalletUpdate
    \/ Cancelled

-----------------------------------------------------------------------------
(* The environment: workers, peers, swarm and coordinator                  *)

\* What a worker may send next: a request without a response channel, the
\* next pubsub message, the address of a peer the behaviour does not know.
WorkerJobs ==
    (IF asked.requests < MaxRequests
     THEN {Request(asked.requests + 1, p) : p \in Peers} ELSE {})
    \cup (IF asked.pubsub < MaxPubsub THEN {Pubsub(asked.pubsub + 1)} ELSE {})
    \cup {ManagementMessage(p) : p \in Peers \ swarm.known_addrs}

WorkerSends(job) ==
    /\ executor.running
    /\ asked.inputs < MaxInputs
    /\ job_channel' = Append(job_channel, job)
    /\ asked' = [asked EXCEPT !.inputs = @ + 1,
                              !.requests = IF job.type = "Request" THEN @ + 1 ELSE @,
                              !.pubsub = IF job.type = "Pubsub" THEN @ + 1 ELSE @]
    /\ UNCHANGED <<executor, swarm_events, swarm, gossip_work_queue, client, quiet>>

\* The gossip server takes a job; a request it answers on the job channel,
\* where the send fails once the executor has returned.
GossipServerTakes ==
    LET job == Head(gossip_work_queue)
    IN  /\ gossip_work_queue # <<>>
        /\ gossip_work_queue' = Tail(gossip_work_queue)
        /\ job_channel' = IF job.type = "Request" /\ executor.running
                          THEN Append(job_channel, Response(job.channel))
                          ELSE job_channel
        /\ UNCHANGED <<executor, swarm_events, swarm, client, asked, quiet>>

Yields(event) ==
    /\ executor.running
    /\ Len(swarm_events) < MaxEvents
    /\ swarm_events' = Append(swarm_events, event)

\* A peer the behaviour can dial answers a request.
PeerResponds(r) ==
    /\ r.peer \in swarm.known_addrs
    /\ swarm' = [swarm EXCEPT !.in_flight = @ \ {r}]
    /\ \E body \in Bodies(r.id) : Yields(ResponseEvent(r.id, body))
    /\ UNCHANGED <<executor, job_channel, gossip_work_queue, client, asked, quiet>>

\* The request fails: no address to dial, no connection, or the swarm's
\* timeout for the response.
RequestFails(r) ==
    /\ swarm' = [swarm EXCEPT !.in_flight = @ \ {r}, !.failed = @ \cup {r.id}]
    /\ Yields(OutboundFailure(r.id))
    /\ UNCHANGED <<executor, job_channel, gossip_work_queue, client, asked, quiet>>

PeerRequests ==
    /\ asked.inbound < MaxInbound /\ asked.inputs < MaxInputs
    /\ asked' = [asked EXCEPT !.inbound = @ + 1, !.inputs = @ + 1]
    /\ swarm' = [swarm EXCEPT !.open_channels = @ \cup {asked.inbound + 1}]
    /\ \E signed \in BOOLEAN : Yields(InboundRequest(asked.inbound + 1, signed))
    /\ UNCHANGED <<executor, job_channel, gossip_work_queue, client, quiet>>

\* The swarm closes the channel of an inbound request that waited too long.
ChannelCloses(ch) ==
    /\ swarm' = [swarm EXCEPT !.open_channels = @ \ {ch}]
    /\ UNCHANGED <<executor, job_channel, swarm_events, gossip_work_queue, client,
                   asked, quiet>>

SwarmYields(event) ==
    /\ asked.inputs < MaxInputs
    /\ asked' = [asked EXCEPT !.inputs = @ + 1]
    /\ Yields(event)
    /\ UNCHANGED <<executor, job_channel, swarm, gossip_work_queue, client, quiet>>

WalletUpdated(message) ==
    /\ executor.running
    /\ Len(bus) < MaxBus /\ asked.inputs < MaxInputs
    /\ asked' = [asked EXCEPT !.inputs = @ + 1]
    /\ bus' = Append(bus, message)
    /\ UNCHANGED <<executor, job_channel, swarm_events, swarm, gossip_work_queue,
                   client, cancel, local_addr>>

CoordinatorCancels ==
    /\ ~cancel
    /\ cancel' = TRUE
    /\ UNCHANGED <<executor, job_channel, swarm_events, swarm, gossip_work_queue,
                   client, asked, bus, local_addr>>

-----------------------------------------------------------------------------

NewExecutorWarm ==
    [running |-> TRUE, discovered_identity |-> FALSE, warmup_finished |-> TRUE,
     warmup_buffer |-> <<>>, response_channels |-> <<>>]

\* NetworkManagerExecutor::new
NewExecutor ==
    [running |-> TRUE, discovered_identity |-> FALSE, warmup_finished |-> FALSE,
     warmup_buffer |-> <<>>, response_channels |-> <<>>]

\* The behaviour knows the addresses of the bootstrap peers.
Init ==
    /\ executor = NewExecutor
    /\ cancel = FALSE
    /\ job_channel = <<>>
    /\ swarm_events = <<>>
    /\ \E bootstrap \in SUBSET Peers :
         swarm = [in_flight |-> {}, known_addrs |-> bootstrap, open_channels |-> {},
                  published |-> <<>>, answered |-> {}, failed |-> {}]
    /\ bus = <<>>
    /\ gossip_work_queue = <<>>
    /\ local_addr = <<>>
    /\ client = [c \in Clients |-> Idle]
    /\ asked = [requests |-> 0, pubsub |-> 0, inbound |-> 0, inputs |-> 0]

Next ==
    \/ ExecutorLoop
    \/ \E c \in Clients : SendRequest(c) \/ Resume(c)
    \/ \E job \in WorkerJobs : WorkerSends(job)
    \/ GossipServerTakes
    \/ \E r \in swarm.in_flight : PeerResponds(r) \/ RequestFails(r)
    \/ PeerRequests
    \/ \E ch \in swarm.open_channels : ChannelCloses(ch)
    \/ \E event \in Spontaneous : SwarmYields(event)
    \/ \E message \in {"InternalWalletUpdate", "unexpected"} : WalletUpdated(message)
    \/ CoordinatorCancels

Spec == Init /\ [][Next]_vars

\* select polls its arms in a random order, so an arm that stays ready is
\* taken; a client whose await has resolved runs.
Fairness ==
    /\ WF_vars(HandleOutboundMessage)
    /\ WF_vars(HandleInboundMessage)
    /\ WF_vars(HandleWalletUpdate)
    /\ WF_vars(Cancelled)
    /\ \A c \in Clients : WF_vars(Resume(c))

FairSpec == Spec /\ Fairness

-----------------------------------------------------------------------------
(* Properties                                                              *)

Ids == 1..MaxRequests
Channels == 1..MaxInbound
Job ==
    [type : {"Request"}, id : Ids, peer : Peers]
    \cup [type : {"RequestWithResponse"}, id : Ids, peer : Peers, client : Clients]
    \cup [type : {"Response"}, channel : Channels]
    \cup [type : {"Pubsub"}, message : 1..MaxPubsub]
    \cup [type : {"ManagementMessage"}, peer : Peers]
Body == UNION {Bodies(id) : id \in Ids}
Event ==
    [type : {"Response"}, id : Ids, body : Body]
    \cup [type : {"OutboundFailure"}, id : Ids]
    \cup [type : {"Request"}, channel : Channels, signed : BOOLEAN]
    \cup Spontaneous
GossipServerJob ==
    [type : {"Response"}, id : Ids] \cup [type : {"Request"}, channel : Channels]
    \cup {[type |-> "Pubsub"]}
Client == [pc : {"idle", "awaiting", "returned", "panicked"}, id : {0} \cup Ids,
           rx : {Empty, Closed} \cup {Full(b) : b \in Body},
           result : {"none", "Ok", "Deserialize", "Network"}]

\* The state has its shape; the channel of an inbound request is used up by
\* the response sent on it; and the address the node announces once
\* Identify has confirmed it has one transport component, with the port the
\* node listens on.
TypeOK ==
    /\ executor.running \in BOOLEAN
    /\ {executor.discovered_identity, executor.warmup_finished} \subseteq BOOLEAN
    /\ executor.warmup_buffer \in Seq(1..MaxPubsub)
    /\ DOMAIN executor.response_channels \subseteq Ids
    /\ Range(executor.response_channels) \subseteq Clients
    /\ cancel \in BOOLEAN
    /\ job_channel \in Seq(Job)
    /\ swarm_events \in Seq(Event) /\ Len(swarm_events) <= MaxEvents
    /\ swarm.in_flight \subseteq [id : Ids, peer : Peers]
    /\ swarm.known_addrs \subseteq Peers
    /\ swarm.open_channels \subseteq Channels /\ swarm.answered \subseteq Channels
    /\ swarm.open_channels \cap swarm.answered = {}
    /\ swarm.published \in Seq(1..MaxPubsub)
    /\ swarm.failed \subseteq Ids
    /\ bus \in Seq({"InternalWalletUpdate", "unexpected"})
    /\ gossip_work_queue \in Seq(GossipServerJob)
    /\ executor.discovered_identity =>
          {i \in DOMAIN local_addr : local_addr[i].protocol = TRANSPORT_PROTOCOL_NAME}
             = {i \in DOMAIN local_addr : local_addr[i] = Udp(P2P_PORT)}
    /\ executor.discovered_identity => Udp(P2P_PORT) \in Range(local_addr)
    /\ client \in [Clients -> Client]
    /\ asked \in [requests : 0..MaxRequests, pubsub : 0..MaxPubsub,
                  inbound : 0..MaxInbound, inputs : 0..MaxInputs]

\* The warm-up buffer of the network manager: no pubsub message reaches
\* gossipsub before Identify has confirmed the local identity, and from
\* then on gossipsub has the messages of the workers in the order they were
\* sent, each once, the ones forward_outbound_pubsub buffered included.
WarmupReplaysInOrder ==
    LET handled == swarm.published \o executor.warmup_buffer
    IN  /\ handled = [i \in 1..Len(handled) |-> i]
        /\ ~executor.discovered_identity => swarm.published = <<>>
        /\ executor.warmup_finished => executor.warmup_buffer = <<>>

\* send_request returns Ok only with a raft response, and with the one the
\* target gave to the request of this call: the manager completes the
\* response channel of the request the response answers, and
\* to_raft_response refuses every other variant of GossipResponse.
OkIsTheReplyToThisCall ==
    \A c \in Clients :
        client[c].result = "Ok" =>
            /\ client[c].rx.state = "full"
            /\ client[c].rx.body.kind = "Raft"
            /\ client[c].rx.body.re = client[c].id

InJobChannel(c) ==
    \E j \in Range(job_channel) : j.type = "RequestWithResponse" /\ j.id = client[c].id

Arrived(c) ==
    \E e \in Range(swarm_events) : e.type = "Response" /\ e.id = client[c].id

WaitsForPeer(c) == \E r \in swarm.in_flight : r.id = client[c].id

\* Every call of send_request ends unless no response came for it: the
\* job is taken from the job channel, the response of the target is taken
\* from the swarm's stream and completes the call, a job or a response
\* channel that is dropped (the signature fails, the executor returns)
\* wakes the client, and the client resumes.  Who waits for ever waits for
\* a peer that has not answered, or for a request the swarm gave up.
CallsEndUnlessUnanswered ==
    <>[](\A c \in Clients :
            client[c].pc = "awaiting" =>
                /\ Awaits(c)
                /\ WaitsForPeer(c) \/ client[c].id \in swarm.failed)

\* A send_request that waits has something to wait for: its job is in the
\* job channel, its request is with the swarm, or the response is in the
\* swarm's stream (the await of gossip.rs:79 has no timeout of its own).
NoCallWaitsOnNothing ==
    \A c \in Clients : Awaits(c) => InJobChannel(c) \/ WaitsForPeer(c) \/ Arrived(c)

=============================================================================
