---------------------------- MODULE MCTransport ----------------------------
(***************************************************************************)
(* Transport for TLC: two raft clients, one remote peer, an address with   *)
(* a transport component and one without.                                  *)
(***************************************************************************)
EXTENDS Transport

CONSTANTS c1, c2, p1

MCClients == {c1, c2}
MCPeers == {p1}

Ip4 == [protocol |-> "ip4", value |-> 0]

MCObservedAddrs ==
    {<<Ip4, Udp(8000), [protocol |-> "quic-v1", value |-> 0]>>,
     <<Ip4, [protocol |-> "tcp", value |-> 8000]>>}

MCOtherEvents == {"Kademlia"}

=============================================================================
