----------------------------- MODULE MCHeartbeat -----------------------------
(***************************************************************************)
(* Heartbeat for TLC: the local relayer and one remote peer, one managed   *)
(* wallet.  The thresholds keep the code's order (failure < window) at a   *)
(* scale the clock bound reaches: the peer can time out, be expired and be *)
(* gossiped back inside its window before MaxTime.                         *)
(***************************************************************************)
EXTENDS Heartbeat

CONSTANTS local, p1, wallet, e1, e2

MCPeersPair == {local, p1}
MCKeyOrderPair == <<p1, local>>
OneWorker == {e1}
TwoWorkers == {e1, e2}

=============================================================================
