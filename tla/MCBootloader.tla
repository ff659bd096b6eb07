---------------------------- MODULE MCBootloader ----------------------------
(***************************************************************************)
(* Bootloader for TLC: the node's cluster, a cluster whose id begins with  *)
(* the node's and one whose id does not; the environments that set every   *)
(* variable, every one but the optional PUBLIC_IP, and every one but a     *)
(* required one read at each step.                                         *)
(***************************************************************************)
EXTENDS Bootloader

MCClusterId == <<"a">>

MCClusterIds == {<<"a">>, <<"a", "b">>, <<"c">>}

AllVars ==
    {ENV_SNAP_BUCKET, ENV_CONFIG_BUCKET, ENV_CONFIG_FILE, ENV_HTTP_PORT,
     ENV_WS_PORT, ENV_P2P_PORT, ENV_PUBLIC_IP}

MCEnvironments ==
    {AllVars} \cup {AllVars \ {var} :
                       var \in {ENV_PUBLIC_IP, ENV_CONFIG_FILE, ENV_P2P_PORT, ENV_SNAP_BUCKET}}

=============================================================================
