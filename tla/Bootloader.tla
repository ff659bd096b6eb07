------------------------------ MODULE Bootloader ------------------------------
(***************************************************************************)
(* The bootloader of a node (src/node-support/bootloader/src/main.rs).     *)
(*                                                                         *)
(* main fetches the relayer's config from the config bucket, overlays the  *)
(* environment on it, downloads the newest snapshot of the node's cluster  *)
(* from the snapshot bucket, starts the snapshot sidecar and the relayer   *)
(* and waits for both.  Every step that can fail is an action with its     *)
(* outcomes; a step that returns Err ends main.  The snapshot bucket is    *)
(* written by the sidecars of every node of every cluster while the node   *)
(* boots, and whoever runs the node starts the bootloader again after it   *)
(* ended or the node went down: both are the environment.  What is on the  *)
(* node's disk may survive from one start to the next.                     *)
(*                                                                         *)
(* A file is absent, torn (created and not written to its end) or whole;   *)
(* a config is, for each of its keys, where the value came from; a         *)
(* snapshot object is its cluster and its time of last modification.       *)
(* download_s3_file writes through a tokio file that it drops without a    *)
(* flush: the last write is handed to a background task, so the function   *)
(* may return Ok while the file is torn, for a moment or, if that write    *)
(* fails, for good.  The model takes the file as its next reader may find  *)
(* it.                                                                     *)
(***************************************************************************)
EXTENDS Naturals, Sequences, FiniteSets, FiniteSetsExt, SequencesExt

CONSTANTS
    CLUSTER_ID,    \* relayer_config.cluster_id, a sequence of characters
    ClusterIds,    \* the clusters whose sidecars write to the snapshot bucket
    Environments,  \* the sets of environment variables a node is started with
    MaxKeys,       \* the keys one call of list_objects_v2 returns
    MaxSnapshots,  \* bound: snapshots uploaded
    MaxBoots       \* bound: starts of the bootloader

VARIABLES
    env,           \* the environment variables that are set
    pc,            \* where main is
    result,        \* what main returned
    config_file,   \* the file at CONFIG_PATH
    snapshot_file, \* the file snapshot.gz under raft_snapshot_path
    snaps,         \* download_snapshot: the objects listed
    bucket,        \* the objects of the snapshot bucket
    child,         \* the snapshot sidecar and the relayer process
    at_boot,       \* history: the bucket when main began
    truncated,     \* history: the listing left objects out
    boots          \* history: how often the bootloader was started

disk == <<config_file, snapshot_file>>
outside == <<env, bucket, at_boot, boots>>
vars == <<pc, result, snaps, truncated, disk, child, outside>>

NotStarted == [sidecar |-> "none", relayer |-> "none"]

ENV_SNAP_BUCKET == "SNAPSHOT_BUCKET"
ENV_CONFIG_BUCKET == "CONFIG_BUCKET"
ENV_CONFIG_FILE == "CONFIG_FILE"
ENV_HTTP_PORT == "HTTP_PORT"
ENV_WS_PORT == "WEBSOCKET_PORT"
ENV_P2P_PORT == "P2P_PORT"
ENV_PUBLIC_IP == "PUBLIC_IP"

CONFIG_HTTP_PORT == "http-port"
CONFIG_WS_PORT == "websocket-port"
CONFIG_P2P_PORT == "p2p-port"
CONFIG_PUBLIC_IP == "public-ip"
\* relayer_config.cluster_id, for everything the bootloader leaves as it is
CONFIG_CLUSTER_ID == "cluster-id"

\* The config in the config bucket.
ConfigObject ==
    [key \in {CONFIG_HTTP_PORT, CONFIG_WS_PORT, CONFIG_P2P_PORT, CONFIG_PUBLIC_IP,
              CONFIG_CLUSTER_ID} |-> "bucket"]

NoFile == [state |-> "absent", content |-> <<>>]
Torn == [state |-> "torn", content |-> <<>>]
Whole(content) == [state |-> "whole", content |-> content]

IsEnvVarSet(var_name) == var_name \in env

\* The variables of these that read_env_var finds unset.
Unset(var_names) == var_names \ env

\* What download_s3_file may return and leave at the destination.  The
\* file is created, and so emptied, before the body is written, and the
\* last write is not waited for.
DownloadS3File(found, object, destination) ==
    {<<"Err", destination>>, <<"Err", Torn>>}
    \cup (IF found THEN {<<"Ok", Whole(object)>>, <<"Ok", Torn>>} ELSE {})

\* main ends with what a step returned unless that is Ok.
Returns(r, next) ==
    /\ pc' = IF r = "Ok" THEN next ELSE "exited"
    /\ result' = IF r = "Ok" THEN result ELSE r

-----------------------------------------------------------------------------
(* main                                                                    *)

FetchConfig ==
    /\ pc = "fetch_config"
    /\ \E out \in IF Unset({ENV_CONFIG_BUCKET, ENV_CONFIG_FILE}) = {}
                  THEN DownloadS3File(TRUE, ConfigObject, config_file)
                  ELSE {<<"Err", config_file>>} :
         /\ config_file' = out[2]
         /\ Returns(out[1], "modify_config")
    /\ UNCHANGED <<snapshot_file, snaps, truncated, child, outside>>

\* What toml::from_str makes of the file: a torn file may parse, as the
\* part of the config that was written.
Parsed(file) ==
    CASE file.state = "whole" -> {file.content}
      [] file.state = "torn" ->
            {[key \in keys |-> ConfigObject[key]] : keys \in SUBSET DOMAIN ConfigObject}
      [] OTHER -> {}

OverlayAlways(config) ==
    [key \in DOMAIN config \cup {CONFIG_HTTP_PORT, CONFIG_WS_PORT, CONFIG_P2P_PORT,
                                  CONFIG_PUBLIC_IP} |->
        IF key = CONFIG_CLUSTER_ID THEN config[key] ELSE "env"]

\* The three ports come from the environment, the public IP only if its
\* variable is set.
Overlay(config) ==
    LET inserted == {CONFIG_HTTP_PORT, CONFIG_WS_PORT, CONFIG_P2P_PORT}
                    \cup {key \in {CONFIG_PUBLIC_IP} : IsEnvVarSet(ENV_PUBLIC_IP)}
    IN  [key \in DOMAIN config \cup inserted |->
            IF key \in inserted THEN "env" ELSE config[key]]

\* The file is read, changed and written back; a write that fails may have
\* emptied the file.
ModifyConfig ==
    /\ pc = "modify_config"
    /\ \/ /\ Unset({ENV_HTTP_PORT, ENV_WS_PORT, ENV_P2P_PORT}) = {}
          /\ \E config \in Parsed(config_file) :
               \/ config_file' = Whole(Overlay(config))
                  /\ Returns("Ok", "download_snapshot")
               \/ config_file' = Torn /\ Returns("Err", "download_snapshot")
       \/ UNCHANGED config_file /\ Returns("Err", "download_snapshot")
    /\ UNCHANGED <<snapshot_file, snaps, truncated, child, outside>>

\* format!("cluster-{}", cluster_id)
SnapPath(cluster_id) == <<"cluster-">> \o cluster_id

\* The objects whose key begins with the prefix: a sidecar writes under
\* the path of its cluster.
WithPrefix(prefix) == {obj \in bucket : IsPrefix(prefix, SnapPath(obj.cluster))}

\* One call of list_objects_v2 returns MaxKeys keys at most.
Listings(objects) ==
    IF Cardinality(objects) <= MaxKeys THEN {objects} ELSE kSubset(MaxKeys, objects)

\* download_snapshot up to the listing: the bucket's name is read, the
\* config parsed (one that does not name the cluster is taken not to
\* parse), the bucket listed; no snapshot is no error.
ListSnapshots ==
    LET named == CONFIG_CLUSTER_ID \in DOMAIN config_file.content
    IN  /\ pc = "download_snapshot"
        /\ \/ /\ IsEnvVarSet(ENV_SNAP_BUCKET) /\ named
              /\ \E contents \in Listings(WithPrefix(SnapPath(CLUSTER_ID))) :
                   /\ snaps' = contents
                   /\ truncated' = (contents # WithPrefix(SnapPath(CLUSTER_ID)))
                   /\ Returns("Ok", IF contents = {} THEN "spawn" ELSE "get_snapshot")
           \/ /\ Returns(IF IsEnvVarSet(ENV_SNAP_BUCKET) /\ ~named THEN "panic" ELSE "Err",
                          "spawn")
              /\ UNCHANGED <<snaps, truncated>>
        /\ UNCHANGED <<disk, child, outside>>

Oldest(objects) ==
    CHOOSE obj \in objects : \A other \in objects : obj.last_modified <= other.last_modified

\* max_by_key on last_modified
Latest(objects) ==
    CHOOSE obj \in objects : \A other \in objects : other.last_modified <= obj.last_modified

\* download_snapshot from there.
GetSnapshot ==
    /\ pc = "get_snapshot"
    /\ \E out \in DownloadS3File(Latest(snaps) \in bucket, Latest(snaps), snapshot_file) :
         /\ snapshot_file' = out[2]
         /\ Returns(out[1], "spawn")
    /\ UNCHANGED <<config_file, snaps, truncated, child, outside>>

\* The bucket's name is read once more (download_snapshot has returned Err
\* without it) and both processes are started; main panics on the one that
\* does not start, and a sidecar that has started is not stopped by that.
Spawn ==
    /\ pc = "spawn"
    /\ IsEnvVarSet(ENV_SNAP_BUCKET)
    /\ \/ /\ child' = [sidecar |-> "running", relayer |-> "running"]
          /\ Returns("Ok", "wait")
       \/ /\ child' \in {child, [child EXCEPT !.sidecar = "running"]}
          /\ Returns("panic", "wait")
    /\ UNCHANGED <<snaps, truncated, disk, outside>>

\* try_join! of the two waits: main goes on when both processes have
\* exited, whatever their exit status.
Joined ==
    /\ pc = "wait"
    /\ \A process \in DOMAIN child : child[process] = "exited"
    /\ Returns("Ok", "exited")
    /\ UNCHANGED <<snaps, truncated, disk, child, outside>>

\* A wait that fails ends the other one, and main panics.
WaitFails ==
    /\ pc = "wait"
    /\ Returns("panic", "exited")
    /\ UNCHANGED <<snaps, truncated, disk, child, outside>>

Main ==
    \/ FetchConfig
    \/ ModifyConfig
    \/ ListSnapshots
    \/ GetSnapshot
    \/ Spawn
    \/ Joined
    \/ WaitFails

-----------------------------------------------------------------------------
(* The environment                                                         *)

\* A process ends, by itself or with the node.
Exits(process) ==
    /\ child[process] = "running"
    /\ child' = [child EXCEPT ![process] = "exited"]
    /\ UNCHANGED <<pc, result, snaps, truncated, disk, outside>>

\* The sidecar of some node of the cluster uploads a snapshot.
Uploads(cluster_id) ==
    /\ Cardinality(bucket) < MaxSnapshots
    /\ bucket' = bucket \cup {[cluster |-> cluster_id,
                               last_modified |-> Cardinality(bucket) + 1]}
    /\ UNCHANGED <<pc, result, snaps, truncated, disk, child, env, at_boot, boots>>

\* The node is started again, on the disk it had or on a new one.
Restart ==
    /\ pc \in {"wait", "exited"}
    /\ boots < MaxBoots
    /\ boots' = boots + 1
    /\ pc' = "fetch_config" /\ result' = "none"
    /\ snaps' = {} /\ truncated' = FALSE
    /\ child' = NotStarted
    /\ at_boot' = bucket
    /\ \/ UNCHANGED disk
       \/ config_file' = NoFile /\ snapshot_file' = NoFile
    /\ UNCHANGED <<env, bucket>>

Init ==
    /\ env \in Environments
    /\ pc = "fetch_config" /\ result = "none"
    /\ config_file = NoFile /\ snapshot_file = NoFile
    /\ snaps = {} /\ truncated = FALSE
    /\ bucket = {} /\ at_boot = {}
    /\ child = NotStarted
    /\ boots = 1

Next ==
    \/ Main
    \/ \E process \in DOMAIN child : Exits(process)
    \/ \E cluster_id \in ClusterIds : Uploads(cluster_id)
    \/ Restart

Spec == Init /\ [][Next]_vars

\* main returns once both waits have.
FairSpec == Spec /\ WF_vars(Joined)

-----------------------------------------------------------------------------
(* Properties                                                              *)

OfThisCluster(objects) == {obj \in objects : obj.cluster = CLUSTER_ID}

\* The relayer never starts on a state older than the one its cluster had
\* saved when the node began to boot: whenever the relayer runs there is a
\* snapshot file if the cluster had a snapshot, and a file that is whole
\* is a snapshot of the node's own cluster, at least as new as every
\* snapshot of the cluster in the bucket at the start of main, whatever
\* failed and whatever was left on the disk by earlier starts.  This is
\* what download_snapshot promises (the newest by last_modified wins) as
\* long as one listing holds every object under the prefix and no other
\* cluster writes under it.
RestoresNewestSnapshot ==
    child.relayer = "running" /\ ~truncated /\ OfThisCluster(snaps) = snaps =>
        /\ OfThisCluster(at_boot) # {} => snapshot_file.state # "absent"
        /\ snapshot_file.state = "whole" =>
              /\ snapshot_file.content.cluster = CLUSTER_ID
              /\ \A obj \in OfThisCluster(at_boot) :
                    obj.last_modified <= snapshot_file.content.last_modified

\* The sidecar and the relayer only ever run on a config that carries the
\* node's environment: the ports of the environment, and its public IP
\* exactly when PUBLIC_IP is set (fetch_config and modify_config, with the
\* early returns of main between the steps and the files of earlier starts
\* on the disk).
ConfigCarriesEnvironment ==
    (\E process \in DOMAIN child : child[process] = "running") =>
        LET config == config_file.content
            FromEnv(key) == key \in DOMAIN config /\ config[key] = "env"
        IN  /\ config_file.state = "whole"
            /\ \A key \in {CONFIG_HTTP_PORT, CONFIG_WS_PORT, CONFIG_P2P_PORT} : FromEnv(key)
            /\ FromEnv(CONFIG_PUBLIC_IP) <=> ENV_PUBLIC_IP \in env

\* The relayer starts on the files main fetched, and on all of each: the
\* config has every key of the config in the bucket and the snapshot file
\* is not torn (download_s3_file returns Ok when the body is written).
StartsOnWholeFiles ==
    child.relayer = "running" =>
        /\ DOMAIN ConfigObject \subseteq DOMAIN config_file.content
        /\ snapshot_file.state # "torn"

\* The snapshot the relayer starts on is one of its own cluster (the prefix
\* of download_snapshot is the cluster's path).
SnapshotIsOfThisCluster ==
    child.relayer = "running" /\ snapshot_file.state = "whole" =>
        snapshot_file.content.cluster = CLUSTER_ID

\* The relayer starts on the newest snapshot its cluster had saved, however
\* many there are (download_snapshot lists the bucket once).
RestoresNewestOfAny ==
    child.relayer = "running" /\ OfThisCluster(snaps) = snaps /\ snapshot_file.state = "whole" =>
        \A obj \in OfThisCluster(at_boot) :
            obj.last_modified <= snapshot_file.content.last_modified

\* A node whose relayer has exited does not stay up: main ends, or the node
\* is started again (the expect on try_join! in main speaks of either
\* process encountering an error).
RelayerExitEndsMain ==
    child.relayer = "exited" ~> pc \in {"exited", "fetch_config"}

=============================================================================
