-------------------------- MODULE ClusterTopology --------------------------
(***************************************************************************)
(* GET /api/labs/cluster/topology: handleClusterTopology in                *)
(* backend/internal/api/topology.go.  It asks Kubernetes for the pods,     *)
(* then a cluster node for CLUSTER NODES and CLUSTER INFO, and joins the   *)
(* two pictures by address.  The cluster may change in between.            *)
(***************************************************************************)
EXTENDS ClusterNodes

CONSTANT Views \* topology requests

VARIABLES vpc,      \* where each request is
          pods,     \* its pods: name -> address
          shards,   \* its shard views
          vsettled  \* history: no change since it began

viewVars == <<vpc, pods, shards, vsettled>>

ShardView == [masterID : Nodes, masterPod : Nodes \cup {NoNode},
              slotRanges : SUBSET (Slots \X Slots), replicas : SUBSET [id : Nodes, pod : Nodes \cup {NoNode}]]

\* A topology request and the shard views it has put together.
ViewType ==
    /\ vpc \in [Views -> {"pods", "nodes", "info", "done", "failed", "noshards"}]
    /\ pods \in [Views -> [Nodes -> Addrs \cup {NoAddr}]]
    /\ \A v \in Views : \A sh \in shards[v] : sh \in ShardView
    /\ vsettled \in [Views -> BOOLEAN]

ViewInit ==
    /\ vpc = [v \in Views |-> "pods"]
    /\ pods = [v \in Views |-> [n \in Nodes |-> NoAddr]]
    /\ shards = [v \in Views |-> {}]
    /\ vsettled = [v \in Views |-> TRUE]

\* What a change of the cluster does to the history of the requests.
Unsettle == vsettled' = [v \in Views |-> vsettled[v] /\ vpc[v] = "pods"]

At(v, a, b) == vpc[v] = a /\ vpc' = [vpc EXCEPT ![v] = b]

ListPods(v) ==
    /\ At(v, "pods", "nodes")
    /\ pods' = [pods EXCEPT ![v] = ip]
    /\ UNCHANGED <<clusterVars, shards, vsettled>>

\* The only error that fails the request: 500.
ListPodsFails(v) ==
    /\ At(v, "pods", "failed")
    /\ UNCHANGED <<clusterVars, pods, shards, vsettled>>

\* GetShards, each shard with the pods its addresses belong to.
QueryShards(v) ==
    /\ At(v, "nodes", "info")
    /\ shards' = [shards EXCEPT ![v] =
          {[masterID   |-> sh.masterID,
            masterPod  |-> podForIP(pods[v], sh.masterAddr),
            slotRanges |-> sh.slotRanges,
            replicas   |-> {[id |-> r.id, pod |-> podForIP(pods[v], r.addr)] : r \in sh.replicas}] :
              sh \in GetShards}]
    /\ UNCHANGED <<clusterVars, pods, vsettled>>

\* No shards, and the error in the body.
QueryShardsFails(v) ==
    /\ At(v, "nodes", "noshards")
    /\ UNCHANGED <<clusterVars, pods, shards, vsettled>>

\* CLUSTER INFO is passed on, its error is dropped; 200.
QueryInfo(v) ==
    /\ At(v, "info", "done")
    /\ UNCHANGED <<clusterVars, pods, shards, vsettled>>

ViewStep(v) ==
    ListPods(v) \/ ListPodsFails(v) \/ QueryShards(v) \/ QueryShardsFails(v) \/ QueryInfo(v)

=============================================================================
