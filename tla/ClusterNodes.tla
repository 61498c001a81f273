---------------------------- MODULE ClusterNodes ----------------------------
(***************************************************************************)
(* The Redis Cluster of the cluster lab, what one of its nodes answers to  *)
(* CLUSTER NODES, and how the backend reads that answer                    *)
(* (backend/internal/redis/cluster.go and podForIP of                      *)
(* backend/internal/api/topology.go).  The lines of an answer, the tokens  *)
(* of a line and the lists made of them are sets: their order is any.      *)
(***************************************************************************)
EXTENDS Integers, FiniteSets

CONSTANTS Nodes,     \* the cluster's nodes, each in a pod of its own
          Slots,     \* hash slots: an interval from 0
          Addrs,     \* pod addresses
          NoNode,    \* no node: an empty pod name, a line's "-"
          NoAddr,    \* an empty address
          MaxChanges \* bound: changes of the cluster

ASSUME ClusterAssumption ==
    /\ NoNode \notin Nodes /\ NoAddr \notin Addrs
    /\ 0 \in Slots /\ IsFiniteSet(Slots) /\ Slots = 0..(Cardinality(Slots) - 1)
    /\ MaxChanges \in Nat

VARIABLES masterOf,  \* the node each node replicates, NoNode for a master
          owner,     \* the master that serves each slot
          migrating, \* the master a slot is on its way to, or NoNode
          up,        \* the nodes whose pod runs
          ip,        \* Kubernetes: each pod's address, NoAddr while it is down
          addr,      \* the cluster: the address its nodes have of each other
          changes    \* changes so far

clusterVars == <<masterOf, owner, migrating, up, ip, addr, changes>>

IsMaster(n) == masterOf[n] = NoNode

Injective(f) == \A m, n \in DOMAIN f : f[m] = f[n] => m = n

\* Roles, slots and addresses: every slot is served by a master.
ClusterType ==
    /\ masterOf \in [Nodes -> Nodes \cup {NoNode}]
    /\ owner \in [Slots -> Nodes] /\ \A s \in Slots : IsMaster(owner[s])
    /\ migrating \in [Slots -> Nodes \cup {NoNode}]
    /\ up \in SUBSET Nodes
    /\ ip \in [Nodes -> Addrs \cup {NoAddr}]
    /\ addr \in [Nodes -> Addrs]
    /\ changes \in 0..MaxChanges

\* A cluster that works: any masters with any slots, replicas of masters.
ClusterInit ==
    /\ masterOf \in [Nodes -> Nodes \cup {NoNode}]
    /\ \A n \in Nodes : ~IsMaster(n) => IsMaster(masterOf[n])
    /\ owner \in [Slots -> {n \in Nodes : IsMaster(n)}]
    /\ \A n \in Nodes : IsMaster(n) => n \in {owner[s] : s \in Slots}
    /\ migrating = [s \in Slots |-> NoNode]
    /\ up = Nodes
    /\ ip \in {f \in [Nodes -> Addrs] : Injective(f)}
    /\ addr = ip
    /\ changes = 0

-----------------------------------------------------------------------------
(* Kubernetes and Redis Cluster                                            *)

BeginMigration(s, n) ==
    /\ migrating[s] = NoNode /\ owner[s] # n /\ IsMaster(n)
    /\ {n, owner[s]} \subseteq up
    /\ migrating' = [migrating EXCEPT ![s] = n]
    /\ UNCHANGED <<masterOf, owner, up, ip, addr>>

EndMigration(s) ==
    /\ migrating[s] # NoNode
    /\ owner' = [owner EXCEPT ![s] = migrating[s]]
    /\ migrating' = [migrating EXCEPT ![s] = NoNode]
    /\ UNCHANGED <<masterOf, up, ip, addr>>

PodDies(n) ==
    /\ n \in up
    /\ up' = up \ {n}
    /\ ip' = [ip EXCEPT ![n] = NoAddr]
    /\ UNCHANGED <<masterOf, owner, migrating, addr>>

\* The pod is recreated with an address that is free, one of another pod's that
\* died included.
PodReturns(n, a) ==
    /\ n \notin up /\ a \notin {ip[m] : m \in Nodes}
    /\ up' = up \cup {n}
    /\ ip' = [ip EXCEPT ![n] = a]
    /\ UNCHANGED <<masterOf, owner, migrating, addr>>

\* The cluster learns the new address of a node.
Gossip(n) ==
    /\ n \in up /\ addr[n] # ip[n]
    /\ addr' = [addr EXCEPT ![n] = ip[n]]
    /\ UNCHANGED <<masterOf, owner, migrating, up, ip>>

\* A replica takes over the slots of its dead master, whose line stays, as a
\* failed master without slots.
Failover(n) ==
    LET old == masterOf[n] IN
    /\ n \in up /\ old \in Nodes \ up
    /\ masterOf' = [m \in Nodes |-> CASE m = n -> NoNode
                                      [] m # n /\ masterOf[m] = old -> n
                                      [] OTHER -> masterOf[m]]
    /\ owner' = [s \in Slots |-> IF owner[s] = old THEN n ELSE owner[s]]
    /\ migrating' = [s \in Slots |-> IF old \in {owner[s], migrating[s]} THEN NoNode
                                     ELSE migrating[s]]
    /\ UNCHANGED <<up, ip, addr>>

\* A master that is back, and serves no slot any more, becomes a replica.
Rejoin(n) ==
    /\ n \in up /\ IsMaster(n)
    /\ \A s \in Slots : n \notin {owner[s], migrating[s]}
    /\ \A m \in Nodes : masterOf[m] # n
    /\ \E s \in Slots : masterOf' = [masterOf EXCEPT ![n] = owner[s]]
    /\ UNCHANGED <<owner, migrating, up, ip, addr>>

ClusterChange ==
    /\ changes < MaxChanges /\ changes' = changes + 1
    /\ \/ \E s \in Slots : EndMigration(s) \/ \E n \in Nodes : BeginMigration(s, n)
       \/ \E n \in Nodes : PodDies(n) \/ Gossip(n) \/ Failover(n) \/ Rejoin(n)
       \/ \E n \in Nodes, a \in Addrs : PodReturns(n, a)

-----------------------------------------------------------------------------
(* CLUSTER NODES                                                           *)

\* The maximal intervals of a set of slots.
Runs(S) ==
    {r \in S \X S : r[1] <= r[2] /\ r[1]..r[2] \subseteq S
                    /\ r[1] - 1 \notin S /\ r[2] + 1 \notin S}

\* A run of one slot is written as that slot, a longer one as lo-hi, and a slot
\* that is on its way as a marker in brackets, beside the run it is still in.
Tokens(n) ==
    {[kind |-> IF r[1] = r[2] THEN "slot" ELSE "range", lo |-> r[1], hi |-> r[2]] :
        r \in Runs({s \in Slots : owner[s] = n})}
    \cup {[kind |-> "marker", lo |-> s, hi |-> s] :
             s \in {t \in Slots : migrating[t] # NoNode /\ n \in {owner[t], migrating[t]}}}

Flags(n) == {IF IsMaster(n) THEN "master" ELSE "slave"} \cup (IF n \in up THEN {} ELSE {"fail"})

CLUSTERNODES ==
    {[id |-> n, addr |-> addr[n], flags |-> Flags(n), master |-> masterOf[n],
      tokens |-> Tokens(n)] : n \in Nodes}

-----------------------------------------------------------------------------
(* cluster.go                                                              *)

\* Mutant of parseClusterNodes: only lo-hi is taken for slots.
parseClusterRanges(lines) ==
    {[id |-> l.id, addr |-> l.addr, flags |-> l.flags, masterID |-> l.master,
      slotRanges |-> {<<t.lo, t.hi>> : t \in {u \in l.tokens : u.kind = "range"}}] : l \in lines}

\* One NodeInfo per line; markers are skipped, a single slot is a range.
parseClusterNodes(lines) ==
    {[id |-> l.id, addr |-> l.addr, flags |-> l.flags, masterID |-> l.master,
      slotRanges |-> {<<t.lo, t.hi>> : t \in {u \in l.tokens : u.kind # "marker"}}] : l \in lines}

\* A shard for every line with "master" among its flags, failed ones too.
GetShards ==
    LET nodes == parseClusterNodes(CLUSTERNODES) IN
    {[masterID |-> n.id, masterAddr |-> n.addr, slotRanges |-> n.slotRanges,
      replicas |-> {m \in nodes : m.masterID = n.id}] :
        n \in {m \in nodes : "master" \in m.flags}}

\* Mutant of NodeForSlot: the end of a range is not looked at.
NodeForSlotFrom(s) ==
    {sh.masterAddr : sh \in {t \in GetShards : \E r \in t.slotRanges : r[1] <= s}}

\* The addresses that may be found first; none is the error "slot not assigned".
NodeForSlot(s) ==
    {sh.masterAddr : sh \in {t \in GetShards : \E r \in t.slotRanges : r[1] <= s /\ s <= r[2]}}

\* The pod of an address in the answer of ListPods (pod -> address).
podForIP(pods, a) ==
    IF \E n \in Nodes : pods[n] = a THEN CHOOSE n \in Nodes : pods[n] = a ELSE NoNode

=============================================================================
