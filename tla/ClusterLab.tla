----------------------------- MODULE ClusterLab -----------------------------
(***************************************************************************)
(* The cluster lab: console commands (ClusterExec) and topology requests   *)
(* (ClusterTopology) on one Redis Cluster (ClusterNodes) whose slots       *)
(* migrate, whose nodes die, come back under another address and are       *)
(* failed over between any two calls of theirs.                            *)
(***************************************************************************)
EXTENDS ClusterExec, ClusterTopology

vars == <<clusterVars, commandVars, viewVars>>

\* The cluster, the commands and the topology requests have their shape: slots
\* are served by masters, and no command is executed more than twice.
TypeOK == ClusterType /\ CommandType /\ ViewType

Init == ClusterInit /\ CommandInit /\ ViewInit

Change ==
    /\ ClusterChange
    /\ Overtake /\ UNCHANGED <<pc, arg, key, outVars, applied, ranOn>>
    /\ Unsettle /\ UNCHANGED <<vpc, pods, shards>>

Next ==
    \/ Change
    \/ \E c \in Commands : CommandStep(c) /\ UNCHANGED viewVars
    \/ \E v \in Views : ViewStep(v) /\ UNCHANGED commandVars

Spec == Init /\ [][Next]_vars

-----------------------------------------------------------------------------
(* What is promised                                                        *)

\* A redirect of the cluster's in the answer proves the first pass ran nothing: a
\* command that shows one has been executed at most once, whatever changed in
\* between.  One taken from a stored value proves nothing.
RedirectedRunsOnce ==
    \A c \in Commands : redirects[c] \ {NoAddr} # {} => applied[c] <= 1

\* While the cluster stays as it is and the slot is not on its way, what the page
\* shows is how the request flowed: a redirect of the cluster's, if one is shown,
\* led to where the command ran, and executedOn, if it is filled in, is that node
\* too, provided that the command's second word is its key.  The code takes that of
\* any command for it: INFO replication runs in Pod0's pod and is shown as executed
\* by the master of the slot that "replication" would have.
SettledFlowIsTrue ==
    \A c \in Commands : reply[c] = "result" /\ ranOn[c] # NoAddr /\ settled[c] =>
        /\ arg[c] = key[c] => executedOn[c] \in {ranOn[c], NoAddr}
        /\ redirects[c] \subseteq {ranOn[c], NoAddr}

\* A topology that no change overtook, of a cluster whose nodes know each other's
\* addresses, shows every slot in exactly one shard, under the pod that serves
\* it, and every replica whose pod is up in the shard of its master.
SettledTopologyIsTrue ==
    \A v \in Views :
        /\ vpc[v] = "done" /\ vsettled[v]
        /\ \A n \in up : addr[n] = ip[n]
        /\ \A m, n \in Nodes : addr[m] = addr[n] => m = n
        => /\ \A s \in Slots :
                 \E sh \in shards[v] :
                     /\ sh.masterPod = IF owner[s] \in up THEN owner[s] ELSE NoNode
                     /\ {t \in shards[v] : \E r \in t.slotRanges : s \in r[1]..r[2]} = {sh}
           /\ \A n \in up : ~IsMaster(n) =>
                 {sh.masterID : sh \in {t \in shards[v] : n \in {r.pod : r \in t.replicas}}}
                     = {masterOf[n]}

\* redis-lab-prompt.md:317 says the command is run, and retried on the right
\* node if the answer is MOVED: one execution per command.
ExecutedOnce == \A c \in Commands : key[c] # NoKey => applied[c] <= 1


=============================================================================
