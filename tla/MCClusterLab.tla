---------------------------- MODULE MCClusterLab ----------------------------
(* Small instances of ClusterLab: Pod0, two more nodes, three addresses.   *)
EXTENDS ClusterLab, TLC

CONSTANTS n0, n1, n2, a0, a1, a2

LabSymmetry == Permutations({n1, n2}) \cup Permutations({a0, a1, a2})

\* Commands and topology requests share nothing but the cluster, which neither
\* changes: it is enough to let one of them begin.
OneRequest ==
    Cardinality({c \in Commands : pc[c] # "start"} \cup {v \in Views : vpc[v] # "pods"}) <= 1

=============================================================================
