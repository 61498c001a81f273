--------------------------- MODULE MCBroadcaster ---------------------------
(* Small instances of Broadcaster.  main.go starts one pod watcher per lab *)
(* and one Sentinel watcher, so the sentinel lab has two publishers.       *)
EXTENDS Broadcaster, TLC

CONSTANTS pods, sentinel, s1, s2

\* The sentinel lab has both publishers, the standalone lab none of these.
TwoPublishers == [p \in {pods, sentinel} |-> "sentinel"]

SessionSymmetry == Permutations({s1, s2})

=============================================================================
