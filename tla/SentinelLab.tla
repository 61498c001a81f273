---------------------------- MODULE SentinelLab ----------------------------
(***************************************************************************)
(* The sentinel lab under failover, seen by its two readers in the backend:*)
(* a console command (SentinelClient.Cmd and CurrentMasterPod in           *)
(* backend/internal/redis/sentinel.go) resolves the master and then execs  *)
(* into that pod; a topology request (handleSentinelTopology in            *)
(* backend/internal/api/topology.go) puts together the answers of five     *)
(* separate queries.  A failover may go on between any two of them; at the *)
(* end of it Sentinel's two answers about the master differ for a while.   *)
(***************************************************************************)
EXTENDS Naturals, FiniteSets

CONSTANTS Nodes,      \* pods, each a Redis node with a Sentinel beside it
          Commands,   \* console commands
          Views,      \* topology requests
          NoPod,      \* an empty pod name
          MaxSwitches \* bound: failovers

\* A command is no topology request, and an empty name is no pod's.
ASSUME SentinelLabAssumption ==
    /\ Commands \cap Views = {} /\ NoPod \notin Nodes
    /\ MaxSwitches \in Nat

VARIABLES record,   \* the master Sentinel monitors
          promoted, \* the replica a failover replaces it by, or NoPod
          role,     \* each node's own role
          up,       \* nodes that are running
          switches, \* failovers so far
          cpc, target, result, \* each command: where it is, its pod, its answer
          vpc, view, \* each topology request: where it is, what it has gathered
          moved,     \* history: commands whose master moved after they resolved it
          overtaken  \* history: the steps of a failover each request has met

labVars  == <<record, promoted, role, up, switches>>
cmdVars  == <<cpc, target, result>>
topVars  == <<vpc, view>>
histVars == <<moved, overtaken>>
vars     == <<labVars, cmdVars, topVars, histVars>>

Status == {"ok", "sdown", "odown", "disconnected", "unknown"}

\* A topology.  The status of a replica or of a Sentinel is made of its flags as
\* the master's is, and is left out.
View == [pods : SUBSET Nodes, master : Nodes \cup {NoPod}, masterStatus : Status,
         replicas : SUBSET Nodes, sentinels : SUBSET Nodes, currentMaster : Nodes \cup {NoPod}]

EmptyView == [pods |-> {}, master |-> NoPod, masterStatus |-> "unknown",
              replicas |-> {}, sentinels |-> {}, currentMaster |-> NoPod]

\* The lab and its readers have their shape: the page knows each status, and a
\* master that could not be asked has neither a name nor a status that says it is
\* well.
TypeOK ==
    /\ record \in Nodes
    /\ promoted \in Nodes \cup {NoPod}
    /\ role \in [Nodes -> {"master", "replica"}]
    /\ up \in SUBSET Nodes
    /\ switches \in 0..MaxSwitches
    /\ cpc \in [Commands -> {"start", "exec", "done"}]
    /\ target \in [Commands -> Nodes \cup {NoPod}]
    /\ result \in [Commands -> {"none", "OK", "READONLY", "error"}]
    /\ vpc \in [Views -> {"pods", "master", "replicas", "sentinels", "addr", "done", "failed"}]
    /\ view \in [Views -> View]
    /\ \A v \in Views : view[v].masterStatus = "unknown" <=> view[v].master = NoPod
    /\ moved \in SUBSET Commands
    /\ overtaken \in [Views -> SUBSET {"promotion", "switch"}]

Init ==
    /\ record \in Nodes
    /\ role = [n \in Nodes |-> IF n = record THEN "master" ELSE "replica"]
    /\ promoted = NoPod /\ up = Nodes /\ switches = 0
    /\ cpc = [c \in Commands |-> "start"]
    /\ target = [c \in Commands |-> NoPod]
    /\ result = [c \in Commands |-> "none"]
    /\ vpc = [v \in Views |-> "pods"]
    /\ view = [v \in Views |-> EmptyView]
    /\ moved = {}
    /\ overtaken = [v \in Views |-> {}]

-----------------------------------------------------------------------------
(* Kubernetes, Redis and Sentinel                                          *)

\* SENTINEL GET-MASTER-ADDR-BY-NAME: from the reconfiguration of the replicas on,
\* the node that was promoted, which SENTINEL MASTER still calls a replica.
MasterAddr == IF promoted = NoPod THEN record ELSE promoted

PodDies(n) ==
    /\ n \in up
    /\ up' = up \ {n}
    /\ UNCHANGED <<record, promoted, role, switches, cmdVars, topVars, histVars>>

\* The pod is recreated and asks Sentinel for the master before it starts Redis.
PodReturns(n) ==
    /\ n \notin up
    /\ up' = up \cup {n}
    /\ role' = [role EXCEPT ![n] = IF MasterAddr = n THEN "master" ELSE "replica"]
    /\ UNCHANGED <<record, promoted, switches, cmdVars, topVars, histVars>>

\* A failover makes a running replica a master.
Promote(n) ==
    /\ record \notin up /\ n \in up /\ switches < MaxSwitches
    /\ promoted = NoPod /\ \A m \in up : role[m] = "replica"
    /\ role' = [role EXCEPT ![n] = "master"]
    /\ UNCHANGED <<record, promoted, up, switches, cmdVars, topVars, histVars>>

\* The commands between their two steps, the requests between their five.
Executing == {c \in Commands : cpc[c] = "exec"}
Gathering == {v \in Views : vpc[v] \notin {"pods", "done", "failed"}}

Meets(event) ==
    overtaken' = [v \in Views |-> overtaken[v] \cup (IF v \in Gathering THEN {event} ELSE {})]

\* The node has confirmed: the Sentinel that leads the failover makes the other
\* replicas follow it, and names it when asked for the address.
Reconfigure(n) ==
    /\ n # record /\ n \in up /\ role[n] = "master"
    /\ promoted = NoPod /\ switches < MaxSwitches
    /\ promoted' = n
    /\ moved' = moved \cup Executing
    /\ Meets("promotion")
    /\ UNCHANGED <<record, role, up, switches, cmdVars, topVars>>

\* +switch-master: the node is monitored as the master.  A Sentinel that did not
\* lead the failover comes here without the step before.
SwitchMaster(n) ==
    /\ n # record /\ n \in up /\ role[n] = "master"
    /\ promoted \in {n, NoPod} /\ switches < MaxSwitches
    /\ record' = n /\ promoted' = NoPod
    /\ switches' = switches + 1
    /\ moved' = IF promoted = NoPod THEN moved \cup Executing ELSE moved
    /\ Meets("switch")
    /\ UNCHANGED <<role, up, cmdVars, topVars>>

\* A node that calls itself master is made a replica: the former master that came
\* back too early, or the one of a failover that was given up.
Demote(n) ==
    /\ n \in up /\ n \notin {record, promoted} /\ role[n] = "master" /\ role[record] = "master"
    /\ role' = [role EXCEPT ![n] = "replica"]
    /\ UNCHANGED <<record, promoted, up, switches, cmdVars, topVars, histVars>>

-----------------------------------------------------------------------------
(* SentinelClient.Cmd                                                      *)

Answer(c, r) ==
    /\ cpc' = [cpc EXCEPT ![c] = "done"]
    /\ result' = [result EXCEPT ![c] = r]

\* Mutant of Resolve: SENTINEL MASTER is asked, as for the topology.
ResolveMonitored(c) ==
    /\ cpc[c] = "start"
    /\ target' = [target EXCEPT ![c] = record]
    /\ cpc' = [cpc EXCEPT ![c] = "exec"]
    /\ UNCHANGED <<labVars, result, topVars, histVars>>

\* CurrentMasterPod: the address Sentinel answers, reduced to the pod name.
Resolve(c) ==
    /\ cpc[c] = "start"
    /\ target' = [target EXCEPT ![c] = MasterAddr]
    /\ cpc' = [cpc EXCEPT ![c] = "exec"]
    /\ UNCHANGED <<labVars, result, topVars, histVars>>

\* Sentinel does not answer, or knows no address: an error.
ResolveFails(c) ==
    /\ cpc[c] = "start"
    /\ Answer(c, "error")
    /\ UNCHANGED <<labVars, target, topVars, histVars>>

\* redis-cli in the pod: a replica's refusal is text on stdout, so a result.
Exec(c) ==
    /\ cpc[c] = "exec" /\ target[c] \in up
    /\ Answer(c, IF role[target[c]] = "master" THEN "OK" ELSE "READONLY")
    /\ UNCHANGED <<labVars, target, topVars, histVars>>

\* The pod is down, or the exec or the 5 s context fail, with no output.
ExecFails(c) ==
    /\ cpc[c] = "exec"
    /\ Answer(c, "error")
    /\ UNCHANGED <<labVars, target, topVars, histVars>>

-----------------------------------------------------------------------------
(* handleSentinelTopology: five queries, each on its own                   *)

Gather(v, at, next, new) ==
    /\ vpc[v] = at
    /\ vpc' = [vpc EXCEPT ![v] = next]
    /\ view' = [view EXCEPT ![v] = new]
    /\ UNCHANGED <<labVars, cmdVars, moved>>

\* An error of ListPods is the only one that fails the request (500).
ListPods(v) ==
    /\ \/ Gather(v, "pods", "master", [view[v] EXCEPT !.pods = up])
       \/ Gather(v, "pods", "failed", view[v])
    /\ overtaken' = [overtaken EXCEPT ![v] = IF promoted = NoPod THEN {} ELSE {"promotion"}]

\* What SENTINEL MASTER may carry: Sentinel notices late that a node is down or
\* back, and more than one flag stands while it fails a master over.
MasterFlags == {{"master"} \cup f : f \in SUBSET {"s_down", "o_down", "disconnected"}}

\* Mutant of flagStatus: the empty string of a failed query is not told apart.
flagStatusOfAnswer(flags) ==
    IF "o_down" \in flags THEN "odown"
    ELSE IF "s_down" \in flags THEN "sdown"
    ELSE IF "disconnected" \in flags THEN "disconnected" ELSE "ok"

\* flagStatus: no flags at all are those of a query that failed.
flagStatus(flags) ==
    IF flags = {} THEN "unknown"
    ELSE IF "o_down" \in flags THEN "odown"
    ELSE IF "s_down" \in flags THEN "sdown"
    ELSE IF "disconnected" \in flags THEN "disconnected" ELSE "ok"

MasterView(v, m, flags) ==
    Gather(v, "master", "replicas",
           [view[v] EXCEPT !.master = m, !.masterStatus = flagStatus(flags)])

QueryMaster(v) ==
    /\ \/ \E flags \in MasterFlags : MasterView(v, record, flags)
       \/ MasterView(v, NoPod, {})
    /\ UNCHANGED overtaken

\* Mutant of QueryReplicas: replicas that are down are left out.
QueryRunningReplicas(v) ==
    /\ Gather(v, "replicas", "sentinels", [view[v] EXCEPT !.replicas = up \ {record}])
    /\ UNCHANGED overtaken

QueryReplicas(v) ==
    /\ \/ Gather(v, "replicas", "sentinels", [view[v] EXCEPT !.replicas = Nodes \ {record}])
       \/ Gather(v, "replicas", "sentinels", view[v])
    /\ UNCHANGED overtaken

\* The answering Sentinel lists its peers only.
QuerySentinels(v) ==
    /\ \/ \E self \in up :
             Gather(v, "sentinels", "addr", [view[v] EXCEPT !.sentinels = Nodes \ {self}])
       \/ Gather(v, "sentinels", "addr", view[v])
    /\ UNCHANGED overtaken

QueryMasterAddr(v) ==
    /\ \/ Gather(v, "addr", "done", [view[v] EXCEPT !.currentMaster = MasterAddr])
       \/ Gather(v, "addr", "done", view[v])
    /\ UNCHANGED overtaken

-----------------------------------------------------------------------------

Next ==
    \/ \E n \in Nodes : PodDies(n) \/ PodReturns(n) \/ Promote(n) \/ Reconfigure(n)
                       \/ SwitchMaster(n) \/ Demote(n)
    \/ \E c \in Commands : Resolve(c) \/ ResolveFails(c) \/ Exec(c) \/ ExecFails(c)
    \/ \E v \in Views :
          ListPods(v) \/ QueryMaster(v) \/ QueryReplicas(v) \/ QuerySentinels(v) \/ QueryMasterAddr(v)

Spec == Init /\ [][Next]_vars

-----------------------------------------------------------------------------
(* What is promised                                                        *)

\* A command is refused as READONLY only if the master moved after it was resolved.
\* Otherwise the pod it ran in was the master, whatever died, returned, was promoted
\* or given up meanwhile, and at whichever stage a failover was.
RefusedOnlyIfMoved == \A c \in Commands : result[c] = "READONLY" => c \in moved

\* A topology that no switch overtook tells of one master and of all the other
\* nodes as its replicas, as far as its queries were answered.  currentMaster is
\* that master too, unless a failover had got to the reconfiguration of the
\* replicas while the request was under way.
SettledViewIsWhole ==
    \A v \in Views : vpc[v] = "done" =>
        LET w == view[v] IN
        /\ "switch" \notin overtaken[v] /\ w.master # NoPod =>
              w.replicas \in {{}, Nodes \ {w.master}}
        /\ overtaken[v] = {} =>
              /\ NoPod \in {w.master, w.currentMaster} \/ w.master = w.currentMaster
              /\ w.replicas = {} \/ w.replicas \cap {w.master, w.currentMaster} = {}

=============================================================================
