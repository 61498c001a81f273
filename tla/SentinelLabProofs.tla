-------------------------- MODULE SentinelLabProofs --------------------------
(***************************************************************************)
(* For any nodes, commands, topology requests and failovers: a command is  *)
(* refused only after the master moved away from it, and a topology that   *)
(* no failover overtook is of one master.                                  *)
(***************************************************************************)
EXTENDS SentinelLab, TLAPS

\* The node Sentinel names is a master, even while it is down.
NamedIsMaster == role[MasterAddr] = "master"

\* A command that waits to be run is in the pod Sentinel names, unless the master
\* moved since.
CommandsFollow ==
    \A c \in Commands : cpc[c] = "exec" /\ c \notin moved => target[c] = MasterAddr

\* The view w is of the time m was monitored, as far as it got answers.
Pictures(w, m) == w.master \in {m, NoPod} /\ w.replicas \in {{}, Nodes \ {m}}

Names(w, m) == w.currentMaster \in {m, NoPod}

\* A request that is under way has gathered what is on record, one that was answered
\* has answered what was on record then.
ViewsPicture ==
    \A v \in Views :
        /\ vpc[v] = "pods" => view[v] = EmptyView
        /\ v \in Gathering /\ "switch" \notin overtaken[v] => Pictures(view[v], record)
        /\ v \in Gathering /\ overtaken[v] = {} => promoted = NoPod /\ Names(view[v], record)
        /\ vpc[v] = "done" /\ "switch" \notin overtaken[v] =>
              \E m \in Nodes : /\ Pictures(view[v], m)
                               /\ overtaken[v] = {} => Names(view[v], m)

LabInv == TypeOK /\ NamedIsMaster /\ CommandsFollow /\ RefusedOnlyIfMoved /\ ViewsPicture

\* A lab with one master, where nobody has asked anything yet.
LEMMA InitLab == Init => LabInv
<1> SUFFICES ASSUME Init PROVE LabInv
  OBVIOUS
<1>1. EmptyView \in View /\ EmptyView.masterStatus = "unknown" /\ EmptyView.master = NoPod
  BY DEF EmptyView, View, Status
<1>2. TypeOK
  BY <1>1, SentinelLabAssumption DEF Init, TypeOK
<1>3. NamedIsMaster /\ CommandsFollow /\ RefusedOnlyIfMoved
  BY DEF Init, NamedIsMaster, MasterAddr, CommandsFollow, RefusedOnlyIfMoved
<1>4. ViewsPicture
  BY DEF Init, ViewsPicture, Gathering
<1> QED
  BY <1>2, <1>3, <1>4 DEF LabInv

-----------------------------------------------------------------------------
(* The lab                                                                 *)

\* Pods that come, go and change roles change nothing that a reader was told, as
\* long as the node Sentinel names stays a master.
LEMMA RolesChange ==
    ASSUME LabInv, UNCHANGED <<record, promoted, switches, cmdVars, topVars, histVars>>,
           up' \in SUBSET Nodes, role' \in [Nodes -> {"master", "replica"}],
           NamedIsMaster'
    PROVE  LabInv'
<1> USE DEF cmdVars, topVars, histVars
<1>1. TypeOK'
  BY DEF LabInv, TypeOK
<1>2. CommandsFollow' /\ RefusedOnlyIfMoved'
  BY DEF LabInv, CommandsFollow, RefusedOnlyIfMoved, MasterAddr
<1>3. ViewsPicture'
  BY DEF LabInv, ViewsPicture, Gathering
<1> QED
  BY <1>1, <1>2, <1>3 DEF LabInv

\* Every step of a pod or of a failover before the reconfiguration leaves the node
\* Sentinel names a master.
LEMMA StaysMaster ==
    ASSUME LabInv, NEW n \in Nodes, PodDies(n) \/ PodReturns(n) \/ Promote(n) \/ Demote(n)
    PROVE  LabInv'
<1>1. /\ role \in [Nodes -> {"master", "replica"}] /\ up \in SUBSET Nodes
      /\ record \in Nodes /\ promoted \in Nodes \cup {NoPod} /\ MasterAddr \in Nodes
      /\ role[MasterAddr] = "master" /\ MasterAddr \in {record, promoted}
  BY DEF LabInv, TypeOK, NamedIsMaster, MasterAddr
<1>2. UNCHANGED <<record, promoted, switches, cmdVars, topVars, histVars>>
  BY DEF PodDies, PodReturns, Promote, Demote
<1>3. MasterAddr' = MasterAddr
  BY <1>2 DEF MasterAddr
<1>4. up' \in SUBSET Nodes /\ role' \in [Nodes -> {"master", "replica"}]
  BY <1>1 DEF PodDies, PodReturns, Promote, Demote
<1>5. role'[MasterAddr] = "master"
  BY <1>1 DEF PodDies, PodReturns, Promote, Demote
<1> QED
  BY <1>2, <1>3, <1>4, <1>5, RolesChange DEF NamedIsMaster

\* A step of a failover is noted by the requests that are under way.
LEMMA Noted ==
    ASSUME LabInv, NEW event \in {"promotion", "switch"}, Meets(event), NEW v \in Views
    PROVE  /\ overtaken' \in [Views -> SUBSET {"promotion", "switch"}]
           /\ v \in Gathering => overtaken'[v] = overtaken[v] \cup {event}
           /\ v \notin Gathering => overtaken'[v] = overtaken[v]
BY DEF Meets, LabInv, TypeOK

\* When the address moves, the commands that wait have been overtaken.
LEMMA ReconfigureMoves ==
    ASSUME LabInv, NEW n \in Nodes, Reconfigure(n) PROVE LabInv'
<1>1. /\ n # record /\ role[n] = "master" /\ promoted = NoPod /\ promoted' = n
      /\ moved' = moved \cup Executing /\ Meets("promotion")
      /\ UNCHANGED <<record, role, up, switches, cpc, target, result, vpc, view>>
  BY DEF Reconfigure, cmdVars, topVars
<1>2. n # NoPod /\ MasterAddr' = n
  BY <1>1, SentinelLabAssumption DEF MasterAddr
<1>3. \A v \in Views : /\ v \in Gathering => overtaken'[v] = overtaken[v] \cup {"promotion"}
                       /\ v \notin Gathering => overtaken'[v] = overtaken[v]
  BY <1>1, Noted
<1>4. overtaken' \in [Views -> SUBSET {"promotion", "switch"}]
  BY <1>1 DEF Meets, LabInv, TypeOK
<1>5. TypeOK'
  BY <1>1, <1>4 DEF LabInv, TypeOK, Executing
<1>6. NamedIsMaster' /\ RefusedOnlyIfMoved'
  BY <1>1, <1>2 DEF LabInv, NamedIsMaster, RefusedOnlyIfMoved
<1>7. CommandsFollow'
  BY <1>1 DEF CommandsFollow, Executing
<1>8. Gathering' = Gathering
  BY <1>1 DEF Gathering
<1>9. ViewsPicture'
  <2> SUFFICES ASSUME NEW v \in Views
               PROVE  /\ vpc[v] = "pods" => view[v] = EmptyView
                      /\ v \in Gathering /\ "switch" \notin overtaken'[v] => Pictures(view[v], record)
                      /\ v \in Gathering /\ overtaken'[v] = {} => promoted' = NoPod /\ Names(view[v], record)
                      /\ vpc[v] = "done" /\ "switch" \notin overtaken'[v] =>
                            \E m \in Nodes : /\ Pictures(view[v], m)
                                             /\ overtaken'[v] = {} => Names(view[v], m)
    BY <1>1, <1>8 DEF ViewsPicture
  <2>1. CASE v \in Gathering
    <3>1. vpc[v] \notin {"pods", "done"} /\ overtaken'[v] = overtaken[v] \cup {"promotion"}
      BY <1>3, <2>1 DEF Gathering
    <3> QED
      BY <2>1, <3>1 DEF LabInv, ViewsPicture
  <2>2. CASE v \notin Gathering
    BY <1>3, <2>2 DEF LabInv, ViewsPicture
  <2> QED
    BY <2>1, <2>2
<1> QED
  BY <1>5, <1>6, <1>7, <1>9 DEF LabInv

\* A switch that ends a reconfiguration leaves the address where it was.
LEMMA SwitchMoves ==
    ASSUME LabInv, NEW n \in Nodes, SwitchMaster(n) PROVE LabInv'
<1>1. /\ n # record /\ role[n] = "master" /\ promoted \in {n, NoPod} /\ switches < MaxSwitches
      /\ record' = n /\ promoted' = NoPod /\ switches' = switches + 1
      /\ moved' = IF promoted = NoPod THEN moved \cup Executing ELSE moved
      /\ Meets("switch")
      /\ UNCHANGED <<role, up, cpc, target, result, vpc, view>>
  BY DEF SwitchMaster, cmdVars, topVars
<1>2. n # NoPod /\ MasterAddr' = n /\ (promoted # NoPod => MasterAddr = n)
  BY <1>1, SentinelLabAssumption DEF MasterAddr
<1>3. \A v \in Views : /\ v \in Gathering => overtaken'[v] = overtaken[v] \cup {"switch"}
                       /\ v \notin Gathering => overtaken'[v] = overtaken[v]
  BY <1>1, Noted
<1>4. overtaken' \in [Views -> SUBSET {"promotion", "switch"}] /\ switches' \in 0..MaxSwitches
  BY <1>1, SentinelLabAssumption DEF Meets, LabInv, TypeOK
<1>5. TypeOK'
  BY <1>1, <1>4 DEF LabInv, TypeOK, Executing
<1>6. NamedIsMaster' /\ RefusedOnlyIfMoved'
  BY <1>1, <1>2 DEF LabInv, NamedIsMaster, RefusedOnlyIfMoved
<1>7. CommandsFollow'
  BY <1>1, <1>2 DEF LabInv, CommandsFollow, Executing
<1>8. Gathering' = Gathering
  BY <1>1 DEF Gathering
<1>9. ViewsPicture'
  <2> SUFFICES ASSUME NEW v \in Views
               PROVE  /\ vpc[v] = "pods" => view[v] = EmptyView
                      /\ v \in Gathering => "switch" \in overtaken'[v]
                      /\ vpc[v] = "done" /\ "switch" \notin overtaken'[v] =>
                            \E m \in Nodes : /\ Pictures(view[v], m)
                                             /\ overtaken'[v] = {} => Names(view[v], m)
    BY <1>1, <1>8 DEF ViewsPicture
  <2>1. CASE v \in Gathering
    <3>1. vpc[v] \notin {"pods", "done"} /\ "switch" \in overtaken'[v]
      BY <1>3, <2>1 DEF Gathering
    <3> QED
      BY <2>1, <3>1
  <2>2. CASE v \notin Gathering
    BY <1>3, <2>2 DEF LabInv, ViewsPicture
  <2> QED
    BY <2>1, <2>2
<1> QED
  BY <1>5, <1>6, <1>7, <1>9 DEF LabInv

-----------------------------------------------------------------------------
(* The readers                                                             *)

\* A command is sent to the node Sentinel names, and refused by no master.
LEMMA CommandSteps ==
    ASSUME LabInv, NEW c \in Commands, Resolve(c) \/ ResolveFails(c) \/ Exec(c) \/ ExecFails(c)
    PROVE  LabInv'
<1>1. UNCHANGED <<record, promoted, role, up, switches, vpc, view, moved, overtaken>>
  BY DEF Resolve, ResolveFails, Exec, ExecFails, labVars, topVars, histVars
<1>2. MasterAddr' = MasterAddr /\ MasterAddr \in Nodes
  BY <1>1 DEF MasterAddr, LabInv, TypeOK
<1>3. \/ cpc' = [cpc EXCEPT ![c] = "exec"] /\ target' = [target EXCEPT ![c] = MasterAddr] /\ result' = result
      \/ /\ cpc' = [cpc EXCEPT ![c] = "done"] /\ target' = target
         /\ \E r \in {"OK", "READONLY", "error"} :
               /\ result' = [result EXCEPT ![c] = r]
               /\ r = "READONLY" => cpc[c] = "exec" /\ role[target[c]] # "master"
  BY DEF Resolve, ResolveFails, Exec, ExecFails, Answer
<1>4. TypeOK'
  BY <1>1, <1>2, <1>3 DEF LabInv, TypeOK
<1>5. NamedIsMaster' /\ CommandsFollow'
  BY <1>1, <1>2, <1>3 DEF LabInv, NamedIsMaster, CommandsFollow, TypeOK
<1>6. RefusedOnlyIfMoved'
  BY <1>1, <1>3 DEF LabInv, NamedIsMaster, CommandsFollow, RefusedOnlyIfMoved, TypeOK
<1>7. ViewsPicture'
  BY <1>1 DEF LabInv, ViewsPicture, Gathering
<1> QED
  BY <1>4, <1>5, <1>6, <1>7 DEF LabInv

\* A query that gathers what is on record, or nothing, keeps the picture.
LEMMA GatherKeeps ==
    ASSUME LabInv, NEW v \in Views, NEW at, NEW next, NEW new \in View, Gather(v, at, next, new),
           UNCHANGED overtaken,
           at \in {"master", "replicas", "sentinels", "addr"},
           next \in {"replicas", "sentinels", "addr", "done"},
           new.masterStatus = "unknown" <=> new.master = NoPod,
           Pictures(view[v], record) => Pictures(new, record),
           promoted = NoPod /\ Names(view[v], record) => Names(new, record)
    PROVE  LabInv'
<1>1. /\ UNCHANGED <<record, promoted, role, up, switches, cpc, target, result, moved, overtaken>>
      /\ vpc[v] = at /\ vpc' = [vpc EXCEPT ![v] = next] /\ view' = [view EXCEPT ![v] = new]
  BY DEF Gather, labVars, cmdVars
<1>2. /\ vpc'[v] = next /\ view'[v] = new /\ record \in Nodes
      /\ \A u \in Views \ {v} : vpc'[u] = vpc[u] /\ view'[u] = view[u]
  BY <1>1 DEF LabInv, TypeOK
<1>3. TypeOK'
  BY <1>1 DEF LabInv, TypeOK
<1>4. NamedIsMaster' /\ CommandsFollow' /\ RefusedOnlyIfMoved'
  BY <1>1 DEF LabInv, NamedIsMaster, CommandsFollow, RefusedOnlyIfMoved, MasterAddr
<1>5. v \in Gathering
  BY <1>1 DEF Gathering
<1>6. /\ "switch" \notin overtaken[v] => Pictures(new, record)
      /\ overtaken[v] = {} => promoted = NoPod /\ Names(new, record)
  BY <1>5 DEF LabInv, ViewsPicture
<1>7. \A u \in Views \ {v} : u \in Gathering' <=> u \in Gathering
  BY <1>2 DEF Gathering
<1>8. ViewsPicture'
  BY <1>1, <1>2, <1>6, <1>7 DEF LabInv, ViewsPicture
<1> QED
  BY <1>3, <1>4, <1>8 DEF LabInv

\* A request starts from an empty view, and from whatever stage a failover is at.
LEMMA RequestBegins == ASSUME LabInv, NEW v \in Views, ListPods(v) PROVE LabInv'
<1> DEFINE new == [view[v] EXCEPT !.pods = up]
<1>1. /\ UNCHANGED <<record, promoted, role, up, switches, cpc, target, result, moved>>
      /\ vpc[v] = "pods" /\ overtaken' = [overtaken EXCEPT ![v] = IF promoted = NoPod THEN {} ELSE {"promotion"}]
      /\ \/ vpc' = [vpc EXCEPT ![v] = "master"] /\ view' = [view EXCEPT ![v] = new]
         \/ vpc' = [vpc EXCEPT ![v] = "failed"] /\ view' = [view EXCEPT ![v] = view[v]]
  BY DEF ListPods, Gather, labVars, cmdVars
<1>2. view[v] = EmptyView /\ up \in SUBSET Nodes /\ record \in Nodes
  BY <1>1 DEF LabInv, ViewsPicture, TypeOK
<1>3. new \in View /\ new.masterStatus = "unknown" /\ new.master = NoPod
  BY <1>2 DEF EmptyView, View, Status
<1>4. Pictures(new, record) /\ Names(new, record)
  BY <1>2 DEF EmptyView, Pictures, Names
<1> HIDE DEF new
<1>5. TypeOK'
  <2>1. view' \in [Views -> View] /\ vpc' \in [Views -> {"pods", "master", "replicas", "sentinels", "addr", "done", "failed"}]
    BY <1>1, <1>3 DEF LabInv, TypeOK
  <2>2. overtaken' \in [Views -> SUBSET {"promotion", "switch"}]
    BY <1>1 DEF LabInv, TypeOK
  <2>3. \A u \in Views : view'[u].masterStatus = "unknown" <=> view'[u].master = NoPod
    BY <1>1, <1>3 DEF LabInv, TypeOK
  <2> QED
    BY <1>1, <2>1, <2>2, <2>3 DEF LabInv, TypeOK
<1>6. NamedIsMaster' /\ CommandsFollow' /\ RefusedOnlyIfMoved'
  BY <1>1 DEF LabInv, NamedIsMaster, CommandsFollow, RefusedOnlyIfMoved, MasterAddr
<1>7. /\ \A u \in Views \ {v} : vpc'[u] = vpc[u] /\ view'[u] = view[u] /\ overtaken'[u] = overtaken[u]
      /\ overtaken'[v] = IF promoted = NoPod THEN {} ELSE {"promotion"}
      /\ vpc'[v] = "failed" \/ (vpc'[v] = "master" /\ view'[v] = new)
  BY <1>1 DEF LabInv, TypeOK
<1>8. \A u \in Views \ {v} : u \in Gathering' <=> u \in Gathering
  BY <1>7 DEF Gathering
<1>9. v \in Gathering' => view'[v] = new
  BY <1>7 DEF Gathering
<1>10. ViewsPicture'
  BY <1>1, <1>4, <1>7, <1>8, <1>9 DEF LabInv, ViewsPicture
<1> QED
  BY <1>5, <1>6, <1>10 DEF LabInv

\* Each of the four queries to Sentinel.
LEMMA RequestSteps ==
    ASSUME LabInv, NEW v \in Views,
           QueryMaster(v) \/ QueryReplicas(v) \/ QuerySentinels(v) \/ QueryMasterAddr(v)
    PROVE  LabInv'
<1> DEFINE w == view[v]
<1>1. /\ w \in View /\ record \in Nodes /\ up \in SUBSET Nodes /\ MasterAddr \in Nodes
      /\ w.masterStatus = "unknown" <=> w.master = NoPod
      /\ promoted = NoPod => MasterAddr = record
  BY DEF LabInv, TypeOK, MasterAddr
<1>2. w \in [pods : SUBSET Nodes, master : Nodes \cup {NoPod}, masterStatus : Status,
             replicas : SUBSET Nodes, sentinels : SUBSET Nodes, currentMaster : Nodes \cup {NoPod}]
  BY <1>1 DEF View
<1>3. CASE QueryMaster(v)
  <2>1. ASSUME NEW m \in Nodes \cup {NoPod}, NEW flags, MasterView(v, m, flags), UNCHANGED overtaken,
               m \in {record, NoPod}, flags = {} <=> m = NoPod
        PROVE  LabInv'
    <3> DEFINE x == [w EXCEPT !.master = m, !.masterStatus = flagStatus(flags)]
    <3>1. flagStatus(flags) \in Status /\ (flagStatus(flags) = "unknown" <=> m = NoPod)
      BY <2>1 DEF flagStatus, Status
    <3>2. /\ x \in View /\ x.masterStatus = flagStatus(flags) /\ x.master = m
          /\ Pictures(w, record) => Pictures(x, record)
          /\ Names(w, record) => Names(x, record)
      BY <1>2, <2>1, <3>1 DEF View, Pictures, Names
    <3>3. Gather(v, "master", "replicas", x)
      BY <2>1 DEF MasterView
    <3> QED
      BY <2>1, <3>1, <3>2, <3>3, GatherKeeps
  <2>2. \A flags \in MasterFlags : flags # {}
    BY DEF MasterFlags
  <2>3. record # NoPod
    BY <1>1, SentinelLabAssumption
  <2> QED
    BY <1>1, <1>3, <2>1, <2>2, <2>3 DEF QueryMaster
<1>4. CASE QueryReplicas(v)
  <2> DEFINE x == [w EXCEPT !.replicas = Nodes \ {record}]
  <2>1. /\ x \in View /\ x.masterStatus = w.masterStatus /\ x.master = w.master
        /\ Pictures(w, record) => Pictures(x, record)
        /\ Names(w, record) => Names(x, record)
    BY <1>1, <1>2 DEF View, Pictures, Names
  <2> QED
    BY <1>1, <1>4, <2>1, GatherKeeps DEF QueryReplicas
<1>5. CASE QuerySentinels(v)
  <2>1. ASSUME NEW self \in up
        PROVE  LET x == [w EXCEPT !.sentinels = Nodes \ {self}] IN
               /\ x \in View /\ x.masterStatus = w.masterStatus /\ x.master = w.master
               /\ Pictures(w, record) => Pictures(x, record)
               /\ Names(w, record) => Names(x, record)
    BY <1>1, <1>2 DEF View, Pictures, Names
  <2> QED
    BY <1>1, <1>5, <2>1, GatherKeeps DEF QuerySentinels
<1>6. CASE QueryMasterAddr(v)
  <2> DEFINE x == [w EXCEPT !.currentMaster = MasterAddr]
  <2>1. /\ x \in View /\ x.masterStatus = w.masterStatus /\ x.master = w.master
        /\ Pictures(w, record) => Pictures(x, record)
        /\ promoted = NoPod => Names(x, record)
    BY <1>1, <1>2 DEF View, Pictures, Names
  <2> QED
    BY <1>1, <1>6, <2>1, GatherKeeps DEF QueryMasterAddr
<1> QED
  BY <1>3, <1>4, <1>5, <1>6

-----------------------------------------------------------------------------
(* The theorems                                                            *)

LEMMA LabStep == ASSUME LabInv, [Next]_vars PROVE LabInv'
<1>1. CASE UNCHANGED vars
  <2>1. UNCHANGED <<record, promoted, role, up, switches, cmdVars, topVars, histVars>>
    BY <1>1 DEF vars, labVars
  <2>2. NamedIsMaster'
    BY <2>1 DEF LabInv, NamedIsMaster, MasterAddr
  <2> QED
    BY <2>1, <2>2, RolesChange DEF LabInv, TypeOK
<1> QED
  BY <1>1, StaysMaster, ReconfigureMoves, SwitchMoves, CommandSteps, RequestBegins, RequestSteps DEF Next

LEMMA LabInvariant == Spec => []LabInv
BY InitLab, LabStep, PTL DEF Spec

\* The lab and its readers keep their shape: handleSentinelTopology answers with
\* statuses the page knows and with nodes of the lab, and never says that a master
\* it could not ask is well.
THEOREM TypeCorrect == Spec => []TypeOK
<1>1. LabInv => TypeOK
  BY DEF LabInv
<1> QED
  BY <1>1, LabInvariant, PTL

\* SentinelClient.Cmd resolves the master and execs in two steps: whatever pods and
\* failover do, its redis-cli is refused only where the master moved between the two.
THEOREM RefusalsAreMoves == Spec => []RefusedOnlyIfMoved
<1>1. LabInv => RefusedOnlyIfMoved
  BY DEF LabInv
<1> QED
  BY <1>1, LabInvariant, PTL

\* handleSentinelTopology puts five answers together, any of which may be missing:
\* with no switch between them master and replicas are of one lab, and with no
\* reconfiguration either currentMaster is of the same.
THEOREM ViewIsWhole == Spec => []SettledViewIsWhole
<1>1. ASSUME LabInv, NEW v \in Views, vpc[v] = "done"
      PROVE  LET w == view[v] IN
             /\ "switch" \notin overtaken[v] /\ w.master # NoPod =>
                   w.replicas \in {{}, Nodes \ {w.master}}
             /\ overtaken[v] = {} =>
                   /\ NoPod \in {w.master, w.currentMaster} \/ w.master = w.currentMaster
                   /\ w.replicas = {} \/ w.replicas \cap {w.master, w.currentMaster} = {}
  <2> SUFFICES ASSUME "switch" \notin overtaken[v]
               PROVE  LET w == view[v] IN
                      /\ w.master # NoPod => w.replicas \in {{}, Nodes \ {w.master}}
                      /\ overtaken[v] = {} =>
                            /\ NoPod \in {w.master, w.currentMaster} \/ w.master = w.currentMaster
                            /\ w.replicas = {} \/ w.replicas \cap {w.master, w.currentMaster} = {}
    OBVIOUS
  <2>1. PICK m \in Nodes : Pictures(view[v], m) /\ (overtaken[v] = {} => Names(view[v], m))
    BY <1>1 DEF LabInv, ViewsPicture
  <2> QED
    BY <2>1, SentinelLabAssumption DEF Pictures, Names
<1>2. LabInv => SettledViewIsWhole
  BY <1>1 DEF SettledViewIsWhole
<1> QED
  BY <1>2, LabInvariant, PTL

=============================================================================
