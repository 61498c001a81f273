--------------------------- MODULE StandaloneLab ---------------------------
(***************************************************************************)
(* The standalone lab as its page shows it: handleStandaloneTopology       *)
(* (backend/internal/api/topology.go) answers the page's refreshes         *)
(* (UseTopology) with two queries, the pods from the Kubernetes API and    *)
(* INFO replication from the master (backend/internal/redis/standalone.go),*)
(* which the backend reaches through a kubectl port-forward that dies with *)
(* the master's pod.                                                       *)
(***************************************************************************)
EXTENDS Naturals

CONSTANTS Master,     \* the pod whose name contains "master"
          Replicas,   \* those whose names contain "replicas"
          NoPod,      \* the empty pod name
          MaxChanges, \* bound: changes of the lab, and INFO failing without one
          Requests, Null

ASSUME StandaloneAssumption == MaxChanges \in Nat

VARIABLES pod,      \* each pod: "absent", "pending" (not Ready) or "ready"
          forward,  \* localhost:6379 leads to the master
          changes,
          listed,   \* per request: Null, or the pods its handler has listed
          settled,  \* history: the lab did not change since the request was sent
          req, data, error, loading, mounted

Hook == INSTANCE UseTopology

labVars  == <<pod, forward, changes>>
hookVars == <<req, data, error, loading, mounted>>
vars     == <<labVars, listed, settled, hookVars>>

Pods == {Master} \cup Replicas

\* ListPods: the pods there are, with their Ready condition.
PodList == UNION {[there -> BOOLEAN] : there \in SUBSET Pods}

ListPods == [n \in {m \in Pods : pod[m] # "absent"} |-> pod[n] = "ready"]

Body == [master : [pod : Pods \cup {NoPod}, status : {"ok", "error"}],
         replicas : UNION {[there -> {"ok", "pending"}] : there \in SUBSET Replicas},
         pods : PodList]

\* Lab, handlers and page have their shape: the port-forward leads to a pod, and
\* an answer lists nobody but a replica as a replica.
TypeOK ==
    /\ pod \in [Pods -> {"absent", "pending", "ready"}]
    /\ forward \in BOOLEAN /\ changes \in 0..MaxChanges
    /\ listed \in [Requests -> PodList \cup {Null}]
    /\ settled \in [Requests -> BOOLEAN]
    /\ Hook!TypeOK(Body)
    /\ forward => pod[Master] # "absent"
    /\ \A r \in Requests : listed[r] # Null => req[r].at = "sent"

Init ==
    /\ pod \in [Pods -> {"absent", "pending", "ready"}]
    /\ forward \in {FALSE, pod[Master] # "absent"}
    /\ changes = 0
    /\ listed = [r \in Requests |-> Null]
    /\ settled = [r \in Requests |-> TRUE]
    /\ Hook!Init

-----------------------------------------------------------------------------
(* The cluster and the shell that runs port-forward.sh                     *)

Changed ==
    /\ changes < MaxChanges
    /\ changes' = changes + 1
    /\ settled' = [r \in Requests |-> FALSE]
    /\ UNCHANGED <<listed, hookVars>>

\* A pod is killed, created again, becomes ready or stops being so.  kubectl
\* port-forward is bound to one pod and ends with it.
PodChanges(n) ==
    /\ Changed
    /\ \E phase \in {"absent", "pending", "ready"} \ {pod[n]} :
          /\ phase = "ready" => pod[n] = "pending"
          /\ pod' = [pod EXCEPT ![n] = phase]
          /\ forward' = (forward /\ (n = Master => phase # "absent"))

\* Somebody runs port-forward.sh again, or ends it.
ForwardChanges ==
    /\ Changed
    /\ ~forward => pod[Master] = "ready"
    /\ forward' = ~forward
    /\ UNCHANGED pod

-----------------------------------------------------------------------------
(* handleStandaloneTopology                                                *)

pickStatus(ready) == IF ready THEN "ok" ELSE "pending"

\* Mutants of replicasOf: every pod is taken for a replica; one that is not ready
\* is left out.
replicasAll(pods) == [n \in DOMAIN pods |-> pickStatus(pods[n])]

replicasReady(pods) ==
    [n \in {m \in DOMAIN pods \cap Replicas : pods[m]} |-> pickStatus(pods[n])]

\* The pods whose names contain "replicas".
replicasOf(pods) == [n \in DOMAIN pods \cap Replicas |-> pickStatus(pods[n])]

\* The first pod whose name contains "master".
masterOf(pods) == IF Master \in DOMAIN pods THEN Master ELSE NoPod

\* INFO replication was answered: the nodes are the listed pods, by their names.
WithInfo(pods) ==
    [master |-> [pod |-> masterOf(pods), status |-> "ok"],
     replicas |-> replicasOf(pods),
     pods |-> pods]

\* It was not: an unnamed master in error, no replicas, and the pods.
WithoutInfo(pods) ==
    [master |-> [pod |-> NoPod, status |-> "error"],
     replicas |-> replicasOf([n \in {} |-> FALSE]),
     pods |-> pods]

\* The first query is answered.
List(r) ==
    /\ req[r].at = "sent" /\ listed[r] = Null
    /\ listed' = [listed EXCEPT ![r] = ListPods]
    /\ UNCHANGED <<labVars, settled, hookVars>>

\* The second query ends, one way or the other, and with it the request.
Answer(r, body) ==
    /\ listed[r] # Null
    /\ Hook!Serve(r, body)
    /\ listed' = [listed EXCEPT ![r] = Null]
    /\ UNCHANGED <<pod, forward, settled>>

\* INFO replication: Cmd asks the master, through the port-forward.
Info(r) ==
    /\ forward
    /\ Answer(r, WithInfo(listed[r]))
    /\ UNCHANGED changes

\* The port-forward is gone, the master is not up, or the 2 s of the client are
\* over; the last, for a master that is up, is one of the changes that are counted.
InfoFails(r) ==
    /\ IF forward /\ pod[Master] = "ready"
       THEN changes < MaxChanges /\ changes' = changes + 1
       ELSE UNCHANGED changes
    /\ Answer(r, WithoutInfo(listed[r]))

\* ListPods fails (500), or the request or its answer is lost.
Fail(r) ==
    /\ Hook!Fail(r)
    /\ listed' = [listed EXCEPT ![r] = Null]
    /\ UNCHANGED <<labVars, settled>>

-----------------------------------------------------------------------------

\* The page goes on; a refresh that is sent begins a history of its own.
Page ==
    /\ Hook!Page
    /\ settled' = [r \in Requests |-> settled[r] \/ req[r].at = "idle"]
    /\ UNCHANGED <<labVars, listed>>

Next ==
    \/ ForwardChanges \/ \E n \in Pods : PodChanges(n)
    \/ Page
    \/ \E r \in Requests : List(r) \/ Info(r) \/ InfoFails(r) \/ Fail(r)

Spec == Init /\ [][Next]_vars

Refreshed(r) == Hook!Refresh(r) /\ Page
Applied(r)   == (Hook!Apply(r) \/ Hook!ApplyError(r)) /\ Page

\* The interval keeps ticking, an answer is applied, and a backend asked again
\* and again gets through both queries at times.
Fairness ==
    /\ WF_vars(\E r \in Requests : Refreshed(r))
    /\ \A r \in Requests :
          SF_vars(List(r)) /\ SF_vars(Info(r) \/ InfoFails(r)) /\ WF_vars(Applied(r))

FairSpec == Spec /\ Fairness

-----------------------------------------------------------------------------
(* What is promised                                                        *)

\* An answer that no change overtook, between its two queries included, is the
\* lab: its pods, and, unless the master could not be asked, the master and every
\* replica there is, in the state its pod is in.
SettledViewIsTrue ==
    \A r \in Requests : req[r].at = "served" /\ settled[r] =>
        LET view == req[r].body IN
        /\ \A n \in Pods : pod[n] # "absent" <=> n \in DOMAIN view.pods
        /\ \A n \in DOMAIN view.pods : view.pods[n] <=> pod[n] = "ready"
        /\ view.master.status = "ok" =>
              /\ view.master.pod = Master
              /\ \A n \in Replicas : pod[n] # "absent" =>
                    n \in DOMAIN view.replicas /\ (view.replicas[n] = "ok" <=> pod[n] = "ready")

\* What the page may show of the lab as it is: the master and the replicas if the
\* master can be asked, and only if it cannot, or is not up, the pods alone.
Current ==
    {WithInfo(l) : l \in IF forward THEN {ListPods} ELSE {}}
    \cup {WithoutInfo(l) : l \in IF forward /\ pod[Master] = "ready" THEN {} ELSE {ListPods}}

\* Once the lab stops changing the page ends up showing it, and goes on showing
\* it, whatever answers were late, failed, overtook each other or were put
\* together from two moments.
EventuallyCurrent == <>[](data \in Current \/ ~mounted)

=============================================================================
