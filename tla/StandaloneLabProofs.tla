------------------------ MODULE StandaloneLabProofs ------------------------
(***************************************************************************)
(* For any replicas, requests in flight and changes of the lab: an answer  *)
(* that nothing overtook is the lab.                                       *)
(***************************************************************************)
EXTENDS StandaloneLab, TLAPS

\* A handler that no change has overtaken holds the pods there are.
ListedIsCurrent ==
    \A r \in Requests : settled[r] /\ listed[r] # Null => listed[r] = ListPods

LabInv == TypeOK /\ ListedIsCurrent /\ SettledViewIsTrue

\* A request as the page keeps it.
Request == [at : {"idle", "sent", "failed"}, body : {Null}] \cup [at : {"served"}, body : Body]

-----------------------------------------------------------------------------
(* The two queries and their answers                                       *)

\* What ListPods answers is a list of pods.
LEMMA ListIsPodList == ListPods \in PodList
<1> DEFINE there == {m \in Pods : pod[m] # "absent"}
<1>1. there \in SUBSET Pods /\ ListPods \in [there -> BOOLEAN]
  BY DEF ListPods
<1> QED
  BY <1>1 DEF PodList

\* An answer built from a list of pods is a body the page knows.
LEMMA AnswersAreBodies ==
    ASSUME NEW l \in PodList
    PROVE  WithInfo(l) \in Body /\ WithoutInfo(l) \in Body
<1>1. PICK there \in SUBSET Pods : l \in [there -> BOOLEAN]
  BY DEF PodList
<1>2. masterOf(l) \in Pods \cup {NoPod}
  BY DEF masterOf, Pods
<1>3. replicasOf(l) \in [DOMAIN l \cap Replicas -> {"ok", "pending"}]
  BY DEF replicasOf, pickStatus
<1>4. DOMAIN l \cap Replicas \in SUBSET Replicas
  OBVIOUS
<1>5. replicasOf(l) \in UNION {[s -> {"ok", "pending"}] : s \in SUBSET Replicas}
  BY <1>3, <1>4
<1>6. replicasOf([n \in {} |-> FALSE]) \in [{} -> {"ok", "pending"}]
  BY DEF replicasOf, pickStatus
<1>7. replicasOf([n \in {} |-> FALSE]) \in UNION {[s -> {"ok", "pending"}] : s \in SUBSET Replicas}
  BY <1>6
<1> HIDE DEF PodList
<1>8. WithInfo(l) \in Body
  BY <1>2, <1>5 DEF WithInfo, Body
<1>9. WithoutInfo(l) \in Body
  BY <1>7 DEF WithoutInfo, Body
<1> QED
  BY <1>8, <1>9

\* The pods as the lab has them, and, if the master was asked, its nodes.
Shows(view) ==
    /\ \A n \in Pods : pod[n] # "absent" <=> n \in DOMAIN view.pods
    /\ \A n \in DOMAIN view.pods : view.pods[n] <=> pod[n] = "ready"
    /\ view.master.status = "ok" =>
          /\ view.master.pod = Master
          /\ \A n \in Replicas : pod[n] # "absent" =>
                n \in DOMAIN view.replicas /\ (view.replicas[n] = "ok" <=> pod[n] = "ready")

\* An answer built from the pods there are shows the lab; the master's INFO comes
\* through the port-forward, which only a pod that is there keeps open.
LEMMA AnswersShow ==
    ASSUME TypeOK
    PROVE  (forward => Shows(WithInfo(ListPods))) /\ Shows(WithoutInfo(ListPods))
<1>1. DOMAIN ListPods = {m \in Pods : pod[m] # "absent"} /\ Master \in Pods /\ Replicas \subseteq Pods
      /\ \A n \in DOMAIN ListPods : ListPods[n] <=> pod[n] = "ready"
  BY DEF ListPods, Pods
<1>2. ASSUME forward PROVE Shows(WithInfo(ListPods))
  <2>1. masterOf(ListPods) = Master
    BY <1>1, <1>2 DEF TypeOK, masterOf
  <2>2. \A n \in Replicas : pod[n] # "absent" =>
           /\ n \in DOMAIN replicasOf(ListPods)
           /\ replicasOf(ListPods)[n] = "ok" <=> pod[n] = "ready"
    BY <1>1 DEF replicasOf, pickStatus
  <2> QED
    BY <1>1, <2>1, <2>2 DEF Shows, WithInfo
<1>3. Shows(WithoutInfo(ListPods))
  BY <1>1 DEF Shows, WithoutInfo
<1> QED
  BY <1>2, <1>3

-----------------------------------------------------------------------------
(* The steps                                                               *)

LEMMA InitLab == Init => LabInv
<1> SUFFICES ASSUME Init PROVE LabInv
  OBVIOUS
<1>1. req \in [Requests -> Request] /\ \A r \in Requests : req[r].at \in {"idle", "sent"}
  BY DEF Init, Hook!Init, Hook!Idle, Request
<1>2. Hook!TypeOK(Body)
  BY <1>1 DEF Init, Hook!Init, Hook!TypeOK, Request
<1>3. changes \in 0..MaxChanges
  BY StandaloneAssumption DEF Init
<1>4. listed \in [Requests -> PodList \cup {Null}] /\ settled \in [Requests -> BOOLEAN]
  BY DEF Init
<1>5. forward \in BOOLEAN /\ (forward => pod[Master] # "absent")
  BY DEF Init
<1>6. \A r \in Requests : listed[r] = Null
  BY DEF Init
<1>7. TypeOK
  BY <1>2, <1>3, <1>4, <1>5, <1>6 DEF Init, TypeOK
<1> QED
  BY <1>1, <1>7 DEF LabInv, Init, ListedIsCurrent, SettledViewIsTrue

\* A change of the lab overtakes every request under way.
LEMMA LabChanges ==
    ASSUME LabInv, Changed, pod' \in [Pods -> {"absent", "pending", "ready"}],
           forward' \in BOOLEAN, forward' => pod'[Master] # "absent"
    PROVE  LabInv'
<1>1. changes' \in 0..MaxChanges
  BY StandaloneAssumption DEF Changed, LabInv, TypeOK
<1>2. TypeOK'
  BY <1>1 DEF LabInv, TypeOK, Changed, hookVars, Hook!TypeOK
<1> QED
  BY <1>2 DEF LabInv, Changed, ListedIsCurrent, SettledViewIsTrue

\* A pod or the port-forward changes: only a pod that is there is forwarded to.
LEMMA ClusterSteps ==
    ASSUME LabInv, ForwardChanges \/ \E n \in Pods : PodChanges(n)
    PROVE  LabInv'
<1>1. TypeOK /\ Master \in Pods
  BY DEF LabInv, Pods
<1>2. CASE ForwardChanges
  <2>1. pod' = pod /\ forward' = ~forward /\ (~forward => pod[Master] = "ready")
    BY <1>2 DEF ForwardChanges
  <2> QED
    BY <1>1, <1>2, <2>1, LabChanges DEF ForwardChanges, TypeOK
<1>3. ASSUME NEW n \in Pods, PodChanges(n) PROVE LabInv'
  <2>1. PICK phase \in {"absent", "pending", "ready"} :
           /\ pod' = [pod EXCEPT ![n] = phase]
           /\ forward' = (forward /\ (n = Master => phase # "absent"))
    BY <1>3 DEF PodChanges
  <2>2. pod' \in [Pods -> {"absent", "pending", "ready"}] /\ forward' \in BOOLEAN
    BY <1>1, <2>1 DEF TypeOK
  <2>3. forward' => pod'[Master] # "absent"
    BY <1>1, <2>1 DEF TypeOK
  <2> QED
    BY <1>3, <2>2, <2>3, LabChanges DEF PodChanges
<1> QED
  BY <1>2, <1>3

\* ListPods answers with the pods there are.
LEMMA ListStep ==
    ASSUME LabInv, NEW r \in Requests, List(r)
    PROVE  LabInv'
<1>1. /\ UNCHANGED <<labVars, settled, hookVars>>
      /\ listed' = [listed EXCEPT ![r] = ListPods] /\ req[r].at = "sent"
  BY DEF List
<1>2. ListPods' = ListPods
  BY <1>1 DEF ListPods, labVars
<1>3. TypeOK'
  BY <1>1, ListIsPodList DEF LabInv, TypeOK, labVars, hookVars, Hook!TypeOK
<1>4. ListedIsCurrent'
  BY <1>1, <1>2 DEF LabInv, TypeOK, ListedIsCurrent
<1>5. SettledViewIsTrue'
  BY <1>1 DEF LabInv, SettledViewIsTrue, labVars, hookVars
<1> QED
  BY <1>3, <1>4, <1>5 DEF LabInv

\* An answer that shows the lab, if its list does, may be sent.
LEMMA AnswerStep ==
    ASSUME LabInv, NEW r \in Requests, NEW body \in Body, Answer(r, body),
           changes' \in 0..MaxChanges,
           listed[r] = ListPods => Shows(body)
    PROVE  LabInv'
<1>1. /\ UNCHANGED <<pod, forward, settled, data, error, loading, mounted>>
      /\ listed[r] # Null /\ listed' = [listed EXCEPT ![r] = Null]
      /\ req' = [req EXCEPT ![r] = [at |-> "served", body |-> body]]
  BY DEF Answer, Hook!Serve
<1>2. TypeOK /\ req \in [Requests -> Request]
  BY DEF LabInv, TypeOK, Hook!TypeOK, Request
<1>3. [at |-> "served", body |-> body] \in Request
  BY DEF Request
<1>4. req' \in [Requests -> Request]
  BY <1>1, <1>2, <1>3
<1>5. Hook!TypeOK(Body)'
  BY <1>1, <1>2, <1>4 DEF TypeOK, Hook!TypeOK, Request
<1>6. TypeOK'
  BY <1>1, <1>2, <1>5 DEF TypeOK
<1>7. ListPods' = ListPods
  BY <1>1 DEF ListPods
<1>8. ListedIsCurrent'
  BY <1>1, <1>2, <1>7 DEF LabInv, TypeOK, ListedIsCurrent
<1>9. SettledViewIsTrue'
  <2> SUFFICES ASSUME NEW q \in Requests, req'[q].at = "served", settled'[q]
               PROVE  Shows(req'[q].body)
    BY <1>1 DEF SettledViewIsTrue, Shows
  <2>1. CASE q = r
    <3>1. Shows(body)
      BY <1>1, <2>1 DEF LabInv, ListedIsCurrent
    <3>2. req'[q].body = body
      BY <1>1, <1>2, <2>1
    <3> QED
      BY <3>1, <3>2
  <2>2. CASE q # r
    <3>1. req'[q] = req[q] /\ settled[q]
      BY <1>1, <1>2, <2>2
    <3> QED
      BY <3>1 DEF LabInv, SettledViewIsTrue, Shows
  <2> QED
    BY <2>1, <2>2
<1> QED
  BY <1>6, <1>8, <1>9 DEF LabInv

\* The second query is answered, or fails.
LEMMA InfoSteps ==
    ASSUME LabInv, NEW r \in Requests, Info(r) \/ InfoFails(r)
    PROVE  LabInv'
<1>1. TypeOK /\ listed[r] \in PodList
  BY DEF LabInv, TypeOK, Info, InfoFails, Answer
<1>2. changes' \in 0..MaxChanges
  BY <1>1, StandaloneAssumption DEF TypeOK, Info, InfoFails
<1>3. WithInfo(listed[r]) \in Body /\ WithoutInfo(listed[r]) \in Body
  BY <1>1, AnswersAreBodies
<1>4. CASE Info(r)
  BY <1>1, <1>2, <1>3, <1>4, AnswersShow, AnswerStep DEF Info
<1>5. CASE InfoFails(r)
  BY <1>1, <1>2, <1>3, <1>5, AnswersShow, AnswerStep DEF InfoFails
<1> QED
  BY <1>4, <1>5

\* A step that puts answers aside, and sends none, keeps what the others show;
\* a refresh that it sends has not been overtaken.
LEMMA RequestsGo ==
    ASSUME LabInv, UNCHANGED <<pod, forward, changes>>, Hook!TypeOK(Body)',
           listed' \in [Requests -> PodList \cup {Null}],
           settled' \in [Requests -> BOOLEAN],
           \A r \in Requests :
              /\ req'[r].at = "served" => req'[r] = req[r]
              /\ settled'[r] => settled[r] \/ req[r].at = "idle"
              /\ listed'[r] # Null => listed'[r] = listed[r] /\ req'[r].at = "sent"
    PROVE  LabInv'
<1>1. TypeOK'
  BY DEF LabInv, TypeOK
<1>2. ListPods' = ListPods
  BY DEF ListPods
<1>3. ListedIsCurrent'
  BY <1>2 DEF LabInv, TypeOK, ListedIsCurrent
<1>4. SettledViewIsTrue'
  BY DEF LabInv, SettledViewIsTrue
<1> QED
  BY <1>1, <1>3, <1>4 DEF LabInv

LEMMA FailStep ==
    ASSUME LabInv, NEW r \in Requests, Fail(r)
    PROVE  LabInv'
<1>1. /\ UNCHANGED <<labVars, settled, data, error, loading, mounted>>
      /\ listed' = [listed EXCEPT ![r] = Null]
      /\ req' = [req EXCEPT ![r].at = "failed"] /\ req[r].at = "sent"
  BY DEF Fail, Hook!Fail
<1>2. TypeOK /\ req \in [Requests -> Request]
  BY DEF LabInv, TypeOK, Hook!TypeOK, Request
<1>3. [req[r] EXCEPT !.at = "failed"] \in Request
  BY <1>1, <1>2 DEF Request
<1>4. req' \in [Requests -> Request]
  BY <1>1, <1>2, <1>3
<1>5. Hook!TypeOK(Body)'
  BY <1>1, <1>2, <1>4 DEF TypeOK, Hook!TypeOK, Request
<1>6. req'[r].at = "failed" /\ \A q \in Requests \ {r} : req'[q] = req[q]
  BY <1>1, <1>2 DEF Request
<1>7. listed' \in [Requests -> PodList \cup {Null}]
  BY <1>1, <1>2 DEF TypeOK
<1>8. \A q \in Requests :
         /\ req'[q].at = "served" => req'[q] = req[q]
         /\ listed'[q] # Null => listed'[q] = listed[q] /\ req'[q].at = "sent"
  BY <1>1, <1>2, <1>6 DEF TypeOK
<1> QED
  BY <1>1, <1>2, <1>5, <1>7, <1>8, RequestsGo DEF TypeOK, labVars

LEMMA PageStep ==
    ASSUME LabInv, Page
    PROVE  LabInv'
<1>1. TypeOK /\ req \in [Requests -> Request]
  BY DEF LabInv, TypeOK, Hook!TypeOK, Request
<1>2. /\ UNCHANGED <<pod, forward, changes, listed>>
      /\ settled' = [r \in Requests |-> settled[r] \/ req[r].at = "idle"]
  BY DEF Page, labVars
<1>3. settled' \in [Requests -> BOOLEAN] /\ listed' \in [Requests -> PodList \cup {Null}]
  BY <1>1, <1>2 DEF TypeOK
<1>4. SUFFICES /\ Hook!TypeOK(Body)'
               /\ \A r \in Requests :
                     /\ req'[r].at = "served" => req'[r] = req[r]
                     /\ req[r].at = "sent" => req'[r].at = "sent"
  BY <1>1, <1>2, <1>3, RequestsGo DEF TypeOK
<1>5. Hook!Idle \in Request
  BY DEF Request, Hook!Idle
<1>6. CASE Hook!Unmount
  BY <1>1, <1>6 DEF Hook!Unmount, TypeOK, Hook!TypeOK
<1>7. ASSUME NEW r \in Requests, Hook!Refresh(r)
      PROVE  <1>4!1
  <2>1. /\ UNCHANGED <<data, error, loading, mounted>>
        /\ req[r] = Hook!Idle /\ req' = [req EXCEPT ![r].at = "sent"]
    BY <1>7 DEF Hook!Refresh
  <2>2. [req[r] EXCEPT !.at = "sent"] = [at |-> "sent", body |-> Null]
    BY <2>1 DEF Hook!Idle
  <2>3. req' = [req EXCEPT ![r] = [at |-> "sent", body |-> Null]]
    BY <1>1, <2>1, <2>2
  <2>4. [at |-> "sent", body |-> Null] \in Request
    BY DEF Request
  <2>5. req' \in [Requests -> Request]
    BY <1>1, <2>3, <2>4
  <2> QED
    BY <1>1, <2>1, <2>3, <2>5 DEF TypeOK, Hook!TypeOK, Request
<1>8. ASSUME NEW r \in Requests, Hook!Apply(r) \/ Hook!ApplyError(r)
      PROVE  <1>4!1
  <2>1. /\ req' = [req EXCEPT ![r] = Hook!Idle] /\ req[r].at \in {"served", "failed"}
        /\ mounted' = mounted
        /\ data' \in {data, req[r].body} /\ (data' # data => req[r].at = "served")
        /\ error' \in {error, TRUE, FALSE} /\ loading' \in {loading, FALSE}
        /\ (loading' = loading => data' = data /\ error' = error) \/ loading' = FALSE
    BY <1>8 DEF Hook!Apply, Hook!ApplyError
  <2>2. req' \in [Requests -> Request]
    BY <1>1, <1>5, <2>1
  <2>3. req[r].at = "served" => req[r].body \in Body
    BY <1>1 DEF Request
  <2>4. data' \in Body \cup {Null} /\ error' \in BOOLEAN /\ loading' \in BOOLEAN
    BY <1>1, <2>1, <2>3 DEF TypeOK, Hook!TypeOK
  <2>5. loading' => data' = Null /\ ~error'
    BY <1>1, <2>1 DEF TypeOK, Hook!TypeOK
  <2>6. Hook!TypeOK(Body)'
    BY <1>1, <2>1, <2>2, <2>4, <2>5 DEF TypeOK, Hook!TypeOK, Request
  <2>7. req'[r].at = "idle" /\ \A q \in Requests \ {r} : req'[q] = req[q]
    BY <1>1, <2>1 DEF Hook!Idle
  <2> QED
    BY <2>1, <2>6, <2>7
<1> QED
  BY <1>6, <1>7, <1>8 DEF Page, Hook!Page

-----------------------------------------------------------------------------

LEMMA LabInvHolds == Spec => []LabInv
<1>1. LabInv /\ [Next]_vars => LabInv'
  <2> SUFFICES ASSUME LabInv, [Next]_vars PROVE LabInv'
    OBVIOUS
  <2>1. CASE UNCHANGED vars
    <3>1. UNCHANGED <<pod, forward, changes, listed, settled, req, data, error, loading, mounted>>
      BY <2>1 DEF vars, labVars, hookVars
    <3>2. TypeOK' /\ Hook!TypeOK(Body)'
      BY <3>1 DEF LabInv, TypeOK, Hook!TypeOK
    <3> QED
      BY <3>1, <3>2, RequestsGo DEF LabInv, TypeOK
  <2> QED
    BY <2>1, ClusterSteps, ListStep, InfoSteps, FailStep, PageStep DEF Next
<1> QED
  BY InitLab, <1>1, PTL DEF Spec

\* handleStandaloneTopology, ListPods and useTopology: lab, handlers and page keep
\* their shape, and a page that still loads shows neither a snapshot nor an error.
THEOREM TypeCorrect == Spec => []TypeOK
BY LabInvHolds, PTL DEF LabInv

\* handleStandaloneTopology: an answer that no change overtook, between its two
\* queries included, is the lab, and names a master only if it was asked.
THEOREM ViewIsTrue == Spec => []SettledViewIsTrue
BY LabInvHolds, PTL DEF LabInv

=============================================================================
