------------------------------ MODULE PodWatch ------------------------------
(***************************************************************************)
(* The pod watcher of one lab (backend/internal/k8s/pods.go, WatchPods),   *)
(* against the API server and the StatefulSet controller it observes, and  *)
(* Kill (backend/internal/fault/kill.go).  What it publishes is recorded   *)
(* per pod; the hub that carries it further is module Broadcaster.         *)
(***************************************************************************)
EXTENDS Naturals, Sequences, SequencesExt

CONSTANTS Pods,      \* names of the lab's StatefulSet pods
          MaxUid,    \* bound: incarnations of one pod
          MaxBreaks, \* bound: watch streams that end
          MaxQueue   \* bound: the cluster pauses with this many events in flight

ASSUME PodWatchAssumption ==
    /\ IsFiniteSet(Pods)
    /\ MaxUid \in Nat \ {0} /\ MaxBreaks \in Nat /\ MaxQueue \in Nat

VARIABLES pod,       \* API server: the current incarnation of each pod
          stream,    \* the open watch: "none", "open" or "ended" by the server
          queue,     \* watch events not yet received
          breaks,    \* streams that ended so far
          pc,        \* where WatchPods is
          cancelled, \* ctx is done
          last,      \* the newest published state of each pod
          reported   \* incarnations a pod_deleted was published for

apiVars   == <<pod, stream, queue, breaks>>
watchVars == <<pc, cancelled, last, reported>>
vars      == <<apiVars, watchVars>>

\* The life of one incarnation, and "none": nothing published of the pod.
Phase == <<"none", "starting", "ready", "terminating", "gone">>
Rank(ph) == CHOOSE i \in DOMAIN Phase : Phase[i] = ph

State == [uid : 0..MaxUid, phase : {Phase[i] : i \in DOMAIN Phase}]

\* A watch event carries the state it reports; an ERROR event carries none.
WatchEvent(t, n) == [type |-> t, name |-> n, st |-> pod'[n]]
ErrorEvent == [type |-> "ERROR"]

\* Pods, stream and watcher have their shape: a stream is open only while the
\* watcher receives from it, so none is leaked when it goes on or stops.
TypeOK ==
    /\ pod \in [Pods -> State]
    /\ stream \in {"none", "open", "ended"}
    /\ breaks \in 0..MaxBreaks
    /\ pc \in {"top", "dial", "sleep", "recv", "stopped"}
    /\ cancelled \in BOOLEAN
    /\ last \in [Pods -> State]
    /\ reported \in SUBSET (Pods \X (1..MaxUid))
    /\ stream # "none" => pc = "recv"
    /\ stream = "none" => queue = <<>>

Init ==
    /\ pod \in [Pods -> {[uid |-> 0, phase |-> "gone"], [uid |-> 1, phase |-> "ready"]}]
    /\ stream = "none" /\ queue = <<>> /\ breaks = 0
    /\ pc = "top" /\ cancelled = FALSE
    /\ last = [n \in Pods |-> [uid |-> 0, phase |-> "none"]]
    /\ reported = {}

-----------------------------------------------------------------------------
(* The API server, the StatefulSet controller and the kubelet              *)

Exists(n) == pod[n].phase # "gone"

\* The pod changes and an open stream is told.
Becomes(n, st, t) ==
    /\ Len(queue) < MaxQueue
    /\ pod' = [pod EXCEPT ![n] = st]
    /\ queue' = IF stream = "open" THEN Append(queue, WatchEvent(t, n)) ELSE queue
    /\ UNCHANGED <<stream, breaks, watchVars>>

Recreate(n) ==
    /\ ~Exists(n) /\ pod[n].uid < MaxUid
    /\ Becomes(n, [uid |-> pod[n].uid + 1, phase |-> "starting"], "ADDED")

BecomeReady(n) ==
    /\ pod[n].phase = "starting"
    /\ Becomes(n, [pod[n] EXCEPT !.phase = "ready"], "MODIFIED")

\* Delete with default options: the pod terminates gracefully first.
Kill(n) ==
    /\ pod[n].phase \in {"starting", "ready"}
    /\ Becomes(n, [pod[n] EXCEPT !.phase = "terminating"], "MODIFIED")

Removed(n) ==
    /\ pod[n].phase = "terminating"
    /\ Becomes(n, [pod[n] EXCEPT !.phase = "gone"], "DELETED")

\* The server's watch timeout, a broken connection (what was in flight is cut
\* off somewhere) or an ERROR status such as 410 Gone.
EndStream ==
    /\ stream = "open" /\ breaks < MaxBreaks
    /\ stream' = "ended"
    /\ breaks' = breaks + 1
    /\ \/ \E k \in 0..Len(queue) : queue' = SubSeq(queue, 1, k)
       \/ queue' = Append(queue, ErrorEvent)
    /\ UNCHANGED <<pod, watchVars>>

-----------------------------------------------------------------------------
(* WatchPods                                                               *)

\* The loop's test of ctx.Err().
CheckCtx ==
    /\ pc = "top"
    /\ pc' = IF cancelled THEN "stopped" ELSE "dial"
    /\ UNCHANGED <<apiVars, cancelled, last, reported>>

\* Mutants of WatchOk: the watch goes on from the last version it saw, without
\* a list; the list is served from a stale cache.
WatchWithoutList ==
    /\ pc = "dial" /\ ~cancelled
    /\ pc' = "recv"
    /\ stream' = "open" /\ queue' = <<>>
    /\ UNCHANGED <<pod, breaks, cancelled, last, reported>>

WatchFromCache ==
    /\ pc = "dial" /\ ~cancelled
    /\ pc' = "recv"
    /\ stream' = "open"
    /\ queue' \in SetToSeqs({[type |-> "ADDED", name |-> n, st |-> [pod[n] EXCEPT !.phase = "starting"]] :
                                n \in {m \in Pods : Exists(m)}})
    /\ UNCHANGED <<pod, breaks, cancelled, last, reported>>

\* Watch with empty ListOptions: the stream starts with an ADDED event for
\* every pod there is, and tells nothing of the pods that went meanwhile.
WatchOk ==
    /\ pc = "dial" /\ ~cancelled
    /\ pc' = "recv"
    /\ stream' = "open"
    /\ queue' \in SetToSeqs({[type |-> "ADDED", name |-> n, st |-> pod[n]] :
                                n \in {m \in Pods : Exists(m)}})
    /\ UNCHANGED <<pod, breaks, cancelled, last, reported>>

WatchFails ==
    /\ pc = "dial"
    /\ pc' = "sleep"
    /\ UNCHANGED <<apiVars, cancelled, last, reported>>

\* time.After(2 s), after an error only.
WakeUp ==
    /\ pc = "sleep"
    /\ pc' = "top"
    /\ UNCHANGED <<apiVars, cancelled, last, reported>>

\* Mutants of StopOnCancel: the watch is not stopped; the receiving select has
\* no ctx.Done() case.
StopLeaking ==
    /\ pc \in {"sleep", "recv"} /\ cancelled
    /\ pc' = "stopped"
    /\ UNCHANGED <<apiVars, cancelled, last, reported>>

StopOnlyAsleep ==
    /\ pc = "sleep" /\ cancelled
    /\ pc' = "stopped"
    /\ UNCHANGED <<apiVars, cancelled, last, reported>>

\* case <-ctx.Done(), while sleeping or receiving: w.Stop() and return.
StopOnCancel ==
    /\ pc \in {"sleep", "recv"} /\ cancelled
    /\ pc' = "stopped"
    /\ stream' = "none" /\ queue' = <<>>
    /\ UNCHANGED <<pod, breaks, cancelled, last, reported>>

\* Mutants of mapWatchType: MODIFIED and DELETED swapped; DELETED forgotten.
mapWatchTypeSwapped(t) ==
    CASE t = "ADDED" -> "pod_added"
      [] t = "MODIFIED" -> "pod_deleted"
      [] t = "DELETED" -> "pod_modified"

mapWatchTypeNoDelete(t) ==
    CASE t = "ADDED" -> "pod_added"
      [] t = "MODIFIED" -> "pod_modified"
      [] OTHER -> "pod_event"

\* The published event type; the payload is toPodInfo(p).
mapWatchType(t) ==
    CASE t = "ADDED" -> "pod_added"
      [] t = "MODIFIED" -> "pod_modified"
      [] t = "DELETED" -> "pod_deleted"

\* A pod event is published; any other object is skipped.
Recv ==
    /\ pc = "recv" /\ queue # <<>>
    /\ queue' = Tail(queue)
    /\ LET ev == Head(queue) IN
       IF ev.type = "ERROR" THEN UNCHANGED <<last, reported>>
       ELSE /\ last' = [last EXCEPT ![ev.name] = ev.st]
            /\ reported' = IF mapWatchType(ev.type) = "pod_deleted"
                           THEN reported \cup {<<ev.name, ev.st.uid>>} ELSE reported
    /\ UNCHANGED <<pod, stream, breaks, pc, cancelled>>

\* Mutant of RecvClosed: the watcher returns when its stream ends.
RecvClosedReturns ==
    /\ pc = "recv" /\ queue = <<>> /\ stream = "ended"
    /\ pc' = "stopped"
    /\ stream' = "none"
    /\ UNCHANGED <<pod, queue, breaks, cancelled, last, reported>>

\* The result channel is closed: w.Stop() and round the outer loop.
RecvClosed ==
    /\ pc = "recv" /\ queue = <<>> /\ stream = "ended"
    /\ pc' = "top"
    /\ stream' = "none"
    /\ UNCHANGED <<pod, queue, breaks, cancelled, last, reported>>

\* The server shuts down.
Cancel ==
    /\ ~cancelled
    /\ cancelled' = TRUE
    /\ UNCHANGED <<apiVars, pc, last, reported>>

-----------------------------------------------------------------------------

Environment ==
    \/ \E n \in Pods : Recreate(n) \/ BecomeReady(n) \/ Kill(n) \/ Removed(n)
    \/ EndStream \/ Cancel

Watcher == CheckCtx \/ WatchOk \/ WatchFails \/ WakeUp \/ StopOnCancel \/ Recv \/ RecvClosed

Next == Environment \/ Watcher

Spec == Init /\ [][Next]_vars

\* The watcher's goroutine is scheduled, an API server that is asked again and
\* again answers in the end, and the cluster finishes what it has begun.
Fairness ==
    /\ WF_vars(Watcher) /\ SF_vars(WatchOk) /\ SF_vars(StopOnCancel)
    /\ \A n \in Pods : WF_vars(Recreate(n)) /\ WF_vars(Removed(n))

FairSpec == Spec /\ Fairness

-----------------------------------------------------------------------------
(* What is promised                                                        *)

\* Who knows old and is told what stands at the places told of q knows st.
Informs(q, told, old, st) ==
    \/ told = {} /\ old = st
    \/ \E i \in told : q[i].st = st /\ \A j \in told : j <= i

\* The events of q that tell of n.
Told(q, n) == {i \in DOMAIN q : q[i].type # "ERROR" /\ q[i].name = n}

\* While a stream is open the published events, with those on their way, tell
\* the current incarnation and phase of every pod there is, whatever was missed
\* while no stream was open.
CurrentWhileConnected ==
    stream = "open" => \A n \in Pods : Exists(n) => Informs(queue, Told(queue, n), last[n], pod[n])

\* b is the same incarnation as a in the same or a later phase, or a later one.
NotOlder(a, b) ==
    a.uid < b.uid \/ (a.uid = b.uid /\ Rank(a.phase) <= Rank(b.phase))

\* Across reconnects and their repeated ADDED events, what is published of a
\* pod never goes back to an older incarnation or an earlier phase of it.
NeverBackwards == [][\A n \in Pods : NotOlder(last[n], last'[n])]_vars

\* A pod that is ready is reported so, or has moved on, or the server stops:
\* a broken stream or a failed Watch delays the news but cannot keep it.
ReadyIsShown ==
    \A n \in Pods, u \in 1..MaxUid :
        pod[n] = [uid |-> u, phase |-> "ready"]
            ~> last[n] = [uid |-> u, phase |-> "ready"] \/ pod[n].phase # "ready" \/ cancelled

\* A pod_deleted that is published is true: that incarnation has gone, it is not
\* on its way out or replayed by a new stream, so a page starts no false timer.
DeletionIsReal ==
    \A n \in Pods, u \in 1..MaxUid :
        <<n, u>> \in reported => pod[n].uid > u \/ pod[n] = [uid |-> u, phase |-> "gone"]

\* kill.go:13: "The pod watcher picks up the deletion and emits a pod_deleted
\* SSE event automatically": it does, unless the stream that is open breaks
\* before it has brought the news, or the server stops.
KillIsReported ==
    \A n \in Pods, u \in 1..MaxUid, b \in 0..MaxBreaks :
        pod[n] = [uid |-> u, phase |-> "terminating"] /\ stream = "open" /\ breaks = b
            ~> <<n, u>> \in reported \/ breaks > b \/ cancelled

\* WatchPods "Returns when ctx is canceled" (pods.go:57), wherever it is.
CancelStops == cancelled ~> pc = "stopped"

=============================================================================
