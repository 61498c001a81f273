----------------------------- MODULE LabSystem -----------------------------
(***************************************************************************)
(* A lab from its pods to a page that watches it: the pod watcher          *)
(* (PodWatch) and the Sentinel watcher publish to the hub, the hub puts the*)
(* events on the channel of the page's SSE request, and the page's stream  *)
(* (UseSSE) hands them to its handler (FailoverTimer).  Each link loses    *)
(* events and starts over on its own: the watch ends, the channel is full, *)
(* the connection breaks, the server restarts, the page is left.           *)
(*                                                                         *)
(* The hub is what module Broadcaster promises one session: its channel    *)
(* holds, in order, what was published since it registered, less what was  *)
(* dropped while Cap events were waiting.                                  *)
(***************************************************************************)
EXTENDS Naturals, Sequences, FiniteSets

CONSTANTS Pods, MaxUid, MaxBreaks, MaxQueue, MaxBackoff,
          Cap,         \* events that wait for the page; 16 in its channel
          MaxSwitches  \* bound: switches of the master

ASSUME LabAssumption ==
    /\ IsFiniteSet(Pods) /\ MaxUid \in Nat \ {0}
    /\ MaxBreaks \in Nat /\ MaxQueue \in Nat /\ MaxSwitches \in Nat
    /\ MaxBackoff \in Nat \ {0} /\ Cap \in Nat \ {0}

VARIABLES pod, stream, queue, breaks, pc, cancelled, last, reported,
          serverUp, broken, es, live, timer, backoff, stopped,
          failover, clears,
          member,   \* the request of the current EventSource is registered
          buf,      \* the events on its channel, and under way to the page
          switched, \* events the Sentinel watcher has published
          shown,    \* the newest state of each pod the page was told
          whole     \* history: since the watch opened the page missed nothing

Watch  == INSTANCE PodWatch
Stream == INSTANCE UseSSE
Timer  == INSTANCE FailoverTimer

watchVars == <<pod, stream, queue, breaks, pc, cancelled, last, reported>>
pageVars  == <<serverUp, broken, es, live, timer, backoff, stopped>>
hubVars   == <<member, buf, whole>>
timerVars == <<failover, clears>>
vars      == <<watchVars, pageVars, hubVars, timerVars, switched, shown>>

SwitchEvents == <<"sentinel_event", "role_changed">>

Event ==
    [type : {"pod_added", "pod_modified", "pod_deleted"}, name : Pods, st : Watch!State]
    \cup [type : {SwitchEvents[1], SwitchEvents[2]}]

\* Watcher, hub and page have their shape: at most Cap events wait, and only for
\* a registered request; the delay of a retry stays within its bounds.
TypeOK ==
    /\ Watch!TypeOK /\ Stream!TypeOK /\ Timer!Shape
    /\ member \in BOOLEAN /\ whole \in BOOLEAN
    /\ buf \in Seq(Event) /\ Len(buf) <= Cap
    /\ switched \in 0..(2 * MaxSwitches)
    /\ shown \in [Pods -> Watch!State]
    /\ ~member => buf = <<>> /\ ~whole
    /\ es = "open" => member \/ broken

Untold == [n \in Pods |-> [uid |-> 0, phase |-> "none"]]

Init ==
    /\ Watch!Init /\ Stream!Init /\ Timer!Init
    /\ member = FALSE /\ buf = <<>> /\ whole = FALSE
    /\ switched = 0
    /\ shown = Untold

-----------------------------------------------------------------------------
(* The backend                                                             *)

\* Mutant of Publish: the send is handed to a goroutine, which may be overtaken.
PublishAsync(e) ==
    IF member /\ Len(buf) < Cap
    THEN buf' \in {Append(buf, e), <<e>> \o buf} /\ UNCHANGED <<member, whole>>
    ELSE whole' = FALSE /\ UNCHANGED <<member, buf>>

\* Publish: the event goes on the channel, if there is one and it has room.
Publish(e) ==
    IF member /\ Len(buf) < Cap
    THEN buf' = Append(buf, e) /\ UNCHANGED <<member, whole>>
    ELSE whole' = FALSE /\ UNCHANGED <<member, buf>>

\* WatchPods receives and publishes.
PodEvent ==
    /\ Watch!Recv
    /\ LET e == Head(queue) IN
       IF e.type = "ERROR" THEN UNCHANGED hubVars
       ELSE Publish([e EXCEPT !.type = Watch!mapWatchType(e.type)])
    /\ UNCHANGED <<pageVars, timerVars, switched, shown>>

\* A new watch tells a registered request every pod there is.
Rewatch ==
    /\ Watch!WatchOk
    /\ whole' = member
    /\ UNCHANGED <<member, buf, pageVars, timerVars, switched, shown>>

\* The rest of WatchPods, and the cluster it watches.
Elsewhere ==
    /\ \/ \E n \in Pods : Watch!Recreate(n) \/ Watch!BecomeReady(n) \/ Watch!Kill(n) \/ Watch!Removed(n)
       \/ Watch!EndStream \/ Watch!CheckCtx \/ Watch!WatchFails \/ Watch!WakeUp \/ Watch!RecvClosed
    /\ UNCHANGED <<pageVars, hubVars, timerVars, switched, shown>>

\* WatchSentinelEvents publishes the two events of a switch, one after the other.
Switch ==
    /\ switched < 2 * MaxSwitches
    /\ switched' = switched + 1
    /\ Publish([type |-> SwitchEvents[1 + (switched % 2)]])
    /\ UNCHANGED <<watchVars, pageVars, timerVars, shown>>

\* The channel of the request is gone, with what was on it or under way.
Unregistered == member' = FALSE /\ buf' = <<>> /\ whole' = FALSE

\* Every connection to the server breaks; or the server can be reached again.
Flip ==
    /\ Stream!ServerFlips
    /\ Unregistered
    /\ UNCHANGED <<watchVars, timerVars, switched, shown>>

\* The server process dies and is started again: its watcher begins anew.
Crash ==
    /\ serverUp /\ Stream!ServerFlips
    /\ Unregistered
    /\ pc' = "top" /\ stream' = "none" /\ queue' = <<>>
    /\ UNCHANGED <<pod, breaks, cancelled, last, reported, timerVars, switched, shown>>

\* handleSSE subscribes, before it answers anything.
Subscribe ==
    /\ es = "connecting" /\ ~broken /\ ~member
    /\ member' = TRUE
    /\ UNCHANGED <<buf, whole, watchVars, pageVars, timerVars, switched, shown>>

-----------------------------------------------------------------------------
(* The page                                                                *)

Answered ==
    /\ (member /\ Stream!OnOpen) \/ Stream!OnError
    /\ UNCHANGED <<watchVars, hubVars, timerVars, switched, shown>>

Connect ==
    /\ Stream!Connect
    /\ UNCHANGED <<watchVars, hubVars, timerVars, switched, shown>>

\* Mutant of types: a listener is missing.
typesUnmodified == {"hello", "pod_added", "pod_deleted", "role_changed",
                    "sentinel_event", "cluster_event", "pod_event"}

\* The event types connect() registers a listener for; others reach nobody.
types == {"hello", "pod_added", "pod_modified", "pod_deleted", "role_changed",
          "sentinel_event", "cluster_event", "pod_event"}

\* A listener calls LabLayout's handler with the next event.
Deliver ==
    /\ es = "open" /\ buf # <<>>
    /\ buf' = Tail(buf)
    /\ LET e == Head(buf) IN
       CASE e.type \notin types -> UNCHANGED <<timerVars, shown>>
         [] e.type \in {"role_changed", "sentinel_event"} ->
                Timer!OnSwitch(e.type) /\ UNCHANGED shown
         [] OTHER ->
                /\ shown' = [shown EXCEPT ![e.name] = e.st]
                /\ IF e.type = "pod_deleted" THEN Timer!OnPodDeleted ELSE UNCHANGED timerVars
    /\ UNCHANGED <<watchVars, pageVars, member, whole, switched>>

\* The page is left, its state goes: the connection closes, and handleSSE
\* unsubscribes.
LeavePage ==
    /\ Stream!Cleanup /\ Timer!Leave
    /\ shown' = Untold
    /\ Unregistered
    /\ UNCHANGED <<watchVars, switched>>

Clear ==
    /\ Timer!Clear
    /\ UNCHANGED <<watchVars, pageVars, hubVars, switched, shown>>

-----------------------------------------------------------------------------

\* The next step of the page's stream, of which there is never more than one.
Streams == Subscribe \/ Answered \/ Connect \/ Deliver

Next ==
    \/ PodEvent \/ Rewatch \/ Elsewhere \/ Switch \/ Flip \/ Crash
    \/ Streams \/ LeavePage \/ Clear

Spec == Init /\ [][Next]_vars

\* The browser dials, delivers what arrives and runs its timeouts, and a server
\* that is up answers.  Nothing makes it stay up, or the watchers have news.
FairSpec ==
    /\ Spec
    /\ WF_vars(Streams) /\ WF_vars(Clear)

-----------------------------------------------------------------------------
(* What is promised                                                        *)

\* A page never holds two streams, and none and no timer once it is left.
AtMostOneStream == Stream!AtMostOneStream

\* A page that is not left gets its stream back when the server stays up.
Reopens == Stream!Reopens

\* A completed failover disappears or gives way to a newer one, whatever the
\* watchers, the hub and the connection lose.
DoneIsCleared == Timer!DoneIsCleared

\* Across watches that start over, events dropped, connections replaced and a
\* server restarted, the page is never told an older incarnation of a pod, or an
\* earlier phase of one, than it was told before, until it is left.
NewsNeverGoesBack ==
    [][\A n \in Pods : stopped' \/ Watch!NotOlder(shown[n], shown'[n])]_vars

\* The news of n under way: on the channel, then on the watch.
Coming(n) ==
    {i \in DOMAIN (buf \o queue) :
        LET e == (buf \o queue)[i] IN
        e.type \notin {"ERROR", SwitchEvents[1], SwitchEvents[2]} /\ e.name = n}

\* A page that was registered when the watch opened, and lost nothing since, has
\* been told or is about to be told the present state of every pod there is.
WholeStreamIsCurrent ==
    whole /\ stream = "open" => \A n \in Pods : Watch!Exists(n) =>
        Watch!Informs(buf \o queue, Coming(n), shown[n], pod[n])

=============================================================================
