--------------------------- MODULE LabSystemProofs ---------------------------
(***************************************************************************)
(* For any pods, any channel and any longest delay, whatever the watchers, *)
(* the hub, the connection and the server do: a page never holds two       *)
(* streams, and neither stream nor timer once it is left; what it is told  *)
(* of a pod never goes back; and a page for which nothing was lost since   *)
(* the watch opened knows, or is about to know, how every pod is.  The     *)
(* part of the watcher is proved in PodWatchProofs.                        *)
(***************************************************************************)
EXTENDS LabSystem, TLAPS

W == INSTANCE PodWatchProofs

\* One stream, or a timer, or neither; only a stream can break, and none outlives
\* the page.
Slots ==
    /\ es \in {"none", "connecting", "open"}
    /\ broken => es # "none"
    /\ timer => es = "none"
    /\ stopped => es = "none" /\ ~timer

\* The EventSources that are not closed.
Count == live = IF es = "none" THEN 0 ELSE 1

\* The delay of the next retry.
Delay == backoff \in 1..MaxBackoff

StreamInv == Slots /\ Count /\ Delay

\* The page has made its first stream.
LEMMA InitStream == Init => StreamInv
<1> SUFFICES ASSUME Stream!Init PROVE StreamInv
  BY DEF Init
<1>1. Slots
  BY DEF Stream!Init, Slots
<1>2. Count
  BY DEF Stream!Init, Count
<1>3. Delay
  BY LabAssumption DEF Stream!Init, Delay
<1> QED
  BY <1>1, <1>2, <1>3 DEF StreamInv

\* Every step of useSSE keeps the count: close before the timer, the timer before
\* the next EventSource, and no timer behind a page that was left.
LEMMA StreamSteps ==
    ASSUME StreamInv,
           \/ Stream!ServerFlips \/ Stream!OnOpen \/ Stream!OnError
           \/ Stream!Connect \/ Stream!Cleanup
    PROVE  StreamInv'
<1> USE DEF StreamInv
<1>1. CASE Stream!ServerFlips
  <2>1. UNCHANGED <<es, live, timer, backoff, stopped>> /\ (broken' => broken \/ es # "none")
    BY <1>1 DEF Stream!ServerFlips
  <2> QED
    BY <2>1 DEF Slots, Count, Delay
<1>2. CASE Stream!OnOpen
  <2>1. /\ UNCHANGED <<broken, live, timer, stopped>>
        /\ es = "connecting" /\ es' = "open" /\ ~broken /\ backoff' = 1
    BY <1>2 DEF Stream!OnOpen
  <2>2. Delay'
    BY <2>1, LabAssumption DEF Delay
  <2> QED
    BY <2>1, <2>2 DEF Slots, Count
<1>3. CASE Stream!OnError
  <2>1. /\ broken /\ es' = "none" /\ broken' = FALSE /\ live' = live - 1 /\ stopped' = stopped
        /\ backoff' = Stream!Lower(2 * backoff, MaxBackoff)
    BY <1>3 DEF Stream!OnError, Stream!Errs
  <2>2. es # "none" /\ ~stopped
    BY <2>1 DEF Slots
  <2>3. Slots'
    BY <2>1, <2>2 DEF Slots
  <2>4. Count'
    BY <2>1, <2>2 DEF Count
  <2>5. Delay'
    BY <2>1, LabAssumption DEF Delay, Stream!Lower
  <2> QED
    BY <2>3, <2>4, <2>5
<1>4. CASE Stream!Connect
  <2>1. /\ timer /\ timer' = FALSE /\ UNCHANGED <<backoff, stopped>>
        /\ ~stopped => es' = "connecting" /\ live' = live + 1
    BY <1>4 DEF Stream!Connect
  <2>2. es = "none" /\ ~stopped
    BY <2>1 DEF Slots
  <2>3. Slots'
    BY <2>1, <2>2 DEF Slots
  <2>4. Count'
    BY <2>1, <2>2 DEF Count
  <2> QED
    BY <2>1, <2>3, <2>4 DEF Delay
<1>5. CASE Stream!Cleanup
  <2>1. /\ timer' = FALSE /\ es' = "none" /\ broken' = FALSE /\ backoff' = backoff
        /\ live' = IF es = "none" THEN live ELSE live - 1
    BY <1>5 DEF Stream!Cleanup
  <2>2. Slots'
    BY <2>1 DEF Slots
  <2>3. Count'
    BY <2>1 DEF Count
  <2> QED
    BY <2>1, <2>2, <2>3 DEF Delay
<1> QED
  BY <1>1, <1>2, <1>3, <1>4, <1>5

\* What happens elsewhere in the lab does nothing to the stream.
LEMMA StreamQuiet == ASSUME StreamInv, UNCHANGED pageVars PROVE StreamInv'
BY DEF StreamInv, Slots, Count, Delay, pageVars

\* Every step of the lab keeps the count.
LEMMA StreamStep == ASSUME StreamInv, [Next]_vars PROVE StreamInv'
<1>1. CASE PodEvent \/ Rewatch \/ Elsewhere \/ Switch \/ Subscribe \/ Deliver \/ Clear
  BY <1>1, StreamQuiet DEF PodEvent, Rewatch, Elsewhere, Switch, Subscribe, Deliver, Clear
<1>2. CASE Flip \/ Crash \/ Answered \/ Connect \/ LeavePage
  BY <1>2, StreamSteps DEF Flip, Crash, Answered, Connect, LeavePage
<1>3. CASE UNCHANGED vars
  BY <1>3, StreamQuiet DEF vars
<1> QED
  BY <1>1, <1>2, <1>3 DEF Next, Streams

\* useSSE closes an EventSource that errs before it makes another, and leaves
\* neither a stream nor a timer behind a page, however its connections break, the
\* server restarts and the page is left in between.
THEOREM OneStream == Spec => []AtMostOneStream
<1>1. StreamInv => AtMostOneStream
  BY DEF StreamInv, Slots, Count, AtMostOneStream, Stream!AtMostOneStream
<1> QED
  BY <1>1, InitStream, StreamStep, PTL DEF Spec

-----------------------------------------------------------------------------
(* The news on its way to the page                                         *)

\* A connection cannot be made, or kept, while the server is down.
Refused == es # "none" /\ ~serverUp => broken

\* A stream is not open before its request is registered.
Served == es = "open" => member \/ broken

\* The rest of TypeOK.
HubShape ==
    /\ member \in BOOLEAN /\ whole \in BOOLEAN
    /\ buf \in Seq(Event) /\ Len(buf) <= Cap
    /\ shown \in [Pods -> W!State]
    /\ ~member => buf = <<>> /\ ~whole

Rest ==
    /\ serverUp \in BOOLEAN /\ broken \in BOOLEAN
    /\ timer \in BOOLEAN /\ stopped \in BOOLEAN
    /\ failover \in {"none", "running", "done"} /\ clears \in Nat
    /\ switched \in 0..(2 * MaxSwitches)

\* The events on the channel that tell of n.
Waiting(n) == {i \in DOMAIN buf : buf[i].type \notin {SwitchEvents[1], SwitchEvents[2]} /\ buf[i].name = n}

\* What the page was told, what waits for it and what was published stand in order.
PageInOrder(n) == W!InLine(buf, Waiting(n), shown[n], last[n])

\* A page that missed nothing knows, or is about to be told, what was published of
\* each pod since the watch opened.
WholeToPage ==
    whole /\ stream = "open" => \A n \in Pods :
        \/ W!Told(queue, n) # {}
        \/ ~W!Exists(n)
        \/ W!Informs(buf, Waiting(n), shown[n], last[n])

LabInv ==
    /\ StreamInv /\ Refused /\ Served /\ HubShape /\ Rest
    /\ W!WatchInv
    /\ \A n \in Pods : PageInOrder(n)
    /\ WholeToPage

-----------------------------------------------------------------------------
(* The watcher's theorems, for the watcher of the lab                      *)

LEMMA WatchAssumption == W!PodWatchAssumption
BY LabAssumption DEF W!PodWatchAssumption, W!IsFiniteSet, IsFiniteSet

\* PodWatchProofs speaks of the watcher that LabSystem is made of.
LEMMA SameWatch ==
    /\ Watch!Recv = W!Recv /\ Watch!WatchOk = W!WatchOk /\ Watch!EndStream = W!EndStream
    /\ Watch!CheckCtx = W!CheckCtx /\ Watch!WatchFails = W!WatchFails
    /\ Watch!WakeUp = W!WakeUp /\ Watch!RecvClosed = W!RecvClosed
    /\ \A n \in Pods : /\ Watch!Recreate(n) = W!Recreate(n) /\ Watch!BecomeReady(n) = W!BecomeReady(n)
                       /\ Watch!Kill(n) = W!Kill(n) /\ Watch!Removed(n) = W!Removed(n)
<1>1. Watch!Recv = W!Recv
  BY DEF Watch!Recv, W!Recv, Watch!mapWatchType, W!mapWatchType
<1>2. Watch!WatchOk = W!WatchOk
  <2>1. \A S : Watch!Cardinality(S) = W!Cardinality(S)
    BY DEF Watch!Cardinality, W!Cardinality, Watch!IsFiniteSet, W!IsFiniteSet
  <2>2. \A S : Watch!SetToSeqs(S) = W!SetToSeqs(S)
    BY <2>1 DEF Watch!SetToSeqs, W!SetToSeqs
  <2> QED
    BY <2>2 DEF Watch!WatchOk, W!WatchOk, Watch!Exists, W!Exists
<1>3. Watch!EndStream = W!EndStream
  BY DEF Watch!EndStream, W!EndStream, Watch!watchVars, W!watchVars, Watch!ErrorEvent, W!ErrorEvent
<1>4. /\ Watch!CheckCtx = W!CheckCtx /\ Watch!WatchFails = W!WatchFails
      /\ Watch!WakeUp = W!WakeUp
  BY DEF Watch!CheckCtx, W!CheckCtx, Watch!WatchFails, W!WatchFails, Watch!WakeUp, W!WakeUp,
         Watch!apiVars, W!apiVars
<1>5. Watch!RecvClosed = W!RecvClosed
  BY DEF Watch!RecvClosed, W!RecvClosed
<1>6. \A n, st, t : Watch!Becomes(n, st, t) = W!Becomes(n, st, t)
  BY DEF Watch!Becomes, W!Becomes, Watch!watchVars, W!watchVars, Watch!WatchEvent, W!WatchEvent
<1>7. \A n \in Pods : /\ Watch!Recreate(n) = W!Recreate(n) /\ Watch!BecomeReady(n) = W!BecomeReady(n)
                      /\ Watch!Kill(n) = W!Kill(n) /\ Watch!Removed(n) = W!Removed(n)
  BY <1>6 DEF Watch!Recreate, W!Recreate, Watch!BecomeReady, W!BecomeReady, Watch!Kill, W!Kill,
              Watch!Removed, W!Removed, Watch!Exists, W!Exists
<1> QED
  BY <1>1, <1>2, <1>3, <1>4, <1>5, <1>7

\* What the page is promised is stated in the same words.
LEMMA SameWords ==
    /\ Watch!State = W!State
    /\ Watch!TypeOK = W!TypeOK
    /\ \A n : Watch!Exists(n) = W!Exists(n)
    /\ \A a, b : Watch!NotOlder(a, b) = W!NotOlder(a, b)
    /\ \A q, told, old, st : Watch!Informs(q, told, old, st) = W!Informs(q, told, old, st)
<1>1. Watch!State = W!State
  BY DEF Watch!State, W!State, Watch!Phase, W!Phase
<1>2. Watch!TypeOK = W!TypeOK
  BY <1>1 DEF Watch!TypeOK, W!TypeOK
<1>3. \A a, b : Watch!NotOlder(a, b) = W!NotOlder(a, b)
  BY DEF Watch!NotOlder, W!NotOlder, Watch!Rank, W!Rank, Watch!Phase, W!Phase
<1>4. \A q, told, old, st : Watch!Informs(q, told, old, st) = W!Informs(q, told, old, st)
  BY DEF Watch!Informs, W!Informs
<1> QED
  BY <1>1, <1>2, <1>3, <1>4 DEF Watch!Exists, W!Exists

\* Every step of the lab is one of the watcher's, or passes it by; a server that
\* crashes drops its stream.
LEMMA WatchSteps ==
    ASSUME W!WatchInv, [Next]_vars
    PROVE  W!WatchInv' /\ \A n \in Pods : W!NotOlder(last[n], last'[n])
<1>1. CASE Watch!Recv \/ Watch!WatchOk \/ Elsewhere
  <2>1. W!Next
    BY <1>1, SameWatch DEF Elsewhere, W!Next, W!Environment, W!Watcher
  <2> QED
    BY <2>1, WatchAssumption, W!WatchStep
<1>2. CASE UNCHANGED watchVars
  <2>1. UNCHANGED W!vars
    BY <1>2 DEF watchVars, W!vars, W!apiVars, W!watchVars
  <2> QED
    BY <2>1, WatchAssumption, W!WatchStep
<1>3. CASE Crash
  <2>1. W!WatchInv'
    <3>1. /\ UNCHANGED <<pod, breaks, cancelled, last, reported>>
          /\ pc' = "top" /\ stream' = "none" /\ queue' = <<>>
      BY <1>3 DEF Crash
    <3>2. cancelled \in BOOLEAN
      BY DEF W!WatchInv, W!TypeOK
    <3> QED
      BY <3>1, <3>2, WatchAssumption, W!QuietSteps
  <2>2. last' = last /\ \A n \in Pods : last[n] \in W!State
    BY <1>3 DEF Crash, W!WatchInv, W!TypeOK
  <2> QED
    BY <2>1, <2>2, WatchAssumption, W!NotOlderOrder
<1> QED
  BY <1>1, <1>2, <1>3 DEF Next, PodEvent, Rewatch, Switch, Flip, Streams, Subscribe, Answered, Connect,
                          Deliver, LeavePage, Clear, vars, watchVars

-----------------------------------------------------------------------------
(* The channel                                                             *)

Switches == {SwitchEvents[1], SwitchEvents[2]}

\* A switch event is about no pod; any other is about a pod, and in a state of it.
LEMMA EventType ==
    ASSUME NEW e \in Event
    PROVE  /\ e.type # "ERROR"
           /\ e.type \notin Switches => /\ e.type \in {"pod_added", "pod_modified", "pod_deleted"}
                                        /\ e.name \in Pods /\ e.st \in W!State
<1>1. Switches = {"sentinel_event", "role_changed"}
  BY DEF Switches, SwitchEvents
<1>2. CASE e \in [type : {"pod_added", "pod_modified", "pod_deleted"}, name : Pods, st : W!State]
  BY <1>2
<1>3. CASE e \in [type : Switches]
  BY <1>1, <1>3
<1> QED
  BY <1>2, <1>3, SameWords DEF Event, Switches

\* The events that wait are of states.
LEMMA WaitingStates ==
    ASSUME HubShape, W!WatchInv, NEW n \in Pods
    PROVE  /\ Waiting(n) \subseteq DOMAIN buf
           /\ \A i \in Waiting(n) : buf[i].st \in W!State
           /\ shown[n] \in W!State /\ last[n] \in W!State
<1>1. \A i \in Waiting(n) : i \in DOMAIN buf /\ buf[i] \in Event /\ buf[i].type \notin Switches
  BY DEF Waiting, HubShape, Switches
<1>2. \A i \in Waiting(n) : buf[i].st \in W!State
  BY <1>1, EventType
<1> QED
  BY <1>1, <1>2 DEF HubShape, W!WatchInv, W!TypeOK

\* One more event on the channel.
LEMMA WaitingAppend ==
    ASSUME buf \in Seq(Event), NEW e \in Event, buf' = Append(buf, e), NEW n
    PROVE  /\ buf' \in Seq(Event) /\ Len(buf') = Len(buf) + 1
           /\ \A i \in DOMAIN buf : buf'[i] = buf[i]
           /\ Waiting(n)' = IF e.type \notin Switches /\ e.name = n
                            THEN Waiting(n) \cup {Len(buf) + 1} ELSE Waiting(n)
<1>1. /\ DOMAIN buf' = DOMAIN buf \cup {Len(buf) + 1} /\ buf' \in Seq(Event)
      /\ buf'[Len(buf) + 1] = e /\ Len(buf') = Len(buf) + 1 /\ Len(buf) + 1 \notin DOMAIN buf
  OBVIOUS
<1>2. \A i \in DOMAIN buf : buf'[i] = buf[i]
  OBVIOUS
<1>3. Waiting(n)' = {i \in DOMAIN buf' : buf'[i].type \notin Switches /\ buf'[i].name = n}
  BY DEF Waiting, Switches
<1> QED
  BY <1>1, <1>2, <1>3 DEF Waiting, Switches

\* One event fewer on the channel.
LEMMA WaitingTail ==
    ASSUME buf \in Seq(Event), buf # <<>>, buf' = Tail(buf), NEW n
    PROVE  /\ buf' \in Seq(Event) /\ Len(buf') = Len(buf) - 1
           /\ Head(buf) \in Event /\ Head(buf) = buf[1] /\ 1 \in DOMAIN buf
           /\ \A i \in Waiting(n)' : i \in DOMAIN Tail(buf) /\ i + 1 \in Waiting(n)
           /\ \A i \in Waiting(n) : i = 1 \/ i - 1 \in Waiting(n)'
<1>1. /\ buf' \in Seq(Event) /\ Head(buf) \in Event /\ Len(buf') = Len(buf) - 1
      /\ 1 \in DOMAIN buf /\ Head(buf) = buf[1]
  OBVIOUS
<1>2. \A i \in DOMAIN buf' : i \in Nat /\ i + 1 \in DOMAIN buf /\ buf'[i] = buf[i + 1]
  OBVIOUS
<1>3. \A i \in DOMAIN buf : i \in Nat /\ (i = 1 \/ (i - 1 \in DOMAIN buf' /\ buf'[i - 1] = buf[i]))
  OBVIOUS
<1>4. Waiting(n)' = {i \in DOMAIN buf' : buf'[i].type \notin Switches /\ buf'[i].name = n}
  BY DEF Waiting, Switches
<1> QED
  BY <1>1, <1>2, <1>3, <1>4 DEF Waiting, Switches

\* Nothing happens to the channel, the page or the publisher.
LEMMA PageQuiet ==
    ASSUME NEW n \in Pods, PageInOrder(n), UNCHANGED <<buf, shown, last>>
    PROVE  PageInOrder(n)'
BY DEF PageInOrder, Waiting

\* The channel goes with what was on it.
LEMMA ChannelGone ==
    ASSUME LabInv, NEW n \in Pods, Unregistered, last' = last,
           shown' = shown \/ shown' = Untold
    PROVE  PageInOrder(n)'
<1>1. Waiting(n)' = {}
  BY DEF Unregistered, Waiting
<1>2. W!NotOlder(shown'[n], last[n])
  <2>1. last[n] \in W!State
    BY DEF LabInv, W!WatchInv, W!TypeOK
  <2>2. W!NotOlder(Untold[n], last[n])
    BY <2>1, WatchAssumption, W!Oldest DEF Untold
  <2> QED
    BY <2>2 DEF LabInv, PageInOrder, W!InLine
<1> QED
  BY <1>1, <1>2 DEF PageInOrder, W!InLine

\* What is published is at the end of what waits, or is lost to the page.
LEMMA Published ==
    ASSUME LabInv, NEW e \in Event, Publish(e), shown' = shown,
           IF e.type \in Switches THEN last' = last ELSE last' = [last EXCEPT ![e.name] = e.st],
           \A m \in Pods : W!NotOlder(last[m], last'[m]) /\ last'[m] \in W!State
    PROVE  /\ HubShape'
           /\ \A n \in Pods :
                /\ PageInOrder(n)'
                /\ whole' => \/ W!Informs(buf', Waiting(n)', shown[n], last'[n])
                             \/ /\ e.type \in Switches \/ e.name # n
                                /\ ~W!Informs(buf, Waiting(n), shown[n], last[n])
<1> USE DEF LabInv
<1>1. /\ buf \in Seq(Event) /\ shown' = shown /\ member' = member
      /\ \A n \in Pods : last'[n] = IF e.type \notin Switches /\ e.name = n THEN e.st ELSE last[n]
  BY EventType DEF Publish, hubVars, HubShape, W!WatchInv, W!TypeOK
<1>2. CASE ~(member /\ Len(buf) < Cap)
  <2>1. whole' = FALSE /\ buf' = buf
    BY <1>2 DEF Publish
  <2>2. HubShape'
    BY <1>1, <2>1 DEF HubShape
  <2>3. ASSUME NEW n \in Pods PROVE PageInOrder(n)'
    <3>1. Waiting(n)' = Waiting(n)
      BY <2>1 DEF Waiting
    <3> QED
      BY <1>1, <2>1, <3>1, WaitingStates, WatchAssumption, W!LineMoves DEF PageInOrder
  <2> QED
    BY <2>1, <2>2, <2>3
<1>3. CASE member /\ Len(buf) < Cap
  <2>1. buf' = Append(buf, e) /\ whole' = whole
    BY <1>3 DEF Publish
  <2>2. buf' \in Seq(Event) /\ Len(buf') = Len(buf) + 1
    BY <1>1, <2>1, WaitingAppend
  <2>3. HubShape'
    BY <1>1, <1>3, <2>1, <2>2, LabAssumption DEF HubShape
  <2>4. ASSUME NEW n \in Pods, e.type \notin Switches, e.name = n
        PROVE  PageInOrder(n)' /\ W!Informs(buf', Waiting(n)', shown[n], last'[n])
    <3>1. Waiting(n)' = Waiting(n) \cup {Len(buf) + 1}
      BY <1>1, <2>1, <2>4, WaitingAppend
    <3>2. last'[n] = e.st /\ W!NotOlder(last[n], e.st) /\ e.st \in W!State
      BY <1>1, <2>4
    <3>3. W!InLine(buf, Waiting(n), shown[n], last[n])
      BY DEF PageInOrder
    <3>4. /\ W!InLine(Append(buf, e), Waiting(n) \cup {Len(buf) + 1}, shown[n], e.st)
          /\ W!Informs(Append(buf, e), Waiting(n) \cup {Len(buf) + 1}, shown[n], e.st)
      BY <1>1, <3>2, <3>3, WaitingStates, WatchAssumption, W!LineAppend
    <3> QED
      BY <1>1, <2>1, <3>1, <3>2, <3>4 DEF PageInOrder
  <2>5. ASSUME NEW n \in Pods, ~(e.type \notin Switches /\ e.name = n)
        PROVE  /\ PageInOrder(n)' /\ last'[n] = last[n]
               /\ W!Informs(buf, Waiting(n), shown[n], last[n])
                      => W!Informs(buf', Waiting(n)', shown[n], last'[n])
    <3>1. Waiting(n)' = Waiting(n) /\ \A i \in Waiting(n) : buf'[i] = buf[i]
      BY <1>1, <2>1, <2>5, WaitingAppend, WaitingStates
    <3>2. last'[n] = last[n]
      BY <1>1, <2>5
    <3>3. PageInOrder(n)'
      BY <1>1, <3>1, <3>2, WatchAssumption, W!LineKept DEF PageInOrder
    <3> QED
      BY <3>1, <3>2, <3>3 DEF W!Informs
  <2> QED
    BY <2>3, <2>4, <2>5
<1> QED
  BY <1>2, <1>3

-----------------------------------------------------------------------------
(* The steps                                                               *)

PageInv == HubShape /\ (\A n \in Pods : PageInOrder(n)) /\ WholeToPage

\* The watcher publishes what it received.
LEMMA PodEventStep == ASSUME LabInv, PodEvent PROVE PageInv'
<1> DEFINE w == Head(queue)
           e == [w EXCEPT !.type = Watch!mapWatchType(w.type)]
<1>1. /\ queue # <<>> /\ queue' = Tail(queue) /\ UNCHANGED <<pod, stream>> /\ shown' = shown
      /\ w.type = "ERROR" => last' = last /\ UNCHANGED hubVars
      /\ w.type # "ERROR" => last' = [last EXCEPT ![w.name] = w.st] /\ Publish(e)
  BY DEF PodEvent, Watch!Recv
<1>2. queue \in Seq(W!WatchEvents) /\ w \in W!WatchEvents
  BY <1>1, WatchAssumption, W!ToldTail DEF LabInv, W!WatchInv, W!QueueType
<1>3. \A n \in Pods : W!Told(queue, n) # {} =>
          W!Told(queue', n) # {} \/ (w.type # "ERROR" /\ w.name = n)
  BY <1>1, <1>2, WatchAssumption, W!ToldFirst
<1>4. \A n \in Pods : W!NotOlder(last[n], last'[n]) /\ last'[n] \in W!State
  <2>1. W!WatchInv' /\ \A n \in Pods : W!NotOlder(last[n], last'[n])
    BY SameWatch, WatchAssumption, W!Receives DEF LabInv, PodEvent
  <2> QED
    BY <2>1 DEF W!WatchInv, W!TypeOK
<1>5. CASE w.type = "ERROR"
  <2>1. UNCHANGED <<member, buf, whole, shown, last, pod, stream>>
    BY <1>1, <1>5 DEF hubVars
  <2>2. HubShape' /\ \A n \in Pods : PageInOrder(n)'
    BY <2>1, PageQuiet DEF LabInv, HubShape
  <2>3. WholeToPage'
    BY <1>3, <1>5, <2>1 DEF LabInv, WholeToPage, Waiting, W!Exists
  <2> QED
    BY <2>2, <2>3 DEF PageInv
<1>6. CASE w.type # "ERROR"
  <2>1. w.type \in {"ADDED", "MODIFIED", "DELETED"} /\ w.name \in Pods /\ w.st \in W!State
    BY <1>2, <1>6, WatchAssumption, W!EventType
  <2>2. e.type \in {"pod_added", "pod_modified", "pod_deleted"} /\ e.name = w.name /\ e.st = w.st
        /\ e \in Event
    <3>1. w \in [type : {"ADDED", "MODIFIED", "DELETED"}, name : Pods, st : W!State]
      BY <1>2, <1>6 DEF W!WatchEvents, W!ErrorEvent
    <3>2. Watch!mapWatchType(w.type) \in {"pod_added", "pod_modified", "pod_deleted"}
      BY <2>1 DEF Watch!mapWatchType
    <3> QED
      BY <3>1, <3>2, SameWords DEF Event
  <2> HIDE DEF e
  <2>3. e.type \notin Switches
    BY <2>2 DEF Switches, SwitchEvents
  <2>4. /\ HubShape' /\ \A n \in Pods : PageInOrder(n)'
        /\ \A n \in Pods : whole' =>
              \/ W!Informs(buf', Waiting(n)', shown[n], last'[n])
              \/ e.name # n /\ ~W!Informs(buf, Waiting(n), shown[n], last[n])
    BY <1>1, <1>4, <1>6, <2>2, <2>3, Published
  <2>5. whole' => whole
    BY <1>1, <1>6 DEF Publish
  <2>6. WholeToPage'
    <3> SUFFICES ASSUME whole', stream' = "open", NEW n \in Pods, W!Exists(n)'
                 PROVE  W!Told(queue', n) # {} \/ W!Informs(buf', Waiting(n)', shown'[n], last'[n])
      BY DEF WholeToPage
    <3>1. W!Told(queue, n) # {} \/ W!Informs(buf, Waiting(n), shown[n], last[n])
      BY <1>1, <2>5 DEF LabInv, WholeToPage, W!Exists
    <3>2. W!Told(queue', n) # {} \/ w.name = n \/ W!Informs(buf, Waiting(n), shown[n], last[n])
      BY <1>3, <3>1
    <3> QED
      BY <1>1, <2>2, <2>4, <3>2
  <2> QED
    BY <2>4, <2>6 DEF PageInv
<1> QED
  BY <1>5, <1>6

\* A switch is published.
LEMMA SwitchStep == ASSUME LabInv, Switch PROVE PageInv' /\ Rest'
<1> DEFINE e == [type |-> SwitchEvents[1 + (switched % 2)]]
<1>1. switched \in Nat /\ (switched % 2 = 0 \/ switched % 2 = 1)
  BY LabAssumption DEF LabInv, Rest
<1>2. e \in Event /\ e.type \in Switches
  BY <1>1 DEF Event, Switches
<1>3. /\ Publish(e) /\ switched < 2 * MaxSwitches /\ switched' = switched + 1
      /\ UNCHANGED <<pod, stream, queue, last, shown>>
      /\ UNCHANGED <<serverUp, broken, timer, stopped, failover, clears>>
  BY DEF Switch, watchVars, pageVars, timerVars
<1> HIDE DEF e
<1>4. \A n \in Pods : W!NotOlder(last[n], last'[n]) /\ last'[n] \in W!State
  BY <1>3, WatchAssumption, W!NotOlderOrder DEF LabInv, W!WatchInv, W!TypeOK
<1>5. /\ HubShape' /\ \A n \in Pods : PageInOrder(n)'
      /\ \A n \in Pods : whole' /\ W!Informs(buf, Waiting(n), shown[n], last[n])
                            => W!Informs(buf', Waiting(n)', shown[n], last'[n])
  BY <1>2, <1>3, <1>4, Published
<1>6. whole' => whole
  BY <1>3 DEF Publish
<1>7. WholeToPage'
  BY <1>3, <1>5, <1>6 DEF LabInv, WholeToPage, W!Exists
<1>8. Rest'
  BY <1>3, LabAssumption DEF LabInv, Rest
<1> QED
  BY <1>5, <1>7, <1>8 DEF PageInv

\* A new watch tells the channel all.
LEMMA RewatchStep == ASSUME LabInv, Rewatch PROVE PageInv'
<1>1. /\ W!WatchOk /\ whole' = member /\ UNCHANGED <<pod, last, member, buf, shown>>
  BY SameWatch DEF Rewatch, W!WatchOk
<1>2. HubShape' /\ \A n \in Pods : PageInOrder(n)'
  BY <1>1, PageQuiet DEF LabInv, HubShape
<1>3. \A n \in Pods : W!Exists(n) => W!Told(queue', n) # {}
  <2>1. queue' \in W!SetToSeqs(W!Snapshot) /\ W!TypeOK
    BY <1>1 DEF W!WatchOk, W!Snapshot, LabInv, W!WatchInv
  <2> QED
    BY <2>1, WatchAssumption, W!SnapshotTells
<1>4. WholeToPage'
  BY <1>1, <1>3 DEF WholeToPage, W!Exists
<1> QED
  BY <1>2, <1>4 DEF PageInv

\* A pod that moves on is told of; a stream that ends or is dropped promises nothing.
LEMMA ElsewhereStep == ASSUME LabInv, Elsewhere PROVE PageInv'
<1>1. UNCHANGED <<member, buf, whole, shown>>
  BY DEF Elsewhere, hubVars
<1>2. last' = last
  BY DEF Elsewhere, Watch!Recreate, Watch!BecomeReady, Watch!Kill, Watch!Removed, Watch!Becomes,
         Watch!EndStream, Watch!CheckCtx, Watch!WatchFails, Watch!WakeUp, Watch!RecvClosed,
         Watch!watchVars, Watch!apiVars
<1>3. HubShape' /\ \A n \in Pods : PageInOrder(n)'
  BY <1>1, <1>2, PageQuiet DEF LabInv, HubShape
<1>4. WholeToPage'
  <2>1. ASSUME NEW n \in Pods, NEW st, NEW t \in {"ADDED", "MODIFIED", "DELETED"}, W!Becomes(n, st, t),
               st \in W!State
        PROVE  WholeToPage'
    <3> SUFFICES ASSUME whole, stream = "open", stream' = "open", NEW m \in Pods, W!Exists(m)'
                 PROVE  \/ W!Told(queue', m) # {}
                        \/ W!Informs(buf, Waiting(m), shown[m], last[m])
      BY <1>1, <1>2, <2>1 DEF WholeToPage, Waiting, W!Becomes
    <3> DEFINE e == W!WatchEvent(t, n)
    <3>1. queue' = Append(queue, e) /\ pod' = [pod EXCEPT ![n] = st]
      BY <2>1 DEF W!Becomes
    <3>2. e \in W!WatchEvents /\ e.type # "ERROR" /\ e.name = n /\ queue \in Seq(W!WatchEvents)
      BY <2>1, <3>1 DEF W!WatchEvent, W!WatchEvents, LabInv, W!WatchInv, W!TypeOK, W!QueueType
    <3> HIDE DEF e
    <3>3. CASE m = n
      <4>1. W!Told(queue', m) = W!Told(queue, m) \cup {Len(queue) + 1}
        BY <3>1, <3>2, <3>3, WatchAssumption, W!ToldAppend
      <4> QED
        BY <4>1
    <3>4. CASE m # n
      <4>1. W!Told(queue', m) = W!Told(queue, m)
        BY <3>1, <3>2, <3>4, WatchAssumption, W!ToldAppend
      <4>2. W!Exists(m)
        BY <3>1, <3>4 DEF W!Exists, LabInv, W!WatchInv, W!TypeOK
      <4> QED
        BY <4>1, <4>2 DEF LabInv, WholeToPage
    <3> QED
      BY <3>3, <3>4
  <2>2. CASE \E n \in Pods : W!Recreate(n) \/ W!BecomeReady(n) \/ W!Kill(n) \/ W!Removed(n)
    BY <2>1, <2>2, WatchAssumption, W!ClusterMoves DEF LabInv
  <2>3. CASE stream' # "open" \/ UNCHANGED <<pod, stream, queue>>
    BY <1>1, <1>2, <2>3 DEF LabInv, WholeToPage, Waiting, W!Exists
  <2>4. W!EndStream \/ W!CheckCtx \/ W!WatchFails \/ W!WakeUp \/ W!RecvClosed
            => stream' # "open" \/ UNCHANGED <<pod, stream, queue>>
    BY DEF W!EndStream, W!CheckCtx, W!WatchFails, W!WakeUp, W!RecvClosed, W!apiVars
  <2> QED
    BY <2>2, <2>3, <2>4, SameWatch DEF Elsewhere
<1> QED
  BY <1>3, <1>4 DEF PageInv

\* The page is told what was next in line for it.
LEMMA DeliverStep ==
    ASSUME LabInv, Deliver
    PROVE  PageInv' /\ Rest' /\ \A n \in Pods : W!NotOlder(shown[n], shown'[n])
<1> DEFINE e == Head(buf)
<1>1. /\ buf # <<>> /\ buf' = Tail(buf) /\ buf \in Seq(Event)
      /\ UNCHANGED <<pod, stream, queue, last, member, whole, switched>>
      /\ UNCHANGED <<serverUp, broken, timer, stopped>>
  BY DEF Deliver, watchVars, pageVars, LabInv, HubShape
<1>2. e \in Event /\ e = buf[1] /\ 1 \in DOMAIN buf /\ buf' \in Seq(Event) /\ Len(buf') = Len(buf) - 1
  BY <1>1, WaitingTail
<1>3. /\ e.type \in Switches => shown' = shown
      /\ e.type \notin Switches => e.name \in Pods /\ e.st \in W!State /\ shown' = [shown EXCEPT ![e.name] = e.st]
      /\ failover' \in {"none", "running", "done"} /\ clears' \in Nat
  <2>1. failover \in {"none", "running", "done"} /\ clears \in Nat
    BY DEF LabInv, Rest
  <2>2. CASE e.type \in Switches
    <3>1. e.type \in types /\ e.type \in {"role_changed", "sentinel_event"}
      BY <2>2 DEF types, Switches, SwitchEvents
    <3>2. Timer!OnSwitch(e.type) /\ shown' = shown
      BY <3>1 DEF Deliver
    <3> QED
      BY <2>1, <2>2, <3>2 DEF Timer!OnSwitch, Timer!Complete
  <2>3. CASE e.type \notin Switches
    <3>1. e.type \in {"pod_added", "pod_modified", "pod_deleted"} /\ e.name \in Pods /\ e.st \in W!State
      BY <1>2, <2>3, EventType
    <3>2. e.type \in types /\ e.type \notin {"role_changed", "sentinel_event"}
      BY <3>1 DEF types
    <3>3. /\ shown' = [shown EXCEPT ![e.name] = e.st]
          /\ IF e.type = "pod_deleted" THEN Timer!OnPodDeleted ELSE UNCHANGED timerVars
      BY <3>2 DEF Deliver
    <3> QED
      BY <2>1, <2>3, <3>1, <3>3 DEF Timer!OnPodDeleted, timerVars
  <2> QED
    BY <2>2, <2>3
<1> HIDE DEF e
<1>4. shown' \in [Pods -> W!State]
  BY <1>3 DEF LabInv, HubShape
<1>5. HubShape'
  <2>1. Len(buf) \in Nat /\ Len(buf) <= Cap /\ (~member => buf = <<>> /\ ~whole)
    BY <1>1 DEF LabInv, HubShape
  <2>2. Len(buf') <= Cap
    BY <1>2, <2>1, LabAssumption
  <2> QED
    BY <1>1, <1>2, <1>4, <2>1, <2>2 DEF LabInv, HubShape
<1>6. ASSUME NEW n \in Pods
      PROVE  /\ PageInOrder(n)' /\ W!NotOlder(shown[n], shown'[n])
             /\ W!Informs(buf, Waiting(n), shown[n], last[n])
                    => W!Informs(buf', Waiting(n)', shown'[n], last'[n])
  <2>1. /\ \A i \in Waiting(n) : i = 1 \/ i - 1 \in Waiting(n)'
        /\ \A i \in Waiting(n)' : i \in DOMAIN Tail(buf) /\ i + 1 \in Waiting(n)
    BY <1>1, WaitingTail
  <2>2. W!InLine(buf, Waiting(n), shown[n], last[n]) /\ Waiting(n) \subseteq DOMAIN buf
        /\ shown[n] \in W!State
    BY WaitingStates DEF LabInv, PageInOrder
  <2>3. 1 \in Waiting(n) <=> e.type \notin Switches /\ e.name = n
    BY <1>2 DEF Waiting, Switches
  <2>4. shown'[n] = IF 1 \in Waiting(n) THEN buf[1].st ELSE shown[n]
    BY <1>2, <1>3, <2>3 DEF LabInv, HubShape
  <2>5. /\ W!InLine(Tail(buf), Waiting(n)', shown'[n], last[n])
        /\ W!NotOlder(shown[n], shown'[n]) \/ shown'[n] = shown[n]
        /\ W!Informs(buf, Waiting(n), shown[n], last[n])
              => W!Informs(Tail(buf), Waiting(n)', shown'[n], last[n])
    BY <1>1, <2>1, <2>2, <2>4, WatchAssumption, W!LineTail
  <2>6. W!NotOlder(shown[n], shown[n])
    BY <2>2, WatchAssumption, W!NotOlderOrder
  <2> QED
    BY <1>1, <2>5, <2>6 DEF PageInOrder
<1>7. WholeToPage'
  BY <1>1, <1>6 DEF LabInv, WholeToPage, W!Exists
<1>8. Rest'
  BY <1>1, <1>3 DEF LabInv, Rest
<1> QED
  BY <1>5, <1>6, <1>7, <1>8 DEF PageInv

\* A request that goes takes its channel with it, and a page that is left forgets.
LEMMA GoneStep == ASSUME LabInv, Flip \/ Crash \/ LeavePage PROVE PageInv'
<1>1. Unregistered /\ last' = last /\ (shown' = shown \/ shown' = Untold)
  BY DEF Flip, Crash, LeavePage, watchVars
<1>2. Untold \in [Pods -> W!State]
  BY WatchAssumption, W!Oldest DEF Untold
<1>3. HubShape'
  <2>1. buf' = <<>> /\ buf' \in Seq(Event) /\ Len(buf') <= Cap
    BY <1>1, LabAssumption DEF Unregistered
  <2>2. shown' \in [Pods -> W!State]
    BY <1>1, <1>2 DEF LabInv, HubShape
  <2> QED
    BY <1>1, <2>1, <2>2 DEF HubShape, Unregistered
<1>4. WholeToPage'
  BY <1>1 DEF WholeToPage, Unregistered
<1> QED
  BY <1>1, <1>3, <1>4, ChannelGone DEF PageInv

\* What else the page does leaves the news alone.
LEMMA QuietStep ==
    ASSUME LabInv, UNCHANGED <<pod, stream, queue, last, buf, whole, shown>>,
           member' = member \/ member' = TRUE
    PROVE  PageInv'
<1>1. HubShape' /\ WholeToPage'
  BY DEF LabInv, HubShape, WholeToPage, Waiting, W!Exists
<1> QED
  BY <1>1, PageQuiet DEF LabInv, PageInv

LEMMA PageSteps == ASSUME LabInv, [Next]_vars PROVE PageInv'
<1>1. CASE Subscribe \/ Answered \/ Connect \/ Clear \/ UNCHANGED vars
  <2>1. UNCHANGED <<pod, stream, queue, last, buf, whole, shown>> /\ (member' = member \/ member' = TRUE)
    BY <1>1 DEF Subscribe, Answered, Connect, Clear, vars, watchVars, hubVars
  <2> QED
    BY <2>1, QuietStep
<1> QED
  BY <1>1, PodEventStep, SwitchStep, RewatchStep, ElsewhereStep, DeliverStep, GoneStep DEF Next, Streams

\* The flags and counters keep their range, and the connection its meaning.
LEMMA RestSteps == ASSUME LabInv, [Next]_vars PROVE Rest' /\ Refused' /\ Served'
<1>1. /\ serverUp \in BOOLEAN /\ broken \in BOOLEAN /\ timer \in BOOLEAN /\ stopped \in BOOLEAN
      /\ failover \in {"none", "running", "done"} /\ clears \in Nat
      /\ switched \in 0..(2 * MaxSwitches)
  BY DEF LabInv, Rest
<1>2. CASE Deliver
  BY <1>2, DeliverStep DEF Deliver, LabInv, Refused, Served, pageVars
<1>3. CASE Switch
  BY <1>3, SwitchStep DEF Switch, LabInv, Refused, Served, Publish, pageVars
<1>4. CASE PodEvent \/ Rewatch \/ Elsewhere \/ Subscribe \/ UNCHANGED vars
  <2>1. UNCHANGED <<pageVars, timerVars, switched>> /\ (member => member')
    BY <1>4 DEF PodEvent, Rewatch, Elsewhere, Subscribe, Publish, hubVars, vars
  <2> QED
    BY <1>1, <2>1 DEF LabInv, Rest, Refused, Served, pageVars, timerVars
<1>5. CASE Clear
  <2>1. /\ failover' = "none" /\ clears' \in Nat
        /\ UNCHANGED <<pageVars, hubVars, switched>>
    BY <1>1, <1>5 DEF Clear, Timer!Clear
  <2> QED
    BY <1>1, <2>1 DEF LabInv, Rest, Refused, Served, pageVars, hubVars
<1>6. CASE Flip \/ Crash
  <2>1. Stream!ServerFlips /\ UNCHANGED <<timerVars, switched>>
    BY <1>6 DEF Flip, Crash
  <2> QED
    BY <1>1, <2>1 DEF Stream!ServerFlips, timerVars, LabInv, Rest, Refused, Served
<1>7. CASE Answered
  BY <1>1, <1>7 DEF Answered, Stream!OnOpen, Stream!OnError, Stream!Errs, timerVars, hubVars,
                    LabInv, Rest, Refused, Served
<1>8. CASE Connect
  BY <1>1, <1>8 DEF Connect, Stream!Connect, timerVars, hubVars, LabInv, Rest, Refused, Served
<1>9. CASE LeavePage
  BY <1>1, <1>9 DEF LeavePage, Stream!Cleanup, Timer!Leave, LabInv, Rest, Refused, Served
<1> QED
  BY <1>2, <1>3, <1>4, <1>5, <1>6, <1>7, <1>8, <1>9 DEF Next, Streams

-----------------------------------------------------------------------------
(* The theorems                                                            *)

LEMMA InitLab == Init => LabInv
<1> SUFFICES ASSUME Init PROVE LabInv
  OBVIOUS
<1>1. StreamInv /\ Refused /\ Served
  BY InitStream DEF Init, Stream!Init, Refused, Served
<1>2. W!WatchInv
  <2>1. W!Init
    BY DEF Init, Watch!Init, W!Init
  <2> QED
    BY <2>1, WatchAssumption, W!InitWatch
<1>3. Untold \in [Pods -> W!State] /\ \A n \in Pods : W!NotOlder(Untold[n], Untold[n])
  BY WatchAssumption, W!Oldest DEF Untold
<1>4. HubShape
  <2>1. buf = <<>> /\ buf \in Seq(Event) /\ Len(buf) <= Cap
    BY LabAssumption DEF Init
  <2> QED
    BY <1>3, <2>1 DEF Init, HubShape
<1>5. Rest
  <2>1. switched \in 0..(2 * MaxSwitches)
    BY LabAssumption DEF Init
  <2>2. serverUp \in BOOLEAN /\ broken \in BOOLEAN /\ timer \in BOOLEAN /\ stopped \in BOOLEAN
    BY DEF Init, Stream!Init
  <2> QED
    BY <2>1, <2>2 DEF Init, Rest, Timer!Init
<1>6. ASSUME NEW n \in Pods PROVE PageInOrder(n)
  <2>1. Waiting(n) = {} /\ shown[n] = Untold[n] /\ last[n] = Untold[n]
    BY DEF Waiting, Init, Watch!Init, Untold
  <2> QED
    BY <1>3, <2>1 DEF PageInOrder, W!InLine
<1>7. WholeToPage
  BY DEF Init, WholeToPage
<1> QED
  BY <1>1, <1>2, <1>4, <1>5, <1>6, <1>7 DEF LabInv

LEMMA LabStep == ASSUME LabInv, [Next]_vars PROVE LabInv'
<1>1. StreamInv'
  BY StreamStep DEF LabInv
<1>2. W!WatchInv'
  BY WatchSteps DEF LabInv
<1> QED
  BY <1>1, <1>2, PageSteps, RestSteps DEF LabInv, PageInv

LEMMA LabInvariant == Spec => []LabInv
BY InitLab, LabStep, PTL DEF Spec

\* Watcher, hub and page keep their shape: at most the capacity of the subscriber's
\* channel waits, no channel is left behind by a request, and EventSource.onopen
\* comes after Subscribe.
THEOREM TypeCorrect == Spec => []TypeOK
<1>1. LabInv => TypeOK
  <2> SUFFICES ASSUME LabInv PROVE TypeOK
    OBVIOUS
  <2>1. Watch!TypeOK /\ shown \in [Pods -> Watch!State]
    BY SameWords DEF LabInv, W!WatchInv, HubShape
  <2>2. Stream!TypeOK
    BY DEF LabInv, StreamInv, Slots, Count, Delay, Rest, Stream!TypeOK
  <2>3. Timer!Shape
    BY DEF LabInv, Rest, Timer!Shape
  <2> QED
    BY <2>1, <2>2, <2>3 DEF LabInv, HubShape, Rest, Served, TypeOK
<1> QED
  BY <1>1, LabInvariant, PTL

\* Where the members of two sequences stand when one follows the other.
LEMMA Concat ==
    ASSUME NEW S, NEW T, NEW s \in Seq(S), NEW t \in Seq(T)
    PROVE  /\ \A i \in DOMAIN s : i \in DOMAIN (s \o t) /\ (s \o t)[i] = s[i]
           /\ \A i \in DOMAIN t : Len(s) + i \in DOMAIN (s \o t) /\ (s \o t)[Len(s) + i] = t[i]
           /\ \A i \in DOMAIN (s \o t) : i \in Nat
                /\ (i \in DOMAIN s \/ (i - Len(s) \in DOMAIN t /\ Len(s) + (i - Len(s)) = i))
<1>1. s \in Seq(S \cup T) /\ t \in Seq(S \cup T)
  OBVIOUS
<1> QED
  BY <1>1

\* Broadcaster.Publish drops for a full channel and forgets who left, but a page
\* that registered before WatchPods opened its watch, and for which nothing was
\* dropped since, has been told or is about to be told the present state of every
\* pod there is.
THEOREM WholeStream == Spec => []WholeStreamIsCurrent
<1>1. ASSUME LabInv, whole, stream = "open", NEW n \in Pods, Watch!Exists(n)
      PROVE  Watch!Informs(buf \o queue, Coming(n), shown[n], pod[n])
  <2> DEFINE b == Len(buf)
             all == buf \o queue
  <2>1. /\ buf \in Seq(Event) /\ queue \in Seq(W!WatchEvents) /\ b \in Nat
        /\ \A i \in DOMAIN buf : i \in Nat /\ i <= b /\ i >= 1
        /\ \A i \in DOMAIN queue : i \in Nat /\ i >= 1
    BY <1>1 DEF LabInv, HubShape, W!WatchInv, W!QueueType
  <2>2. /\ \A i \in DOMAIN buf : i \in DOMAIN all /\ all[i] = buf[i]
        /\ \A i \in DOMAIN queue : b + i \in DOMAIN all /\ all[b + i] = queue[i]
        /\ \A i \in DOMAIN all : i \in Nat /\ (i \in DOMAIN buf \/ (i - b \in DOMAIN queue /\ b + (i - b) = i))
    BY <2>1, Concat
  <2> HIDE DEF b, all
  <2>3. Coming(n) = {i \in DOMAIN all : all[i].type \notin ({"ERROR"} \cup Switches) /\ all[i].name = n}
    BY DEF Coming, Switches, all
  <2>4. \A i \in DOMAIN buf : i \in Coming(n) <=> i \in Waiting(n)
    <3>1. \A i \in DOMAIN buf : buf[i].type # "ERROR"
      BY <2>1, EventType
    <3> QED
      BY <2>2, <2>3, <3>1 DEF Waiting, Switches
  <2>5. \A i \in DOMAIN queue : b + i \in Coming(n) <=> i \in W!Told(queue, n)
    <3>1. \A i \in DOMAIN queue : queue[i].type \notin Switches
      BY <2>1 DEF W!WatchEvents, W!ErrorEvent, Switches, SwitchEvents
    <3> QED
      BY <2>2, <2>3, <3>1 DEF W!Told
  <2>6. CASE W!Told(queue, n) = {}
    <3>1. shown[n] \in W!State /\ Waiting(n) \subseteq DOMAIN buf
      BY <1>1, WaitingStates DEF LabInv
    <3>2. last[n] = pod[n]
      BY <1>1, <2>6, SameWords DEF LabInv, W!WatchInv, W!CurrentWhileConnected, W!Informs
    <3>3. Coming(n) = Waiting(n)
      BY <2>2, <2>3, <2>4, <2>5, <2>6, <3>1
    <3>4. W!Informs(buf, Waiting(n), shown[n], last[n])
      BY <1>1, <2>6, SameWords DEF LabInv, WholeToPage
    <3>5. W!Informs(all, Waiting(n), shown[n], last[n])
      BY <2>2, <3>1, <3>4 DEF W!Informs
    <3> QED
      BY <3>2, <3>3, <3>5, SameWords DEF all
  <2>7. CASE W!Told(queue, n) # {}
    <3>1. PICK i \in W!Told(queue, n) : queue[i].st = pod[n] /\ \A j \in W!Told(queue, n) : j <= i
      BY <1>1, <2>7, SameWords DEF LabInv, W!WatchInv, W!CurrentWhileConnected, W!Informs
    <3>2. i \in DOMAIN queue /\ i \in Nat /\ i >= 1
      BY <2>1 DEF W!Told
    <3>3. b + i \in Coming(n) /\ all[b + i].st = pod[n]
      BY <2>2, <2>5, <3>1, <3>2
    <3>4. ASSUME NEW j \in Coming(n) PROVE j <= b + i
      <4>1. CASE j \in DOMAIN buf
        BY <2>1, <3>2, <4>1
      <4>2. CASE j - b \in DOMAIN queue /\ b + (j - b) = j
        <5>1. j - b <= i
          BY <2>5, <3>1, <4>2
        <5>2. j \in Nat
          BY <2>2, <2>3
        <5> QED
          BY <2>1, <3>2, <5>1, <5>2
      <4> QED
        BY <2>2, <2>3, <4>1, <4>2
    <3> QED
      BY <3>3, <3>4, SameWords DEF W!Informs, all
  <2> QED
    BY <2>6, <2>7
<1>2. LabInv => WholeStreamIsCurrent
  BY <1>1 DEF WholeStreamIsCurrent
<1> QED
  BY <1>2, LabInvariant, PTL

\* What handleSSE delivers in order, from a watch that goes only forward, never
\* takes the page back: until it is left, it is not told of a pod what is older
\* than what it was told, whatever breaks, restarts or is dropped between.
THEOREM NewsGoesForward == Spec => NewsNeverGoesBack
<1>1. ASSUME LabInv, [Next]_vars, NEW n \in Pods
      PROVE  stopped' \/ Watch!NotOlder(shown[n], shown'[n])
  <2>1. CASE Deliver
    BY <1>1, <2>1, DeliverStep, SameWords
  <2>2. CASE LeavePage
    BY <2>2 DEF LeavePage, Stream!Cleanup
  <2>3. CASE shown' = shown
    BY <1>1, <2>3, WatchAssumption, W!NotOlderOrder, SameWords DEF LabInv, HubShape
  <2> QED
    BY <1>1, <2>1, <2>2, <2>3 DEF Next, Streams, PodEvent, Rewatch, Elsewhere, Switch, Flip, Crash,
                                  Subscribe, Answered, Connect, Clear, vars
<1>2. LabInv /\ [Next]_vars => [\A n \in Pods : stopped' \/ Watch!NotOlder(shown[n], shown'[n])]_vars
  BY <1>1
<1> QED
  BY <1>2, LabInvariant, PTL DEF Spec, NewsNeverGoesBack

=============================================================================
