--------------------------- MODULE SentinelWatch ---------------------------
(***************************************************************************)
(* The Sentinel watcher (backend/internal/redis/sentinel.go,               *)
(* WatchSentinelEvents): a goroutine that listens on Sentinel's pub/sub    *)
(* channels through the go-redis client and publishes every message on the *)
(* hub, adding a role_changed event after a +switch-master.  The client    *)
(* library reconnects by itself and may close its channel; pub/sub forgets *)
(* what is sent while nobody is subscribed.                                *)
(***************************************************************************)
EXTENDS Naturals, Sequences

CONSTANTS Nodes,       \* the Redis nodes Sentinel can make master
          MaxMessages, \* bound: messages Sentinel sends
          MaxCloses    \* bound: channels the library closes

ASSUME SentinelWatchAssumption == MaxMessages \in Nat /\ MaxCloses \in Nat

VARIABLES master,    \* Sentinel: the current master
          emitted,   \* number of messages Sentinel has sent
          link,      \* the subscription is live
          queue,     \* messages in the library's channel
          chanOpen,  \* the library's channel is not closed
          closes,    \* channels closed so far
          pc,        \* where the watcher is
          cancelled, \* ctx is done
          msg,       \* the message in hand
          published, \* what the watcher published, in order
          backoff    \* seconds to sleep before the next attempt

busVars   == <<master, emitted, link, queue, chanOpen, closes>>
watchVars == <<pc, cancelled, msg, published, backoff>>
vars      == <<busVars, watchVars>>

\* +switch-master; +failover-state-*; any other channel that is listened to.
Kinds == {"switch", "state", "other"}

Message == [id : 1..MaxMessages, kind : Kinds]

\* Bus and watcher have their shape: a role_changed is due only after a message
\* that is a switch, and a subscription is live only on an open channel.
TypeOK ==
    /\ master \in Nodes
    /\ emitted \in 0..MaxMessages
    /\ link \in BOOLEAN /\ chanOpen \in BOOLEAN /\ (link => chanOpen)
    /\ queue \in Seq(Message)
    /\ closes \in 0..MaxCloses
    /\ pc \in {"top", "recv", "role", "sleep", "stopped"}
    /\ cancelled \in BOOLEAN
    /\ (pc = "role" => msg \in Message /\ msg.kind = "switch")
    /\ \A i \in DOMAIN published :
          published[i].type \in {"sentinel_event", "role_changed"}
    /\ backoff \in {1, 2, 4, 8, 16}

Init ==
    /\ master \in Nodes
    /\ emitted = 0 /\ closes = 0
    /\ link = FALSE /\ chanOpen = FALSE /\ queue = <<>>
    /\ pc = "top" /\ cancelled = FALSE /\ msg = <<>>
    /\ published = <<>>
    /\ backoff = 1

-----------------------------------------------------------------------------
(* Sentinel and the client library                                         *)

\* Redis delivers a message once for each pattern its channel matches, and
\* +failover-state-* is covered by +failover-* too.
Copies(m) == IF m.kind = "state" THEN 2 ELSE 1

\* A live subscription gets every copy, one that breaks meanwhile only the first.
Emit(m) ==
    /\ emitted < MaxMessages
    /\ emitted' = emitted + 1
    /\ \E k \in 0..Copies(m) :
          /\ k > 0 => link
          /\ queue' = queue \o [i \in 1..k |-> m]
          /\ link' = (link /\ k = Copies(m))

\* A failover elects another node; every other channel only reports state.
SwitchMaster(n) ==
    /\ n # master
    /\ master' = n
    /\ Emit([id |-> emitted + 1, kind |-> "switch"])
    /\ UNCHANGED <<chanOpen, closes, watchVars>>

OtherMessage(kind) ==
    /\ Emit([id |-> emitted + 1, kind |-> kind])
    /\ UNCHANGED <<master, chanOpen, closes, watchVars>>

\* The library dials and subscribes, again after every broken connection.
LinkUp ==
    /\ chanOpen /\ ~link
    /\ link' = TRUE
    /\ UNCHANGED <<master, emitted, queue, chanOpen, closes, watchVars>>

LinkDown ==
    /\ link
    /\ link' = FALSE
    /\ UNCHANGED <<master, emitted, queue, chanOpen, closes, watchVars>>

\* The library gives up: it closes its channel; what is in it can still be read.
LibraryCloses ==
    /\ chanOpen /\ closes < MaxCloses
    /\ chanOpen' = FALSE /\ link' = FALSE
    /\ closes' = closes + 1
    /\ UNCHANGED <<master, emitted, queue, watchVars>>

-----------------------------------------------------------------------------
(* WatchSentinelEvents                                                     *)

\* A new client and subscription, or the end.  backoff is reset on each round.
Subscribe ==
    /\ pc = "top" /\ ~cancelled
    /\ pc' = "recv"
    /\ chanOpen' = TRUE /\ link' = FALSE /\ queue' = <<>>
    /\ backoff' = 1
    /\ UNCHANGED <<master, emitted, closes, cancelled, msg, published>>

CtxErr ==
    /\ pc = "top" /\ cancelled
    /\ pc' = "stopped"
    /\ UNCHANGED <<busVars, cancelled, msg, published, backoff>>

Entry(type, m) == [type |-> type, id |-> m.id, kind |-> m.kind]

\* Mutants of Recv: every message is taken for a switch; none is.
RecvAlwaysRole ==
    /\ pc = "recv" /\ queue # <<>>
    /\ msg' = Head(queue)
    /\ queue' = Tail(queue)
    /\ published' = Append(published, Entry("sentinel_event", Head(queue)))
    /\ pc' = "role"
    /\ UNCHANGED <<master, emitted, link, chanOpen, closes, cancelled, backoff>>

RecvNeverRole ==
    /\ pc = "recv" /\ queue # <<>>
    /\ msg' = Head(queue)
    /\ queue' = Tail(queue)
    /\ published' = Append(published, Entry("sentinel_event", Head(queue)))
    /\ UNCHANGED <<master, emitted, link, chanOpen, closes, pc, cancelled, backoff>>

\* Mutant of PublishRole: it gives way to a cancelled context.
PublishRoleUnlessCancelled ==
    /\ pc = "role" /\ ~cancelled
    /\ published' = Append(published, Entry("role_changed", msg))
    /\ pc' = "recv"
    /\ UNCHANGED <<busVars, cancelled, msg, backoff>>

\* A message: publish sentinel_event; a +switch-master needs a second publish.
Recv ==
    /\ pc = "recv" /\ queue # <<>>
    /\ msg' = Head(queue)
    /\ queue' = Tail(queue)
    /\ published' = Append(published, Entry("sentinel_event", Head(queue)))
    /\ pc' = IF Head(queue).kind = "switch" THEN "role" ELSE "recv"
    /\ UNCHANGED <<master, emitted, link, chanOpen, closes, cancelled, backoff>>

PublishRole ==
    /\ pc = "role"
    /\ published' = Append(published, Entry("role_changed", msg))
    /\ pc' = "recv"
    /\ UNCHANGED <<busVars, cancelled, msg, backoff>>

\* The channel is closed: close pubsub and client, then sleep.
RecvClosed ==
    /\ pc = "recv" /\ queue = <<>> /\ ~chanOpen
    /\ pc' = "sleep"
    /\ UNCHANGED <<busVars, cancelled, msg, published, backoff>>

\* Mutant of WakeUp: the watcher returns after its sleep.
WakeUpReturns ==
    /\ pc = "sleep"
    /\ pc' = "stopped"
    /\ UNCHANGED <<busVars, cancelled, msg, published, backoff>>

\* time.After(backoff), then the backoff grows: up to 16 s.
WakeUp ==
    /\ pc = "sleep"
    /\ pc' = "top"
    /\ backoff' = IF backoff < 16 THEN 2 * backoff ELSE backoff
    /\ UNCHANGED <<busVars, cancelled, msg, published>>

\* case <-ctx.Done(), while receiving (pubsub and client are closed) or asleep.
StopOnCancel ==
    /\ pc \in {"recv", "sleep"} /\ cancelled
    /\ pc' = "stopped"
    /\ chanOpen' = FALSE /\ link' = FALSE /\ queue' = <<>>
    /\ UNCHANGED <<master, emitted, closes, cancelled, msg, published, backoff>>

Cancel ==
    /\ ~cancelled
    /\ cancelled' = TRUE
    /\ UNCHANGED <<busVars, pc, msg, published, backoff>>

-----------------------------------------------------------------------------

Bus ==
    \/ \E n \in Nodes : SwitchMaster(n)
    \/ \E kind \in Kinds \ {"switch"} : OtherMessage(kind)
    \/ LinkUp \/ LinkDown \/ LibraryCloses \/ Cancel

Watcher ==
    Subscribe \/ CtxErr \/ Recv \/ PublishRole \/ RecvClosed \/ WakeUp \/ StopOnCancel

Next == Bus \/ Watcher

Spec == Init /\ [][Next]_vars

\* The goroutine is scheduled, the select is fair to ctx.Done, and the library
\* keeps dialling: a Sentinel that can be reached is reached in the end.
Fairness == WF_vars(Watcher) /\ SF_vars(StopOnCancel) /\ WF_vars(LinkUp)

FairSpec == Spec /\ Fairness

-----------------------------------------------------------------------------
(* What is promised                                                        *)

\* Two entries that one +failover-state-* message makes, next to each other.
TwoCopies(p, i, j) == p[i].kind = "state" /\ j = i + 1 /\ p[j] = p[i]

\* Every +switch-master that is published is followed by its own role_changed
\* before anything else of this watcher, and nothing else makes a role_changed:
\* pages see each failover exactly once.  Messages are published in the order
\* they were sent, each once, but for the two copies of a +failover-state-*.
RoleFollowsSwitch ==
    \A i \in DOMAIN published :
        LET e == published[i] IN
        /\ e.type = "role_changed" =>
              /\ e.kind = "switch" /\ i > 1
              /\ published[i - 1] = [e EXCEPT !.type = "sentinel_event"]
        /\ e.type = "sentinel_event" /\ e.kind = "switch" =>
              IF i = Len(published) THEN pc = "role"
              ELSE published[i + 1] = [e EXCEPT !.type = "role_changed"]
        /\ \A j \in DOMAIN published : j < i /\ published[j].type = e.type
              => published[j].id < e.id \/ TwoCopies(published, j, i)

\* A switch that was published leads to its role_changed even if the server is
\* shutting down meanwhile.
SwitchIsCompleted ==
    \A i \in 1..MaxMessages :
        pc = "role" /\ msg.id = i
            ~> \E k \in DOMAIN published :
                   published[k].type = "role_changed" /\ published[k].id = i

\* The watcher does not stay deaf: whenever it has no live subscription, because
\* it is not yet made, its connection broke or its channel was closed (even while
\* a message was being published), it gets one, unless the server stops.
Resubscribes == ~link ~> (link /\ pc \in {"recv", "role"}) \/ cancelled

=============================================================================
