---------------------------- MODULE Broadcaster ----------------------------
(***************************************************************************)
(* The event hub (backend/internal/events/broadcaster.go) and its readers, *)
(* the SSE request handlers (backend/internal/api/sse.go).                 *)
(*                                                                         *)
(* A publisher is a watch loop: it calls Publish, which fans one event out *)
(* under the read lock, one non-blocking send per subscriber.  A session   *)
(* is one GET /api/<lab>/events request: it subscribes, streams until its  *)
(* client goes away, deletes its channel under the write lock and closes   *)
(* the channel AFTER the unlock.  A session owns exactly one channel, so   *)
(* the session itself names the channel.                                   *)
(***************************************************************************)
EXTENDS RWMutex, Naturals, Sequences

CONSTANTS Labs,        \* the labs with a namespace
          Publishers,  \* the watch loops
          PubLab,      \* the lab each watch loop publishes on
          Sessions,    \* the SSE requests, each with a channel of its own
          Cap,         \* capacity of a subscriber channel: 16 in the code
          MaxEvents    \* bound on the events of one publisher

ASSUME BroadcasterAssumption ==
    /\ Cap \in Nat \ {0}
    /\ MaxEvents \in Nat
    /\ PubLab \in [Publishers -> Labs]
    /\ NoOwner \notin Sessions

VARIABLES subs,     \* lab -> channels registered in it
          buf,      \* contents of each channel
          closed,   \* close(ch) has run
          ppc,      \* where each publisher is inside Publish
          todo,     \* channels its range loop has not visited yet
          sent,     \* number of events it has begun to fan out
          spc,      \* where each session is
          labOf,    \* the lab of the session's URL
          gone,     \* the request context is done
          seen,     \* what the session took off its channel, in order
          from,     \* history: `sent' of each publisher when it registered
          dropped   \* history: the events its full buffer lost

pubVars  == <<ppc, todo, sent>>
sessVars == <<spc, labOf, gone, seen, from>>
vars     == <<mutexVars, subs, buf, closed, dropped, pubVars, sessVars>>

\* The n-th event of publisher p; type, time and payload are left out.
Event == [pub : Publishers, n : Nat]

PubState  == {"idle", "rlock", "fanout"}
SessState == {"start", "lock", "locking", "add", "stream", "write",
              "unlock", "unlocking", "delete", "close", "done"}

\* A watch loop is in the lock exactly while it is inside Publish, and never
\* waits for a read lock it already holds: RLock behind a waiting writer would
\* then never return.
LockHolders ==
    /\ readers \cap blocked = {}
    /\ \A p \in Publishers :
          /\ ppc[p] = "idle" => p \notin readers \cup blocked
          /\ ppc[p] = "fanout" => p \in readers

\* The map, the channels and the goroutines of the hub have their shape, and
\* every Publish that returned gave its read lock back.
TypeOK ==
    /\ LockHolders
    /\ MutexType(Sessions, Publishers)
    /\ subs \in [Labs -> SUBSET Sessions]
    /\ buf \in [Sessions -> Seq(Event)]
    /\ closed \in [Sessions -> BOOLEAN]
    /\ ppc \in [Publishers -> PubState]
    /\ todo \in [Publishers -> SUBSET Sessions]
    /\ sent \in [Publishers -> Nat]
    /\ spc \in [Sessions -> SessState]
    /\ labOf \in [Sessions -> Labs]
    /\ gone \in [Sessions -> BOOLEAN]
    /\ seen \in [Sessions -> Seq(Event)]
    /\ from \in [Sessions -> [Publishers -> Nat]]
    /\ dropped \in [Sessions -> SUBSET Event]

Init ==
    /\ MutexInit
    /\ subs = [l \in Labs |-> {}]
    /\ buf = [s \in Sessions |-> <<>>]
    /\ closed = [s \in Sessions |-> FALSE]
    /\ ppc = [p \in Publishers |-> "idle"]
    /\ todo = [p \in Publishers |-> {}]
    /\ sent = [p \in Publishers |-> 0]
    /\ spc = [s \in Sessions |-> "start"]
    /\ labOf \in [Sessions -> Labs]
    /\ gone = [s \in Sessions |-> FALSE]
    /\ seen = [s \in Sessions |-> <<>>]
    /\ from = [s \in Sessions |-> [p \in Publishers |-> 0]]
    /\ dropped = [s \in Sessions |-> {}]

-----------------------------------------------------------------------------
(* Publish                                                                 *)

\* A watch loop has an event and enters Publish: RLock.
Publish(p) ==
    /\ ppc[p] = "idle"
    /\ sent[p] < MaxEvents
    /\ RLock(p)
    /\ ppc' = [ppc EXCEPT ![p] = "rlock"]
    /\ UNCHANGED <<subs, buf, closed, dropped, todo, sent, sessVars>>

\* Mutants of StartFanout: the range does not wait for the read lock; the event
\* goes to the subscribers of every lab.
StartFanoutUnlocked(p) ==
    /\ ppc[p] = "rlock"
    /\ ppc' = [ppc EXCEPT ![p] = "fanout"]
    /\ todo' = [todo EXCEPT ![p] = subs[PubLab[p]]]
    /\ sent' = [sent EXCEPT ![p] = @ + 1]
    /\ UNCHANGED <<mutexVars, subs, buf, closed, dropped, sessVars>>

StartFanoutEverywhere(p) ==
    /\ ppc[p] = "rlock" /\ p \in readers
    /\ ppc' = [ppc EXCEPT ![p] = "fanout"]
    /\ todo' = [todo EXCEPT ![p] = UNION {subs[l] : l \in Labs}]
    /\ sent' = [sent EXCEPT ![p] = @ + 1]
    /\ UNCHANGED <<mutexVars, subs, buf, closed, dropped, sessVars>>

\* The read lock is held: the range over subs[lab] begins.
StartFanout(p) ==
    /\ ppc[p] = "rlock" /\ p \in readers
    /\ ppc' = [ppc EXCEPT ![p] = "fanout"]
    /\ todo' = [todo EXCEPT ![p] = subs[PubLab[p]]]
    /\ sent' = [sent EXCEPT ![p] = @ + 1]
    /\ UNCHANGED <<mutexVars, subs, buf, closed, dropped, sessVars>>

\* The event being published.
Current(p) == [pub |-> p, n |-> sent[p]]

\* Mutant of Send: the subscriber stays on the list and is sent the event again.
SendAgain(p, s) ==
    /\ ppc[p] = "fanout" /\ s \in todo[p]
    /\ Len(buf[s]) < Cap
    /\ buf' = [buf EXCEPT ![s] = Append(@, Current(p))]
    /\ UNCHANGED <<mutexVars, subs, closed, dropped, ppc, todo, sent, sessVars>>

\* select { case ch <- e: }: there is room.  Map order: any channel is next.
Send(p, s) ==
    /\ ppc[p] = "fanout" /\ s \in todo[p]
    /\ Len(buf[s]) < Cap
    /\ buf' = [buf EXCEPT ![s] = Append(@, Current(p))]
    /\ todo' = [todo EXCEPT ![p] = @ \ {s}]
    /\ UNCHANGED <<mutexVars, subs, closed, dropped, ppc, sent, sessVars>>

\* Mutants of Drop: the oldest event makes room, unrecorded; an unbuffered
\* channel, which drops whenever the session is not receiving; no default case.
DropOldest(p, s) ==
    /\ ppc[p] = "fanout" /\ s \in todo[p]
    /\ Len(buf[s]) >= Cap
    /\ buf' = [buf EXCEPT ![s] = Append(Tail(@), Current(p))]
    /\ todo' = [todo EXCEPT ![p] = @ \ {s}]
    /\ UNCHANGED <<mutexVars, subs, closed, dropped, ppc, sent, sessVars>>

DropUnbuffered(p, s) ==
    /\ ppc[p] = "fanout" /\ s \in todo[p]
    /\ spc[s] # "stream"
    /\ dropped' = [dropped EXCEPT ![s] = @ \cup {Current(p)}]
    /\ todo' = [todo EXCEPT ![p] = @ \ {s}]
    /\ UNCHANGED <<mutexVars, subs, buf, closed, ppc, sent, sessVars>>

DropNever(p, s) == s \in todo[p] /\ FALSE

\* select { default: }: the buffer is full, this subscriber loses the event.
Drop(p, s) ==
    /\ ppc[p] = "fanout" /\ s \in todo[p]
    /\ Len(buf[s]) >= Cap
    /\ dropped' = [dropped EXCEPT ![s] = @ \cup {Current(p)}]
    /\ todo' = [todo EXCEPT ![p] = @ \ {s}]
    /\ UNCHANGED <<mutexVars, subs, buf, closed, ppc, sent, sessVars>>

\* Mutant of EndPublish: Publish returns before the RUnlock is deferred.
EndPublishLocked(p) ==
    /\ ppc[p] = "fanout" /\ todo[p] = {}
    /\ ppc' = [ppc EXCEPT ![p] = "idle"]
    /\ UNCHANGED <<mutexVars, subs, buf, closed, dropped, todo, sent, sessVars>>

\* The deferred RUnlock.
EndPublish(p) ==
    /\ ppc[p] = "fanout" /\ todo[p] = {}
    /\ RUnlock(p)
    /\ ppc' = [ppc EXCEPT ![p] = "idle"]
    /\ UNCHANGED <<subs, buf, closed, dropped, todo, sent, sessVars>>

-----------------------------------------------------------------------------
(* handleSSE, Subscribe and the unsubscribe closure                        *)

Goto(s, a, b) == spc[s] = a /\ spc' = [spc EXCEPT ![s] = b]

\* A request for an unknown lab, or without http.Flusher, is answered at once.
Reject(s) ==
    /\ Goto(s, "start", "done")
    /\ UNCHANGED <<mutexVars, subs, buf, closed, dropped, pubVars, labOf, gone, seen, from>>

\* Subscribe makes the channel, which nobody else can reach yet.
Subscribe(s) ==
    /\ Goto(s, "start", "lock")
    /\ UNCHANGED <<mutexVars, subs, buf, closed, dropped, pubVars, labOf, gone, seen, from>>

\* b.mu.Lock() of Subscribe, and of the unsubscribe closure.
LockAnnounce(s) ==
    /\ Goto(s, "lock", "locking") \/ Goto(s, "unlock", "unlocking")
    /\ Announce(s)
    /\ UNCHANGED <<subs, buf, closed, dropped, pubVars, labOf, gone, seen, from>>

LockAcquire(s) ==
    /\ Goto(s, "locking", "add") \/ Goto(s, "unlocking", "delete")
    /\ Acquire(s)
    /\ UNCHANGED <<subs, buf, closed, dropped, pubVars, labOf, gone, seen, from>>

\* subs[lab][ch] = struct{}{}; Unlock; then the hello line is written.
Register(s) ==
    /\ Goto(s, "add", "write")
    /\ subs' = [subs EXCEPT ![labOf[s]] = @ \cup {s}]
    /\ from' = [from EXCEPT ![s] = sent]
    /\ Unlock(s)
    /\ UNCHANGED <<buf, closed, dropped, pubVars, labOf, gone, seen>>

\* select chose the channel: the event is taken off and formatted.
Receive(s) ==
    /\ Goto(s, "stream", "write")
    /\ buf[s] # <<>>
    /\ seen' = [seen EXCEPT ![s] = Append(@, Head(buf[s]))]
    /\ buf' = [buf EXCEPT ![s] = Tail(@)]
    /\ UNCHANGED <<mutexVars, subs, closed, dropped, pubVars, labOf, gone, from>>

\* select chose the 15 s ticker: a keep-alive comment is written.
Ping(s) ==
    /\ Goto(s, "stream", "write")
    /\ UNCHANGED <<mutexVars, subs, buf, closed, dropped, pubVars, labOf, gone, seen, from>>

\* Fprintf and Flush return; they may block for as long as the client reads
\* nothing, and return at once (the error is ignored) when it is gone.
Flush(s) ==
    /\ Goto(s, "write", "stream")
    /\ UNCHANGED <<mutexVars, subs, buf, closed, dropped, pubVars, labOf, gone, seen, from>>

\* The client closes its connection: the request context is done.
ClientGone(s) ==
    /\ ~gone[s] /\ spc[s] # "done"
    /\ gone' = [gone EXCEPT ![s] = TRUE]
    /\ UNCHANGED <<mutexVars, subs, buf, closed, dropped, pubVars, spc, labOf, seen, from>>

\* Mutant of Return: the channel is closed before it is unregistered.
ReturnClosing(s) ==
    /\ gone[s]
    /\ Goto(s, "stream", "unlock")
    /\ closed' = [closed EXCEPT ![s] = TRUE]
    /\ UNCHANGED <<mutexVars, subs, buf, dropped, pubVars, labOf, gone, seen, from>>

\* select chose ctx.Done(): return, and the deferred unsub() starts.
Return(s) ==
    /\ gone[s]
    /\ Goto(s, "stream", "unlock")
    /\ UNCHANGED <<mutexVars, subs, buf, closed, dropped, pubVars, labOf, gone, seen, from>>

\* Mutant of Unregister: the lock is not given back.
UnregisterLocked(s) ==
    /\ Goto(s, "delete", "close")
    /\ subs' = [subs EXCEPT ![labOf[s]] = @ \ {s}]
    /\ UNCHANGED <<mutexVars, buf, closed, dropped, pubVars, labOf, gone, seen, from>>

\* delete(set, ch); Unlock.
Unregister(s) ==
    /\ Goto(s, "delete", "close")
    /\ subs' = [subs EXCEPT ![labOf[s]] = @ \ {s}]
    /\ Unlock(s)
    /\ UNCHANGED <<buf, closed, dropped, pubVars, labOf, gone, seen, from>>

\* close(ch), after the unlock.
Close(s) ==
    /\ Goto(s, "close", "done")
    /\ closed' = [closed EXCEPT ![s] = TRUE]
    /\ UNCHANGED <<mutexVars, subs, buf, dropped, pubVars, labOf, gone, seen, from>>

-----------------------------------------------------------------------------

PublisherNext(p) ==
    \/ Publish(p) \/ StartFanout(p) \/ EndPublish(p)
    \/ \E s \in Sessions : Send(p, s) \/ Drop(p, s)

LockStep(s) == LockAnnounce(s) \/ LockAcquire(s) \/ Register(s) \/ Unregister(s)

SessionNext(s) ==
    \/ Reject(s) \/ Subscribe(s) \/ LockStep(s) \/ Receive(s) \/ Ping(s)
    \/ Flush(s) \/ ClientGone(s) \/ Return(s) \/ Close(s)

Next ==
    \/ \E p \in Publishers : PublisherNext(p)
    \/ \E s \in Sessions : SessionNext(s)

Spec == Init /\ [][Next]_vars

\* Goroutines are scheduled, a Lock that waits is served (sync.Mutex hands over
\* to waiters), and select chooses at random among ready cases: a case that is
\* ready again and again is chosen.  Nobody makes a client read or leave, and
\* nobody makes a watch loop have another event.
Fairness ==
    /\ \A p \in Publishers :
          /\ WF_vars(StartFanout(p) \/ EndPublish(p))
          /\ WF_vars(\E s \in Sessions : Send(p, s) \/ Drop(p, s))
    /\ \A s \in Sessions :
          /\ SF_vars(LockAnnounce(s))
          /\ WF_vars(LockAcquire(s) \/ Register(s) \/ Unregister(s))
          /\ WF_vars(Close(s))
          /\ WF_vars(gone[s] /\ Flush(s))
          /\ SF_vars(Return(s))

FairSpec == Spec /\ Fairness

-----------------------------------------------------------------------------
(* What is promised                                                        *)

Registered(s) == s \in subs[labOf[s]]

\* Everything put on the channel of s so far, taken off or not.
Stream(s) == seen[s] \o buf[s]

\* The numbers of the events of p that s was handed or has lost.
Accounted(s, p) ==
    {Stream(s)[i].n : i \in {j \in DOMAIN Stream(s) : Stream(s)[j].pub = p}}
    \cup {e.n : e \in {d \in dropped[s] : d.pub = p}}

\* The read and the write side exclude each other: the subscriber map is not
\* written while a publisher ranges over it (a Go map would crash the server),
\* and what a publisher still has to visit is registered.
MapIsStable ==
    /\ \A p \in Publishers : ppc[p] = "fanout" =>
          /\ p \in readers /\ ~writing
          /\ todo[p] \subseteq subs[PubLab[p]]
    /\ \A s \in Sessions : spc[s] \in {"add", "delete"} => owner = s /\ writing

\* No publisher is about to send on a closed channel, which panics in Go even
\* inside a select with a default: unsub closes after the delete.
NoSendOnClosed ==
    \A p \in Publishers : \A s \in todo[p] : ~closed[s]

\* Nothing is lost silently, doubled or delivered across labs: of every
\* publisher of its lab a registered session was handed or lost exactly the
\* events begun since it registered, but for one the publisher is still to
\* offer; of any other publisher it was handed nothing.
NothingLostSilently ==
    \A s \in Sessions, p \in Publishers : Registered(s) =>
        Accounted(s, p) =
            IF PubLab[p] # labOf[s] THEN {}
            ELSE {n \in from[s][p] + 1 .. sent[p] : s \in todo[p] => n # sent[p]}

\* The events of one publisher reach a session in the order it published them,
\* each at most once, across drops and whatever other publishers interleave.
InOrder ==
    \A s \in Sessions : \A i, j \in DOMAIN Stream(s) :
        i < j /\ Stream(s)[i].pub = Stream(s)[j].pub
            => Stream(s)[i].n < Stream(s)[j].n

\* The buffer bounds the loss: a session loses an event only after it was
\* handed a full buffer of them, and never has more than Cap waiting.
LossNeedsBacklog ==
    \A s \in Sessions :
        /\ Len(buf[s]) <= Cap
        /\ dropped[s] # {} => Len(Stream(s)) >= Cap

\* Publishing never waits for a subscriber: with every client stalled and every
\* session stuck in its write, each Publish still returns.
PublishReturns == \A p \in Publishers : ppc[p] # "idle" ~> ppc[p] = "idle"

\* A request whose client went away after it subscribed gives its channel back.
GoneIsReleased ==
    \A s \in Sessions : gone[s] /\ spc[s] # "start" ~> spc[s] = "done"

\* The hub implements the lossy feed a lab's page relies on.
Membership(s) ==
    CASE spc[s] \in {"start", "lock", "locking", "add"} -> "out"
      [] spc[s] \in {"write", "stream", "unlock", "unlocking", "delete"} -> "in"
      [] OTHER -> "left"

Feed == INSTANCE LabFeed
            WITH published <- sent,
                 member    <- [s \in Sessions |-> Membership(s)],
                 lab       <- labOf,
                 horizon   <- from,
                 feed      <- seen

\* Every behaviour of the hub is one of LabFeed: what a session takes off its
\* channel was published in its lab after it registered, in order and once.
FeedSpec == Feed!Spec

=============================================================================
