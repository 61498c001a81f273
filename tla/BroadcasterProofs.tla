------------------------- MODULE BroadcasterProofs -------------------------
(***************************************************************************)
(* For every number of labs, publishers, sessions, buffer capacity and     *)
(* event bound: the hub keeps its types, never writes the subscriber map   *)
(* under a reader, never sends on a closed channel, hands each session the *)
(* events of a publisher in order, and implements LabFeed: every step of   *)
(* its locks, range loops, buffers and handlers is a step of the feed or   *)
(* changes nothing the feed shows.                                         *)
(***************************************************************************)
EXTENDS Broadcaster, TLAPS

-----------------------------------------------------------------------------
(* Types                                                                   *)

\* The initial state has the declared shape.
LEMMA InitTypeOK == Init => TypeOK
<1> SUFFICES ASSUME Init PROVE TypeOK
  OBVIOUS
<1> USE BroadcasterAssumption
<1>1. MutexType(Sessions, Publishers)
  BY DEF Init, MutexInit, MutexType
<1>2. /\ subs \in [Labs -> SUBSET Sessions]
      /\ buf \in [Sessions -> Seq(Event)]
      /\ seen \in [Sessions -> Seq(Event)]
      /\ todo \in [Publishers -> SUBSET Sessions]
      /\ dropped \in [Sessions -> SUBSET Event]
  BY DEF Init
<1>3. /\ closed \in [Sessions -> BOOLEAN]
      /\ gone \in [Sessions -> BOOLEAN]
      /\ ppc \in [Publishers -> PubState]
      /\ spc \in [Sessions -> SessState]
      /\ labOf \in [Sessions -> Labs]
  BY DEF Init, PubState, SessState
<1>4. /\ sent \in [Publishers -> Nat]
      /\ from \in [Sessions -> [Publishers -> Nat]]
  BY DEF Init
<1>5. LockHolders
  BY DEF Init, MutexInit, LockHolders
<1> QED
  BY <1>1, <1>2, <1>3, <1>4, <1>5 DEF TypeOK

\* Every step of a publisher keeps the shape.
LEMMA PublisherTypeOK ==
    ASSUME TypeOK, NEW p \in Publishers, PublisherNext(p) PROVE TypeOK'
<1> USE BroadcasterAssumption
    DEF TypeOK, LockHolders, MutexType, sessVars, pubVars, mutexVars
<1>1. CASE Publish(p)
  BY <1>1 DEF Publish, RLock, PubState
<1>2. CASE StartFanout(p)
  BY <1>2 DEF StartFanout, PubState
<1>3. CASE EndPublish(p)
  BY <1>3 DEF EndPublish, RUnlock, PubState
<1>4. ASSUME NEW s \in Sessions, Send(p, s) PROVE TypeOK'
  BY <1>4 DEF Send, Current, Event
<1>5. ASSUME NEW s \in Sessions, Drop(p, s) PROVE TypeOK'
  <2>1. Current(p) \in Event
    BY DEF Current, Event
  <2>2. dropped' \in [Sessions -> SUBSET Event]
    BY <1>5, <2>1 DEF Drop
  <2>3. todo' \in [Publishers -> SUBSET Sessions]
    BY <1>5 DEF Drop
  <2> QED
    BY <1>5, <2>2, <2>3 DEF Drop
<1> QED
  BY <1>1, <1>2, <1>3, <1>4, <1>5 DEF PublisherNext

\* Every step of a session keeps the shape.
LEMMA SessionTypeOK ==
    ASSUME TypeOK, NEW s \in Sessions, SessionNext(s) PROVE TypeOK'
<1> USE DEF TypeOK, LockHolders, MutexType, sessVars, pubVars, mutexVars, Goto
<1>1. CASE Reject(s) \/ Subscribe(s) \/ Ping(s) \/ Flush(s) \/ Return(s)
  BY <1>1 DEF Reject, Subscribe, Ping, Flush, Return, SessState
<1>2. CASE LockAnnounce(s)
  BY <1>2 DEF LockAnnounce, Announce, SessState
<1>3. CASE LockAcquire(s)
  BY <1>3 DEF LockAcquire, Acquire, SessState
<1>4. CASE Register(s)
  BY <1>4 DEF Register, Unlock, SessState
<1>5. CASE Unregister(s)
  BY <1>5 DEF Unregister, Unlock, SessState
<1>6. CASE Receive(s)
  BY <1>6 DEF Receive, SessState
<1>7. CASE ClientGone(s)
  BY <1>7 DEF ClientGone
<1>8. CASE Close(s)
  BY <1>8 DEF Close, SessState
<1> QED
  BY <1>1, <1>2, <1>3, <1>4, <1>5, <1>6, <1>7, <1>8 DEF SessionNext, LockStep

\* The state of the hub keeps its shape: every queue holds events only, every
\* lock set holds the goroutines that may take that side of the lock.
THEOREM TypeCorrect == Spec => []TypeOK
<1>1. TypeOK /\ [Next]_vars => TypeOK'
  <2> SUFFICES ASSUME TypeOK, [Next]_vars PROVE TypeOK'
    OBVIOUS
  <2>1. CASE UNCHANGED vars
    BY <2>1 DEF vars, mutexVars, pubVars, sessVars, TypeOK, LockHolders, MutexType
  <2> QED
    BY <2>1, PublisherTypeOK, SessionTypeOK DEF Next
<1> QED
  BY InitTypeOK, <1>1, PTL DEF Spec

-----------------------------------------------------------------------------
(* Locking                                                                 *)

\* Who owns the write side, and that it excludes the read side.
WriteSide ==
    /\ writing => owner # NoOwner /\ readers = {}
    /\ \A s \in Sessions :
          /\ spc[s] \in {"locking", "unlocking"} => owner = s
          /\ spc[s] \in {"add", "delete"} => owner = s /\ writing

\* A publisher has channels to visit only under its read lock, and only
\* channels that are registered.
ReadSide ==
    \A p \in Publishers :
       /\ ppc[p] = "fanout" => p \in readers /\ todo[p] \subseteq subs[PubLab[p]]
       /\ ppc[p] # "fanout" => todo[p] = {}

\* A channel is registered only in its own lab and only between Register and
\* Unregister; it is closed only after that.
Lifetime ==
    \A s \in Sessions :
       /\ \A l \in Labs : s \in subs[l] =>
             /\ l = labOf[s]
             /\ spc[s] \in {"write", "stream", "unlock", "unlocking", "delete"}
       /\ closed[s] => spc[s] = "done"

LockInv == TypeOK /\ WriteSide /\ ReadSide /\ Lifetime

\* A hub without subscribers and without a lock holder satisfies the invariant.
LEMMA InitLockInv == Init => LockInv
<1> SUFFICES ASSUME Init PROVE LockInv
  OBVIOUS
<1>1. WriteSide
  BY DEF Init, MutexInit, WriteSide
<1>2. ReadSide
  BY DEF Init, ReadSide
<1>3. Lifetime
  BY DEF Init, Lifetime
<1> QED
  BY InitTypeOK, <1>1, <1>2, <1>3 DEF LockInv

\* Every step of Publish keeps the locking invariant.
LEMMA PublisherLockInv ==
    ASSUME LockInv, NEW p \in Publishers, PublisherNext(p) PROVE LockInv'
<1>t. TypeOK /\ TypeOK'
  BY PublisherTypeOK DEF LockInv
<1> USE BroadcasterAssumption, <1>t
    DEF LockInv, TypeOK, MutexType, sessVars, pubVars, mutexVars
<1>w. UNCHANGED <<subs, closed, spc, labOf>> /\ Lifetime'
  BY DEF PublisherNext, Publish, StartFanout, EndPublish, Send, Drop, Lifetime
<1>1. CASE Publish(p)
  <2>1. WriteSide'
    BY <1>1 DEF Publish, RLock, WriteSide
  <2>2. ReadSide'
    BY <1>1 DEF Publish, RLock, ReadSide
  <2> QED
    BY <2>1, <2>2, <1>w
<1>2. CASE StartFanout(p)
  BY <1>2, <1>w DEF StartFanout, WriteSide, ReadSide
<1>3. CASE EndPublish(p)
  BY <1>3, <1>w DEF EndPublish, RUnlock, WriteSide, ReadSide
<1>4. ASSUME NEW s \in Sessions, Send(p, s) PROVE LockInv'
  BY <1>4, <1>w DEF Send, WriteSide, ReadSide
<1>5. ASSUME NEW s \in Sessions, Drop(p, s) PROVE LockInv'
  BY <1>5, <1>w DEF Drop, WriteSide, ReadSide
<1> QED
  BY <1>1, <1>2, <1>3, <1>4, <1>5 DEF PublisherNext

\* Every step of a request keeps it: of Subscribe, unsubscribe and handleSSE.
LEMMA SessionLockInv ==
    ASSUME LockInv, NEW s \in Sessions, SessionNext(s) PROVE LockInv'
<1>t. TypeOK /\ TypeOK'
  BY SessionTypeOK DEF LockInv
<1> USE BroadcasterAssumption, <1>t
    DEF LockInv, TypeOK, MutexType, sessVars, pubVars, mutexVars, Goto
<1>1. CASE Reject(s) \/ Subscribe(s) \/ Ping(s) \/ Flush(s) \/ Return(s)
  <2>1. UNCHANGED <<mutexVars, subs, closed, labOf, ppc, todo>>
    BY <1>1 DEF Reject, Subscribe, Ping, Flush, Return
  <2>2. WriteSide' /\ Lifetime'
    BY <1>1, <2>1 DEF Reject, Subscribe, Ping, Flush, Return, WriteSide, Lifetime
  <2> QED
    BY <2>1, <2>2 DEF ReadSide
<1>2. CASE LockAnnounce(s)
  <2>1. WriteSide'
    BY <1>2 DEF LockAnnounce, Announce, WriteSide
  <2>2. ReadSide'
    BY <1>2 DEF LockAnnounce, Announce, ReadSide
  <2>3. Lifetime'
    BY <1>2 DEF LockAnnounce, Lifetime, SessState
  <2> QED
    BY <2>1, <2>2, <2>3
<1>3. CASE LockAcquire(s)
  <2>1. WriteSide'
    BY <1>3 DEF LockAcquire, Acquire, WriteSide
  <2>2. ReadSide'
    BY <1>3 DEF LockAcquire, Acquire, ReadSide
  <2>3. Lifetime'
    BY <1>3 DEF LockAcquire, Lifetime
  <2> QED
    BY <2>1, <2>2, <2>3
<1>4. CASE Register(s)
  <2>1. \A p \in Publishers : ppc[p] # "fanout"
    BY <1>4 DEF Register, Unlock, WriteSide, ReadSide
  <2>2. WriteSide'
    BY <1>4 DEF Register, Unlock, WriteSide
  <2>3. ReadSide'
    BY <1>4, <2>1 DEF Register, Unlock, ReadSide
  <2>4. Lifetime'
    BY <1>4 DEF Register, Lifetime
  <2> QED
    BY <2>2, <2>3, <2>4
<1>5. CASE Unregister(s)
  <2>1. \A p \in Publishers : ppc[p] # "fanout"
    BY <1>5 DEF Unregister, Unlock, WriteSide, ReadSide
  <2>2. WriteSide'
    BY <1>5 DEF Unregister, Unlock, WriteSide
  <2>3. ReadSide'
    BY <1>5, <2>1 DEF Unregister, Unlock, ReadSide
  <2>4. Lifetime'
    BY <1>5 DEF Unregister, Lifetime
  <2> QED
    BY <2>2, <2>3, <2>4
<1>6. CASE Receive(s)
  BY <1>6 DEF Receive, WriteSide, ReadSide, Lifetime
<1>7. CASE ClientGone(s)
  BY <1>7 DEF ClientGone, WriteSide, ReadSide, Lifetime
<1>8. CASE Close(s)
  BY <1>8 DEF Close, WriteSide, ReadSide, Lifetime
<1> QED
  BY <1>1, <1>2, <1>3, <1>4, <1>5, <1>6, <1>7, <1>8 DEF SessionNext, LockStep

\* The locking discipline holds in every state of the hub.
LEMMA LockInvariant == Spec => []LockInv
<1>1. LockInv /\ [Next]_vars => LockInv'
  <2> SUFFICES ASSUME LockInv, [Next]_vars PROVE LockInv'
    OBVIOUS
  <2>1. CASE UNCHANGED vars
    BY <2>1 DEF vars, mutexVars, pubVars, sessVars, LockInv, TypeOK, LockHolders, MutexType,
                WriteSide, ReadSide, Lifetime
  <2> QED
    BY <2>1, PublisherLockInv, SessionLockInv DEF Next
<1> QED
  BY InitLockInv, <1>1, PTL DEF Spec

\* The subscriber map is never written while a publisher ranges over it.
THEOREM MapStability == Spec => []MapIsStable
<1>1. LockInv => MapIsStable
  BY DEF LockInv, WriteSide, ReadSide, MapIsStable, TypeOK
<1> QED
  BY LockInvariant, <1>1, PTL

\* No publisher ever sends on a closed channel, so no Publish panics.
THEOREM SendSafety == Spec => []NoSendOnClosed
<1>1. LockInv => NoSendOnClosed
  BY BroadcasterAssumption
     DEF LockInv, ReadSide, Lifetime, NoSendOnClosed, TypeOK
<1> QED
  BY LockInvariant, <1>1, PTL

-----------------------------------------------------------------------------
(* Order                                                                   *)

\* The events of one publisher stand in increasing order in q, and none is
\* later than the publisher's last one.
Ordered(q) ==
    \A i, j \in DOMAIN q : i < j /\ q[i].pub = q[j].pub => q[i].n < q[j].n

NotAhead(q, s) ==
    \A i \in DOMAIN q : \A p \in Publishers : q[i].pub = p =>
        q[i].n <= sent[p] /\ (s \in todo[p] => q[i].n < sent[p])

OrderInv ==
    \A s \in Sessions : Ordered(Stream(s)) /\ NotAhead(Stream(s), s)

\* Taking an element off one queue and adding it to the other moves nothing.
LEMMA MoveHead ==
    ASSUME NEW E, NEW a \in Seq(E), NEW b \in Seq(E), b # <<>>
    PROVE  Append(a, Head(b)) \o Tail(b) = a \o b
OBVIOUS

\* Appending to the second part of a stream appends to the stream.
LEMMA AppendRight ==
    ASSUME NEW E, NEW a \in Seq(E), NEW b \in Seq(E), NEW e \in E
    PROVE  a \o Append(b, e) = Append(a \o b, e)
OBVIOUS

\* A sequence stays ordered when something newer than all of it is appended.
LEMMA OrderedAppend ==
    ASSUME NEW q \in Seq(Event), Ordered(q), NEW e \in Event,
           \A i \in DOMAIN q : q[i].pub = e.pub => q[i].n < e.n
    PROVE  Ordered(Append(q, e))
BY DEF Ordered, Event

\* What was put on a channel is a sequence of events.
LEMMA StreamType == TypeOK => \A s \in Sessions : Stream(s) \in Seq(Event)
BY DEF TypeOK, Stream

\* An element of a sequence of events is an event.
LEMMA StreamElement ==
    ASSUME NEW q \in Seq(Event), NEW i \in DOMAIN q PROVE q[i].n \in Nat
<1>1. q[i] \in Event
  OBVIOUS
<1> QED
  BY <1>1 DEF Event

OrderIInv == TypeOK /\ OrderInv

\* Nothing has been put on any channel at first.
LEMMA InitOrder == Init => OrderInv
<1> SUFFICES ASSUME Init, NEW s \in Sessions PROVE Stream(s) = <<>>
  BY DEF OrderInv, Ordered, NotAhead
<1> QED
  BY DEF Init, Stream

\* A send appends an event that is newer than all its publisher's before.
LEMMA SendOrder ==
    ASSUME OrderIInv, NEW p \in Publishers, NEW s \in Sessions, Send(p, s)
    PROVE  OrderInv'
<1> DEFINE e == Current(p)
<1>1. e \in Event /\ e.pub = p /\ e.n = sent[p]
  BY DEF OrderIInv, TypeOK, Current, Event
<1>0. buf' = [buf EXCEPT ![s] = Append(@, e)]
  BY DEF Send
<1> HIDE DEF e
<1>2. Stream(s)' = Append(Stream(s), e)
  <2>1. seen[s]' = seen[s] /\ buf[s]' = Append(buf[s], e)
    BY <1>0 DEF Send, OrderIInv, TypeOK, sessVars
  <2>2. seen[s] \in Seq(Event) /\ buf[s] \in Seq(Event)
    BY DEF OrderIInv, TypeOK
  <2>3. seen[s] \o Append(buf[s], e) = Append(seen[s] \o buf[s], e)
    <3> DEFINE a == seen[s]
               b == buf[s]
    <3>1. a \in Seq(Event) /\ b \in Seq(Event) /\ e \in Event
      BY <1>1, <2>2
    <3> HIDE DEF a, b
    <3>2. a \o Append(b, e) = Append(a \o b, e)
      BY <3>1, AppendRight
    <3> QED
      BY <3>2 DEF a, b
  <2> QED
    BY <2>1, <2>3 DEF Stream
<1>3. \A t \in Sessions \ {s} : Stream(t)' = Stream(t)
  BY DEF Send, OrderIInv, TypeOK, sessVars, Stream
<1>4. Stream(s) \in Seq(Event)
  BY StreamType DEF OrderIInv
<1>5. Ordered(Stream(s)) /\ NotAhead(Stream(s), s) /\ s \in todo[p]
  BY DEF OrderIInv, OrderInv, Send
<1>6. Ordered(Stream(s)')
  <2>1. \A i \in DOMAIN Stream(s) : Stream(s)[i].pub = e.pub => Stream(s)[i].n < e.n
    BY <1>1, <1>5 DEF NotAhead
  <2> QED
    BY <1>1, <1>2, <1>4, <1>5, <2>1, OrderedAppend
<1>7. sent' = sent /\ \A t \in Sessions, r \in Publishers :
          t \in todo'[r] => t \in todo[r] /\ (r = p => t # s)
  BY DEF Send, OrderIInv, TypeOK
<1>8. NotAhead(Stream(s), s)'
  <2>1. SUFFICES ASSUME NEW i \in DOMAIN Append(Stream(s), e), NEW r \in Publishers,
                        Append(Stream(s), e)[i].pub = r
                 PROVE  /\ Append(Stream(s), e)[i].n <= sent[r]
                        /\ s \in todo'[r] => Append(Stream(s), e)[i].n < sent[r]
    BY <1>2, <1>7 DEF NotAhead
  <2>2. CASE i \in DOMAIN Stream(s)
    <3>1. Append(Stream(s), e)[i] = Stream(s)[i]
      BY <1>1, <1>4, <2>2
    <3> QED
      BY <1>5, <1>7, <2>1, <2>2, <3>1 DEF NotAhead
  <2>3. CASE i \notin DOMAIN Stream(s)
    <3>1. Append(Stream(s), e)[i] = e
      BY <1>1, <1>4, <2>3
    <3>2. sent[p] \in Nat
      BY DEF OrderIInv, TypeOK
    <3> QED
      BY <1>1, <1>7, <2>1, <3>1, <3>2
  <2> QED
    BY <2>2, <2>3
<1>9. ASSUME NEW t \in Sessions \ {s} PROVE Ordered(Stream(t)') /\ NotAhead(Stream(t), t)'
  BY <1>3, <1>7, <1>9 DEF NotAhead, OrderIInv, OrderInv
<1> QED
  BY <1>6, <1>8, <1>9 DEF OrderInv, Ordered

\* A step that moves no stream and no publisher keeps the order.
LEMMA QuietOrder ==
    ASSUME OrderIInv,
           \A s \in Sessions : Stream(s)' = Stream(s),
           sent' = sent,
           \A p \in Publishers : todo'[p] \subseteq todo[p]
    PROVE  OrderInv'
BY DEF OrderIInv, OrderInv, Ordered, NotAhead

\* Every step of the hub keeps all streams ordered and behind their publishers.
LEMMA StepOrder == OrderIInv /\ [Next]_vars => OrderInv'
<1> SUFFICES ASSUME OrderIInv, [Next]_vars PROVE OrderInv'
  OBVIOUS
<1> USE DEF sessVars, pubVars, mutexVars
<1>1. CASE UNCHANGED vars
  BY <1>1, QuietOrder DEF vars, Stream
<1>2. ASSUME NEW p \in Publishers, PublisherNext(p) PROVE OrderInv'
  <2>1. CASE Publish(p) \/ EndPublish(p)
    BY <2>1, QuietOrder DEF Publish, EndPublish, Stream
  <2>2. CASE StartFanout(p)
    <3>1. \A s \in Sessions : Stream(s)' = Stream(s)
      BY <2>2 DEF StartFanout, Stream
    <3>2. \A r \in Publishers : r # p => sent'[r] = sent[r] /\ todo'[r] = todo[r]
      BY <2>2 DEF StartFanout, OrderIInv, TypeOK
    <3>3. sent'[p] = sent[p] + 1 /\ sent[p] \in Nat
      BY <2>2 DEF StartFanout, OrderIInv, TypeOK
    <3>4. ASSUME NEW s \in Sessions PROVE NotAhead(Stream(s), s)'
      <4>1. Stream(s) \in Seq(Event) /\ NotAhead(Stream(s), s)
        BY StreamType DEF OrderIInv, OrderInv
      <4>2. SUFFICES ASSUME NEW i \in DOMAIN Stream(s), NEW r \in Publishers,
                            Stream(s)[i].pub = r
                     PROVE  /\ Stream(s)[i].n <= sent'[r]
                            /\ s \in todo'[r] => Stream(s)[i].n < sent'[r]
        BY <3>1 DEF NotAhead
      <4>3. Stream(s)[i].n \in Nat
        BY <4>1, StreamElement
      <4>4. Stream(s)[i].n <= sent[r] /\ (s \in todo[r] => Stream(s)[i].n < sent[r])
        BY <4>1, <4>2 DEF NotAhead
      <4> QED
        BY <3>2, <3>3, <4>3, <4>4
    <3> QED
      BY <3>1, <3>4 DEF OrderIInv, OrderInv, Ordered
  <2>3. ASSUME NEW s \in Sessions, Send(p, s) PROVE OrderInv'
    BY <2>3, SendOrder
  <2>4. ASSUME NEW s \in Sessions, Drop(p, s) PROVE OrderInv'
    BY <2>4, QuietOrder DEF Drop, Stream, OrderIInv, TypeOK
  <2> QED
    BY <1>2, <2>1, <2>2, <2>3, <2>4 DEF PublisherNext
<1>3. ASSUME NEW s \in Sessions, SessionNext(s) PROVE OrderInv'
  <2>1. CASE Receive(s)
    <3>1. Stream(s)' = Stream(s)
      <4>1. seen[s] \in Seq(Event) /\ buf[s] \in Seq(Event) /\ buf[s] # <<>>
        BY <2>1 DEF Receive, OrderIInv, TypeOK
      <4>2. seen'[s] = Append(seen[s], Head(buf[s])) /\ buf'[s] = Tail(buf[s])
        BY <2>1 DEF Receive, OrderIInv, TypeOK
      <4> QED
        BY <4>1, <4>2, MoveHead DEF Stream
    <3>2. \A t \in Sessions \ {s} : Stream(t)' = Stream(t)
      BY <2>1 DEF Receive, Stream, OrderIInv, TypeOK
    <3> QED
      BY <2>1, <3>1, <3>2, QuietOrder DEF Receive
  <2>2. CASE ~Receive(s)
    <3>1. UNCHANGED <<seen, buf, sent, todo>>
      BY <1>3, <2>2 DEF SessionNext, LockStep, Reject, Subscribe, LockAnnounce,
           LockAcquire, Register, Unregister, Ping, Flush, ClientGone, Return, Close
    <3> QED
      BY <3>1, QuietOrder DEF Stream
  <2> QED
    BY <2>1, <2>2
<1> QED
  BY <1>1, <1>2, <1>3 DEF Next

\* The events of one publisher reach each session in order, at most once.
THEOREM PublicationOrder == Spec => []InOrder
<1>1. Init => OrderIInv
  BY InitTypeOK, InitOrder DEF OrderIInv
<1>2. OrderIInv /\ TypeOK' /\ [Next]_vars => OrderIInv'
  BY StepOrder DEF OrderIInv
<1>3. OrderIInv => InOrder
  BY DEF OrderIInv, OrderInv, Ordered, InOrder
<1> QED
  BY <1>1, <1>2, <1>3, TypeCorrect, PTL DEF Spec

-----------------------------------------------------------------------------
(* Loss                                                                    *)

\* A buffer within its capacity, and a full one's worth of events behind every
\* loss: counted as what was taken off plus what waits, which no step lowers.
Backlog(s) ==
    /\ Len(buf[s]) <= Cap
    /\ dropped[s] # {} => Len(seen[s]) + Len(buf[s]) >= Cap

BacklogInv == \A s \in Sessions : Backlog(s)

\* The length of a stream is the sum of its two parts.
LEMMA StreamLength ==
    ASSUME TypeOK, NEW s \in Sessions
    PROVE  Len(Stream(s)) = Len(seen[s]) + Len(buf[s])
<1>1. seen[s] \in Seq(Event) /\ buf[s] \in Seq(Event)
  BY DEF TypeOK
<1> QED
  BY <1>1 DEF Stream

\* The arithmetic of the count, over plain numbers: a send adds one to what
\* waits, a receive moves one, a drop finds the buffer full.
LEMMA BacklogArithmetic ==
    ASSUME NEW c \in Nat, NEW b \in Nat, NEW q \in Nat
    PROVE  /\ b < c => b + 1 <= c
           /\ b <= c => b - 1 <= c
           /\ q + b >= c => q + (b + 1) >= c /\ (q + 1) + (b - 1) >= c
           /\ b >= c => q + b >= c
OBVIOUS

\* Every step of the hub keeps the bound and the count.
LEMMA StepBacklog == TypeOK /\ BacklogInv /\ [Next]_vars => BacklogInv'
<1> SUFFICES ASSUME TypeOK, BacklogInv, [Next]_vars PROVE BacklogInv'
  OBVIOUS
<1>s. \A s \in Sessions : Backlog(s)
  BY DEF BacklogInv
<1>t. \A s \in Sessions : /\ buf[s] \in Seq(Event) /\ seen[s] \in Seq(Event)
                          /\ Len(buf[s]) \in Nat /\ Len(seen[s]) \in Nat
  BY DEF TypeOK
<1>c. Cap \in Nat
  BY BroadcasterAssumption
<1>1. ASSUME UNCHANGED <<buf, seen, dropped>> PROVE BacklogInv'
  BY <1>1 DEF Backlog, BacklogInv
<1>2. ASSUME NEW p \in Publishers, NEW s \in Sessions, Send(p, s) PROVE BacklogInv'
  <2>1. /\ buf' = [buf EXCEPT ![s] = Append(@, Current(p))]
        /\ Len(buf[s]) < Cap /\ UNCHANGED <<seen, dropped>>
    BY <1>2 DEF Send, sessVars
  <2>2. Current(p) \in Event
    BY DEF TypeOK, Current, Event
  <2>3. buf'[s] = Append(buf[s], Current(p))
        /\ \A r \in Sessions \ {s} : buf'[r] = buf[r]
    BY <2>1 DEF TypeOK
  <2>4. Len(buf'[s]) = Len(buf[s]) + 1
    BY <1>t, <2>2, <2>3
  <2>5. Backlog(s)'
    BY <1>t, <1>s, <1>c, <2>1, <2>4, BacklogArithmetic DEF Backlog
  <2>6. ASSUME NEW r \in Sessions \ {s} PROVE Backlog(r)'
    BY <2>1, <2>3 DEF Backlog, BacklogInv
  <2> QED
    BY <2>5, <2>6 DEF BacklogInv
<1>3. ASSUME NEW p \in Publishers, NEW s \in Sessions, Drop(p, s) PROVE BacklogInv'
  <2>1. /\ Len(buf[s]) >= Cap /\ UNCHANGED <<buf, seen>>
        /\ \A r \in Sessions \ {s} : dropped'[r] = dropped[r]
    BY <1>3 DEF Drop, sessVars, TypeOK
  <2>2. Backlog(s)'
    BY <1>t, <1>s, <1>c, <2>1, BacklogArithmetic DEF Backlog
  <2>3. ASSUME NEW r \in Sessions \ {s} PROVE Backlog(r)'
    BY <2>1 DEF Backlog, BacklogInv
  <2> QED
    BY <2>2, <2>3 DEF BacklogInv
<1>4. ASSUME NEW s \in Sessions, Receive(s) PROVE BacklogInv'
  <2>1. /\ buf[s] # <<>> /\ buf'[s] = Tail(buf[s])
        /\ seen'[s] = Append(seen[s], Head(buf[s])) /\ dropped' = dropped
        /\ \A r \in Sessions \ {s} : buf'[r] = buf[r] /\ seen'[r] = seen[r]
    BY <1>4 DEF Receive, TypeOK
  <2>2. Len(buf'[s]) = Len(buf[s]) - 1 /\ Len(seen'[s]) = Len(seen[s]) + 1
    BY <1>t, <2>1
  <2>3. Backlog(s)'
    <3>1. /\ Len(buf[s]) \in Nat /\ Len(seen[s]) \in Nat /\ Cap \in Nat
          /\ Len(buf[s]) <= Cap
          /\ dropped[s] # {} => Len(seen[s]) + Len(buf[s]) >= Cap
      BY <1>t, <1>s, <1>c DEF Backlog
    <3>2. Len(buf[s]) - 1 <= Cap
      BY <3>1, BacklogArithmetic
    <3>3. dropped[s] # {} => (Len(seen[s]) + 1) + (Len(buf[s]) - 1) >= Cap
      BY <3>1, BacklogArithmetic
    <3> QED
      BY <2>1, <2>2, <3>2, <3>3, Zenon DEF Backlog
  <2>4. ASSUME NEW r \in Sessions \ {s} PROVE Backlog(r)'
    BY <2>1 DEF Backlog, BacklogInv
  <2> QED
    BY <2>3, <2>4 DEF BacklogInv
<1>5. CASE UNCHANGED vars
  BY <1>1, <1>5 DEF vars, sessVars
<1>6. ASSUME NEW p \in Publishers, PublisherNext(p) PROVE BacklogInv'
  <2>1. CASE Publish(p) \/ StartFanout(p) \/ EndPublish(p)
    BY <1>1, <2>1 DEF Publish, StartFanout, EndPublish, sessVars
  <2> QED
    BY <1>2, <1>3, <1>6, <2>1 DEF PublisherNext
<1>7. ASSUME NEW s \in Sessions, SessionNext(s) PROVE BacklogInv'
  <2>1. CASE ~Receive(s)
    <3>1. UNCHANGED <<buf, seen, dropped>>
      BY <1>7, <2>1 DEF SessionNext, LockStep, Reject, Subscribe, LockAnnounce,
           LockAcquire, Register, Unregister, Ping, Flush, ClientGone, Return, Close
    <3> QED
      BY <1>1, <3>1
  <2> QED
    BY <1>4, <2>1
<1> QED
  BY <1>5, <1>6, <1>7 DEF Next

\* A session that loses an event was handed a full buffer of them before, and
\* never more than Cap wait for it.
THEOREM BoundedLoss == Spec => []LossNeedsBacklog
<1>1. Init => BacklogInv
  BY BroadcasterAssumption DEF Init, Backlog, BacklogInv
<1>2. TypeOK /\ BacklogInv => LossNeedsBacklog
  BY StreamLength DEF Backlog, BacklogInv, LossNeedsBacklog
<1> QED
  BY <1>1, <1>2, StepBacklog, TypeCorrect, PTL DEF Spec

-----------------------------------------------------------------------------
(* Where the events of a channel come from                                 *)

Unregistered == {"start", "lock", "locking", "add"}

\* q holds events of the lab of s, begun after s registered.
Own(q, s) ==
    \A i \in DOMAIN q :
       PubLab[q[i].pub] = labOf[s] /\ from[s][q[i].pub] < q[i].n

\* The events s still waits for or is about to be offered are its own, and it
\* has none before it registers.
Origin(s) ==
    /\ \A p \in Publishers :
          /\ from[s][p] <= sent[p]
          /\ s \in todo[p] => PubLab[p] = labOf[s] /\ from[s][p] < sent[p]
    /\ Own(buf[s], s)
    /\ spc[s] \in Unregistered => buf[s] = <<>>

OriginInv == \A s \in Sessions : Origin(s)

FeedInv == LockInv /\ OrderInv /\ OriginInv

\* At first nothing waits and nothing was published.
LEMMA InitOrigin == Init => OriginInv
<1> SUFFICES ASSUME Init, NEW s \in Sessions PROVE Origin(s)
  BY DEF OriginInv
<1>1. buf[s] = <<>> /\ \A p \in Publishers : todo[p] = {} /\ sent[p] = 0 /\ from[s][p] = 0
  BY DEF Init
<1> QED
  BY <1>1 DEF Origin, Own

\* A queue stays one session's own when one more of its events is appended.
LEMMA OwnAppend ==
    ASSUME NEW q \in Seq(Event), NEW s \in Sessions, NEW e \in Event, Own(q, s),
           PubLab[e.pub] = labOf[s], from[s][e.pub] < e.n
    PROVE  Own(Append(q, e), s)
BY DEF Own

\* It stays so when its head is taken off.
LEMMA OwnTail ==
    ASSUME NEW q \in Seq(Event), q # <<>>, NEW s \in Sessions, Own(q, s)
    PROVE  /\ Own(Tail(q), s)
           /\ Head(q) \in Event
           /\ PubLab[Head(q).pub] = labOf[s] /\ from[s][Head(q).pub] < Head(q).n
<1>1. 1 \in DOMAIN q /\ Head(q) = q[1] /\ Head(q) \in Event
  OBVIOUS
<1>2. \A i \in DOMAIN Tail(q) : i + 1 \in DOMAIN q /\ Tail(q)[i] = q[i + 1]
  OBVIOUS
<1> QED
  BY <1>1, <1>2 DEF Own

\* A step that changes none of this for r keeps the origin of its events.
LEMMA QuietOrigin ==
    ASSUME NEW r \in Sessions, Origin(r), buf'[r] = buf[r], from'[r] = from[r],
           labOf' = labOf, sent' = sent, todo' = todo,
           spc'[r] \in Unregistered => spc[r] \in Unregistered
    PROVE  Origin(r)'
BY DEF Origin, Own

\* Every step of Publish keeps it.
LEMMA PublisherOrigin ==
    ASSUME LockInv, OriginInv, NEW p \in Publishers, PublisherNext(p)
    PROVE  OriginInv'
<1>t. TypeOK
  BY DEF LockInv
<1> USE DEF sessVars
<1>1. CASE Publish(p) \/ EndPublish(p)
  BY <1>1, QuietOrigin DEF Publish, EndPublish, OriginInv
<1>2. CASE StartFanout(p)
  <2>1. /\ todo' = [todo EXCEPT ![p] = subs[PubLab[p]]]
        /\ sent' = [sent EXCEPT ![p] = @ + 1]
        /\ UNCHANGED <<subs, buf, sessVars>>
    BY <1>2 DEF StartFanout
  <2>2. PubLab[p] \in Labs /\ sent[p] \in Nat
    BY <1>t, BroadcasterAssumption DEF TypeOK
  <2>3. SUFFICES ASSUME NEW s \in Sessions PROVE Origin(s)'
    BY DEF OriginInv
  <2>4. Origin(s)
    BY DEF OriginInv
  <2>5. ASSUME NEW r \in Publishers
        PROVE  /\ from'[s][r] <= sent'[r]
               /\ s \in todo'[r] => PubLab[r] = labOf'[s] /\ from'[s][r] < sent'[r]
    <3>1. from[s][r] \in Nat /\ sent[r] \in Nat /\ from[s][r] <= sent[r]
      BY <1>t, <2>4 DEF TypeOK, Origin
    <3>2. CASE r = p
      <4>1. sent'[r] = sent[r] + 1 /\ todo'[r] = subs[PubLab[r]]
        BY <1>t, <2>1, <3>2 DEF TypeOK
      <4>2. s \in subs[PubLab[r]] => PubLab[r] = labOf[s]
        BY <2>2, <3>2 DEF LockInv, Lifetime
      <4> QED
        BY <2>1, <3>1, <4>1, <4>2
    <3>3. CASE r # p
      BY <1>t, <2>1, <2>4, <3>3 DEF TypeOK, Origin
    <3> QED
      BY <3>2, <3>3
  <2> QED
    BY <2>1, <2>4, <2>5 DEF Origin, Own
<1>3. ASSUME NEW s \in Sessions, Send(p, s) PROVE OriginInv'
  <2>1. /\ buf' = [buf EXCEPT ![s] = Append(@, Current(p))]
        /\ \A r \in Publishers : todo'[r] \subseteq todo[r]
        /\ s \in todo[p] /\ ppc[p] = "fanout"
        /\ UNCHANGED <<sent, sessVars>>
    BY <1>t, <1>3 DEF Send, TypeOK
  <2>2. SUFFICES ASSUME NEW r \in Sessions PROVE Origin(r)'
    BY DEF OriginInv
  <2>3. Origin(r) /\ Origin(s)
    BY DEF OriginInv
  <2>4. Own(buf'[r], r) /\ (spc[r] \in Unregistered => buf'[r] = <<>>)
    <3>1. CASE r # s
      BY <1>t, <2>1, <2>3, <3>1 DEF TypeOK, Origin
    <3>2. CASE r = s
      <4>1. buf'[s] = Append(buf[s], Current(p)) /\ buf[s] \in Seq(Event)
        BY <1>t, <2>1 DEF TypeOK
      <4>2. Current(p) \in Event /\ Current(p).pub = p /\ Current(p).n = sent[p]
        BY <1>t DEF TypeOK, Current, Event
      <4>3. PubLab[p] = labOf[s] /\ from[s][p] < sent[p] /\ Own(buf[s], s)
        BY <2>1, <2>3 DEF Origin
      <4>4. Own(buf'[s], s)
        BY <4>1, <4>2, <4>3, OwnAppend
      <4>5. spc[s] \notin Unregistered
        BY <2>1, BroadcasterAssumption
           DEF LockInv, ReadSide, Lifetime, TypeOK, Unregistered
      <4> QED
        BY <3>2, <4>4, <4>5
    <3> QED
      BY <3>1, <3>2
  <2> QED
    BY <2>1, <2>3, <2>4 DEF Origin, Own
<1>4. ASSUME NEW s \in Sessions, Drop(p, s) PROVE OriginInv'
  <2>1. /\ \A r \in Publishers : todo'[r] \subseteq todo[r]
        /\ UNCHANGED <<sent, buf, sessVars>>
    BY <1>t, <1>4 DEF Drop, TypeOK
  <2> QED
    BY <2>1 DEF OriginInv, Origin, Own
<1> QED
  BY <1>1, <1>2, <1>3, <1>4 DEF PublisherNext

\* Every step of a request keeps it.  Registering does, because nobody is about
\* to send to a channel that is not in the map.
LEMMA SessionOrigin ==
    ASSUME LockInv, OriginInv, NEW s \in Sessions, SessionNext(s)
    PROVE  OriginInv'
<1>t. TypeOK
  BY DEF LockInv
<1> USE DEF pubVars, Goto
<1>1. CASE Register(s)
  <2>1. /\ spc[s] = "add" /\ spc' = [spc EXCEPT ![s] = "write"]
        /\ from' = [from EXCEPT ![s] = sent]
        /\ UNCHANGED <<buf, labOf, sent, todo>>
    BY <1>1 DEF Register
  <2>2. \A p \in Publishers : s \notin todo[p]
    BY <2>1, BroadcasterAssumption DEF LockInv, ReadSide, Lifetime, TypeOK
  <2>3. buf[s] = <<>>
    BY <2>1 DEF OriginInv, Origin, Unregistered
  <2>4. Origin(s)'
    <3>1. from'[s] = sent /\ buf'[s] = <<>>
      BY <1>t, <2>1, <2>3 DEF TypeOK
    <3>2. \A p \in Publishers : sent[p] \in Nat /\ s \notin todo'[p]
      BY <1>t, <2>1, <2>2 DEF TypeOK
    <3> QED
      BY <2>1, <3>1, <3>2 DEF Origin, Own
  <2>5. ASSUME NEW r \in Sessions \ {s} PROVE Origin(r)'
    BY <1>t, <2>1, QuietOrigin DEF OriginInv, TypeOK
  <2> QED
    BY <2>4, <2>5 DEF OriginInv
<1>2. CASE Receive(s)
  <2>1. /\ buf[s] # <<>> /\ buf' = [buf EXCEPT ![s] = Tail(@)]
        /\ spc[s] = "stream" /\ spc' = [spc EXCEPT ![s] = "write"]
        /\ UNCHANGED <<from, labOf, sent, todo>>
    BY <1>2 DEF Receive
  <2>2. Origin(s)'
    <3>1. buf'[s] = Tail(buf[s]) /\ buf[s] \in Seq(Event) /\ spc'[s] = "write"
      BY <1>t, <2>1 DEF TypeOK
    <3>2. Own(buf'[s], s)
      BY <2>1, <3>1, OwnTail DEF OriginInv, Origin
    <3> QED
      BY <2>1, <3>1, <3>2 DEF OriginInv, Origin, Own, Unregistered
  <2>3. ASSUME NEW r \in Sessions \ {s} PROVE Origin(r)'
    BY <1>t, <2>1, QuietOrigin DEF OriginInv, TypeOK
  <2> QED
    BY <2>2, <2>3 DEF OriginInv
<1>3. CASE ~Register(s) /\ ~Receive(s)
  <2>1. UNCHANGED <<buf, from, labOf, sent, todo>>
    BY <1>3 DEF SessionNext, LockStep, Reject, Subscribe, LockAnnounce,
       LockAcquire, Unregister, Ping, Flush, ClientGone, Return, Close
  <2>2. \A r \in Sessions : spc'[r] \in Unregistered => spc[r] \in Unregistered
    BY <1>t, <1>3 DEF SessionNext, LockStep, Reject, Subscribe, LockAnnounce,
       LockAcquire, Unregister, Ping, Flush, ClientGone, Return, Close,
       Unregistered, TypeOK
  <2> QED
    BY <2>1, <2>2, QuietOrigin DEF OriginInv
<1> QED
  BY <1>1, <1>2, <1>3

\* The queues, their order and their origin, in every state of the hub.
LEMMA FeedInvariant == Spec => []FeedInv
<1>1. Init => OrderInv /\ OriginInv
  BY InitOrder, InitOrigin
<1>2. LockInv /\ OrderInv /\ OriginInv /\ [Next]_vars => OrderInv' /\ OriginInv'
  <2> SUFFICES ASSUME LockInv, OrderInv, OriginInv, [Next]_vars
               PROVE  OrderInv' /\ OriginInv'
    OBVIOUS
  <2>1. OrderInv'
    BY StepOrder DEF OrderIInv, LockInv
  <2>2. CASE UNCHANGED vars
    BY <2>1, <2>2, QuietOrigin DEF vars, pubVars, sessVars, OriginInv
  <2> QED
    BY <2>1, <2>2, PublisherOrigin, SessionOrigin DEF Next
<1> QED
  BY <1>1, <1>2, LockInvariant, PTL DEF Spec, FeedInv

-----------------------------------------------------------------------------
(* Steps of the hub as steps of the feed                                   *)

Member == [s \in Sessions |-> Membership(s)]

\* A hub without events and members is a feed without them.
LEMMA FeedInit == Init => Feed!Init
BY DEF Init, Feed!Init, Membership

\* To begin a fan-out is to publish; nothing else of Publish shows.
LEMMA PublisherFeed ==
    ASSUME TypeOK, NEW p \in Publishers, PublisherNext(p)
    PROVE  [Feed!Next]_Feed!feedVars
<1> USE DEF sessVars
<1>1. UNCHANGED <<Member, labOf, from, seen>>
  BY DEF PublisherNext, Publish, StartFanout, EndPublish, Send, Drop, Member, Membership
<1>2. CASE StartFanout(p)
  <2>1. Feed!Emit(p)
    BY <1>1, <1>2 DEF StartFanout, Feed!Emit, Member
  <2> QED
    BY <2>1 DEF Feed!Next
<1>3. CASE ~StartFanout(p)
  <2>1. UNCHANGED sent
    BY <1>3 DEF PublisherNext, Publish, EndPublish, Send, Drop
  <2> QED
    BY <1>1, <2>1 DEF Feed!feedVars, Member
<1> QED
  BY <1>2, <1>3

\* The head of the second part of a stream comes right after all of the first.
LEMMA NextOfTwo ==
    ASSUME NEW E, NEW a \in Seq(E), NEW b \in Seq(E), b # <<>>
    PROVE  LET k == Len(a) + 1
           IN  /\ k \in DOMAIN (a \o b) /\ (a \o b)[k] = Head(b)
               /\ \A i \in DOMAIN a : i \in DOMAIN (a \o b) /\ i < k /\ (a \o b)[i] = a[i]
<1>1. Len(a) \in Nat /\ Len(b) \in Nat /\ Len(b) > 0 /\ Head(b) = b[1]
  OBVIOUS
<1>2. Len(a \o b) = Len(a) + Len(b) /\ DOMAIN (a \o b) = 1 .. Len(a) + Len(b)
  OBVIOUS
<1>3. (a \o b)[Len(a) + 1] = b[1]
  BY <1>1, <1>2
<1>4. \A i \in DOMAIN a : (a \o b)[i] = a[i] /\ i \in 1 .. Len(a)
  OBVIOUS
<1> QED
  BY <1>1, <1>2, <1>3, <1>4

\* What a session takes off its channel is fresh for it.
LEMMA ReceiveFeed ==
    ASSUME FeedInv, NEW s \in Sessions, Receive(s)
    PROVE  [Feed!Next]_Feed!feedVars
<1> DEFINE e == Head(buf[s])
<1>t. TypeOK
  BY DEF FeedInv, LockInv
<1>1. /\ buf[s] # <<>> /\ buf[s] \in Seq(Event) /\ seen[s] \in Seq(Event)
      /\ spc[s] = "stream" /\ spc' = [spc EXCEPT ![s] = "write"]
      /\ seen' = [seen EXCEPT ![s] = Append(@, e)]
      /\ UNCHANGED <<sent, labOf, from>>
  BY <1>t DEF Receive, Goto, TypeOK, pubVars
<1>2. e \in Event /\ PubLab[e.pub] = labOf[s] /\ from[s][e.pub] < e.n
  BY <1>1, OwnTail DEF FeedInv, OriginInv, Origin
<1>3. e.pub \in Publishers /\ e.n \in Nat /\ e = [pub |-> e.pub, n |-> e.n]
  BY <1>2 DEF Event
<1>4. LET k == Len(seen[s]) + 1
      IN  /\ k \in DOMAIN Stream(s) /\ Stream(s)[k] = e
          /\ \A i \in DOMAIN seen[s] :
                i \in DOMAIN Stream(s) /\ i < k /\ Stream(s)[i] = seen[s][i]
  <2> DEFINE a == seen[s]
             b == buf[s]
  <2>1. a \in Seq(Event) /\ b \in Seq(Event) /\ b # <<>> /\ e = Head(b)
    BY <1>1
  <2>2. Stream(s) = a \o b
    BY DEF Stream
  <2> HIDE DEF a, b, e
  <2>3. LET k == Len(a) + 1
        IN  /\ k \in DOMAIN (a \o b) /\ (a \o b)[k] = e
            /\ \A i \in DOMAIN a : i \in DOMAIN (a \o b) /\ i < k /\ (a \o b)[i] = a[i]
    BY <2>1, NextOfTwo
  <2> QED
    BY <2>2, <2>3 DEF a
<1>5. e.n <= sent[e.pub]
  BY <1>3, <1>4 DEF FeedInv, OrderInv, NotAhead
<1>6. \A i \in DOMAIN seen[s] : seen[s][i].pub = e.pub => seen[s][i].n < e.n
  BY <1>4 DEF FeedInv, OrderInv, Ordered
<1>7. Feed!Fresh(s, e.pub, e.n)
  BY <1>2, <1>5, <1>6 DEF Feed!Fresh
<1>8. Membership(s) = "in" /\ UNCHANGED Member
  <2>1. \A r \in Sessions : Membership(r)' = Membership(r)
    BY <1>t, <1>1 DEF Membership, TypeOK
  <2> QED
    BY <1>1, <2>1 DEF Membership, Member
<1>9. Feed!Deliver(s, e.pub, e.n)
  <2>1. seen' = [seen EXCEPT ![s] = Append(@, [pub |-> e.pub, n |-> e.n])]
    BY <1>1, <1>3
  <2> HIDE DEF e
  <2> QED
    BY <1>1, <1>2, <1>7, <1>8, <2>1 DEF Feed!Deliver, Member
<1>10. e.n \in 1 .. sent[e.pub]
  <2>1. sent[e.pub] \in Nat /\ from[s][e.pub] \in Nat
    BY <1>t, <1>3 DEF TypeOK
  <2> QED
    BY <1>2, <1>3, <1>5, <2>1
<1> HIDE DEF e
<1> QED
  BY <1>3, <1>9, <1>10 DEF Feed!Next

\* A session joins as it registers, leaves as it unregisters or is rejected.
LEMMA SessionFeed ==
    ASSUME FeedInv, NEW s \in Sessions, SessionNext(s)
    PROVE  [Feed!Next]_Feed!feedVars
<1>t. TypeOK
  BY DEF FeedInv, LockInv
<1> USE DEF pubVars, Goto
<1>1. CASE Register(s)
  <2>1. Feed!Join(s)
    BY <1>t, <1>1 DEF Register, Feed!Join, Membership, TypeOK
  <2> QED
    BY <2>1 DEF Feed!Next
<1>2. CASE Reject(s)
  <2>1. Feed!Leave(s)
    BY <1>t, <1>2 DEF Reject, Feed!Leave, Membership, TypeOK
  <2> QED
    BY <2>1 DEF Feed!Next
<1>3. CASE Unregister(s)
  <2>1. Feed!Leave(s)
    BY <1>t, <1>3 DEF Unregister, Feed!Leave, Membership, TypeOK
  <2> QED
    BY <2>1 DEF Feed!Next
<1>4. CASE ~Register(s) /\ ~Reject(s) /\ ~Unregister(s) /\ ~Receive(s)
  <2>1. UNCHANGED <<sent, labOf, from, seen>>
    BY <1>4 DEF SessionNext, LockStep, Subscribe, LockAnnounce, LockAcquire,
       Ping, Flush, ClientGone, Return, Close
  <2>2. \A r \in Sessions : Membership(r)' = Membership(r)
    BY <1>t, <1>4 DEF SessionNext, LockStep, Subscribe, LockAnnounce, LockAcquire,
       Ping, Flush, ClientGone, Return, Close, Membership, TypeOK
  <2> QED
    BY <2>1, <2>2 DEF Feed!feedVars
<1> QED
  BY <1>1, <1>2, <1>3, <1>4, ReceiveFeed

\* The hub implements the lossy feed: what a session takes off its channel was
\* published in its lab after it registered, in order and once.
THEOREM HubImplementsFeed == Spec => FeedSpec
<1>1. FeedInv /\ [Next]_vars => [Feed!Next]_Feed!feedVars
  <2> SUFFICES ASSUME FeedInv, [Next]_vars PROVE [Feed!Next]_Feed!feedVars
    OBVIOUS
  <2>1. CASE UNCHANGED vars
    BY <2>1 DEF vars, pubVars, sessVars, Feed!feedVars, Membership
  <2>2. TypeOK
    BY DEF FeedInv, LockInv
  <2> QED
    BY <2>1, <2>2, PublisherFeed, SessionFeed DEF Next
<1> QED
  BY <1>1, FeedInit, FeedInvariant, PTL DEF Spec, FeedSpec, Feed!Spec

-----------------------------------------------------------------------------
(* Nothing is lost silently                                                *)

\* s was handed, still waits for or has lost the n-th event of p.
Has(s, p, n) ==
    \/ \E i \in DOMAIN Stream(s) : Stream(s)[i].pub = p /\ Stream(s)[i].n = n
    \/ \E e \in dropped[s] : e.pub = p /\ e.n = n

\* It should have been: p publishes in its lab, began the event after s
\* registered and is past s, if it is the event p is at.
Due(s, p, n) ==
    /\ PubLab[p] = labOf[s]
    /\ n \in from[s][p] + 1 .. sent[p]
    /\ s \in todo[p] => n # sent[p]

\* Of a registered session the books are balanced; before that they are empty.
Balanced(s) ==
    /\ Registered(s) => \A p \in Publishers : \A n : Has(s, p, n) <=> Due(s, p, n)
    /\ spc[s] \in Unregistered => Stream(s) = <<>> /\ dropped[s] = {}

BalanceInv == \A s \in Sessions : Balanced(s)

\* The sets the property speaks of, element by element.
LEMMA AccountedHas ==
    ASSUME NEW s \in Sessions, NEW p \in Publishers, NEW n
    PROVE  n \in Accounted(s, p) <=> Has(s, p, n)
BY DEF Accounted, Has

\* A step that moves none of this for r keeps its books.
LEMMA QuietBalance ==
    ASSUME NEW r \in Sessions, Balanced(r), Stream(r)' = Stream(r), dropped'[r] = dropped[r],
           from'[r] = from[r], labOf' = labOf, sent' = sent,
           \A p \in Publishers : r \in todo'[p] <=> r \in todo[p],
           Registered(r)' => Registered(r),
           spc'[r] \in Unregistered => spc[r] \in Unregistered
    PROVE  Balanced(r)'
<1>1. \A p \in Publishers : \A n : Has(r, p, n)' <=> Has(r, p, n)
  BY DEF Has
<1>2. \A p \in Publishers : \A n : Due(r, p, n)' <=> Due(r, p, n)
  BY DEF Due
<1> QED
  BY <1>1, <1>2 DEF Balanced

\* Appending the n-th event of p to a queue adds that one and no other.
LEMMA HasAppend ==
    ASSUME NEW q \in Seq(Event), NEW e \in Event, NEW p, NEW n
    PROVE  (\E i \in DOMAIN Append(q, e) : Append(q, e)[i].pub = p /\ Append(q, e)[i].n = n)
           <=> \/ \E i \in DOMAIN q : q[i].pub = p /\ q[i].n = n
               \/ e.pub = p /\ e.n = n
<1>1. DOMAIN Append(q, e) = DOMAIN q \cup {Len(q) + 1} /\ Append(q, e)[Len(q) + 1] = e
  OBVIOUS
<1>2. \A i \in DOMAIN q : Append(q, e)[i] = q[i]
  OBVIOUS
<1> QED
  BY <1>1, <1>2, Zenon

\* Offering the current event of p to s, whether it is taken or lost, enters it
\* in the books of s in the step that takes s off the list of p.
LEMMA OfferBalance ==
    ASSUME LockInv, OriginInv, BalanceInv, NEW p \in Publishers, NEW s \in Sessions,
           Send(p, s) \/ Drop(p, s)
    PROVE  BalanceInv'
<1>t. TypeOK
  BY DEF LockInv
<1>1. /\ s \in todo[p] /\ ppc[p] = "fanout"
      /\ todo' = [todo EXCEPT ![p] = @ \ {s}]
      /\ UNCHANGED <<subs, sent, spc, labOf, from, seen>>
  BY DEF Send, Drop, sessVars
<1>2. PubLab[p] = labOf[s] /\ from[s][p] < sent[p] /\ Registered(s)
  <2>1. s \in subs[PubLab[p]]
    BY <1>1 DEF LockInv, ReadSide
  <2>2. PubLab[p] = labOf[s] /\ from[s][p] < sent[p]
    BY <1>1 DEF OriginInv, Origin
  <2> QED
    BY <2>1, <2>2 DEF Registered
<1>3. Current(p) \in Event /\ Current(p).pub = p /\ Current(p).n = sent[p]
  BY <1>t DEF TypeOK, Current, Event
<1>4. ASSUME NEW r \in Sessions \ {s} PROVE Balanced(r)'
  <2>1. Stream(r)' = Stream(r) /\ dropped'[r] = dropped[r]
    BY <1>t DEF Send, Drop, Stream, TypeOK, sessVars
  <2>2. \A q \in Publishers : r \in todo'[q] <=> r \in todo[q]
    BY <1>t, <1>1 DEF TypeOK
  <2>3. Balanced(r) /\ (Registered(r)' => Registered(r))
    BY <1>1 DEF BalanceInv, Registered
  <2> QED
    BY <1>1, <2>1, <2>2, <2>3, QuietBalance
<1>5. \A q \in Publishers : \A n : Has(s, q, n)' <=> Has(s, q, n) \/ (q = p /\ n = sent[p])
  <2>1. CASE Send(p, s)
    <3>1. Stream(s)' = Append(Stream(s), Current(p)) /\ dropped' = dropped
      <4> DEFINE e == Current(p)
                 a == seen[s]
                 b == buf[s]
      <4>1. a \in Seq(Event) /\ b \in Seq(Event) /\ e \in Event
        BY <1>t, <1>3 DEF TypeOK
      <4>2. seen'[s] = a /\ buf'[s] = Append(b, e) /\ dropped' = dropped
        BY <1>t, <2>1 DEF Send, TypeOK, sessVars
      <4> HIDE DEF a, b, e
      <4>3. a \o Append(b, e) = Append(a \o b, e)
        BY <4>1, AppendRight
      <4> QED
        BY <4>2, <4>3 DEF a, b, e, Stream
    <3>2. Stream(s) \in Seq(Event)
      BY <1>t, StreamType
    <3> DEFINE q0 == Stream(s)
               e == Current(p)
    <3>3. \A q, n : (\E i \in DOMAIN Append(q0, e) :
                        Append(q0, e)[i].pub = q /\ Append(q0, e)[i].n = n)
                    <=> \/ \E i \in DOMAIN q0 : q0[i].pub = q /\ q0[i].n = n
                        \/ e.pub = q /\ e.n = n
      BY <1>3, <3>2, HasAppend, Zenon
    <3>4. ASSUME NEW q \in Publishers, NEW n
          PROVE  Has(s, q, n)' <=> Has(s, q, n) \/ (q = p /\ n = sent[p])
      <4>1. Has(s, q, n)' <=>
               \/ \E i \in DOMAIN Append(q0, e) :
                     Append(q0, e)[i].pub = q /\ Append(q0, e)[i].n = n
               \/ \E d \in dropped[s] : d.pub = q /\ d.n = n
        BY <3>1 DEF Has
      <4>2. Has(s, q, n) <=>
               \/ \E i \in DOMAIN q0 : q0[i].pub = q /\ q0[i].n = n
               \/ \E d \in dropped[s] : d.pub = q /\ d.n = n
        BY DEF Has
      <4>3. e.pub = p /\ e.n = sent[p]
        BY <1>3
      <4>4. (e.pub = q /\ e.n = n) <=> (q = p /\ n = sent[p])
        BY <4>3
      <4>5. (\E i \in DOMAIN Append(q0, e) :
                Append(q0, e)[i].pub = q /\ Append(q0, e)[i].n = n)
            <=> \/ \E i \in DOMAIN q0 : q0[i].pub = q /\ q0[i].n = n
                \/ e.pub = q /\ e.n = n
        BY <3>3, Zenon
      <4> HIDE DEF q0, e
      <4> QED
        BY <4>1, <4>2, <4>4, <4>5, Zenon
    <3> QED
      BY <3>4
  <2>2. CASE Drop(p, s)
    <3>1. Stream(s)' = Stream(s) /\ dropped'[s] = dropped[s] \cup {Current(p)}
      BY <1>t, <2>2 DEF Drop, Stream, TypeOK, sessVars
    <3> QED
      BY <1>3, <3>1, Zenon DEF Has
  <2> QED
    BY <2>1, <2>2
<1>6. \A q \in Publishers : \A n : Due(s, q, n)' <=> Due(s, q, n) \/ (q = p /\ n = sent[p])
  <2>1. ASSUME NEW q \in Publishers, NEW n
        PROVE  Due(s, q, n)' <=> Due(s, q, n) \/ (q = p /\ n = sent[p])
    <3>1. CASE q = p
      <4>1. s \in todo[q] /\ s \notin todo'[q]
        BY <1>t, <1>1, <3>1 DEF TypeOK
      <4>2. sent[q] \in from[s][q] + 1 .. sent[q]
        <5>1. sent[q] \in Nat /\ from[s][q] \in Nat
          BY <1>t DEF TypeOK
        <5> QED
          BY <1>2, <3>1, <5>1
      <4> QED
        BY <1>1, <1>2, <3>1, <4>1, <4>2 DEF Due
    <3>2. CASE q # p
      <4>1. todo'[q] = todo[q]
        BY <1>t, <1>1, <3>2 DEF TypeOK
      <4> QED
        BY <1>1, <3>2, <4>1 DEF Due
    <3> QED
      BY <3>1, <3>2
  <2> QED
    BY <2>1
<1>7. Balanced(s)'
  <2>1. \A q \in Publishers : \A n : Has(s, q, n) <=> Due(s, q, n)
    BY <1>2 DEF BalanceInv, Balanced
  <2>2. spc'[s] \notin Unregistered
    BY <1>1, <1>2, BroadcasterAssumption
       DEF LockInv, Lifetime, TypeOK, Unregistered, Registered
  <2> QED
    BY <1>5, <1>6, <2>1, <2>2 DEF Balanced
<1> QED
  BY <1>4, <1>7 DEF BalanceInv

\* A publisher that begins an event owes it to every session of its lab at once.
LEMMA FanoutBalance ==
    ASSUME LockInv, OriginInv, BalanceInv, NEW p \in Publishers, StartFanout(p)
    PROVE  BalanceInv'
<1>t. TypeOK
  BY DEF LockInv
<1>1. /\ ppc[p] = "rlock"
      /\ todo' = [todo EXCEPT ![p] = subs[PubLab[p]]]
      /\ sent' = [sent EXCEPT ![p] = @ + 1]
      /\ UNCHANGED <<subs, dropped, buf, spc, labOf, from, seen>>
  BY DEF StartFanout, sessVars
<1>2. SUFFICES ASSUME NEW s \in Sessions PROVE Balanced(s)'
  BY DEF BalanceInv
<1>3. Balanced(s)
  BY DEF BalanceInv
<1>4. Stream(s)' = Stream(s) /\ Registered(s)' = Registered(s)
      /\ \A q, n : Has(s, q, n)' <=> Has(s, q, n)
  BY <1>1 DEF Stream, Registered, Has
<1>5. ASSUME Registered(s), NEW q \in Publishers, NEW n
      PROVE  Due(s, q, n)' <=> Due(s, q, n)
  <2>1. CASE q = p
    <3>1. CASE PubLab[q] = labOf[s]
      <4>1. s \notin todo[q] /\ s \in todo'[q] /\ sent'[q] = sent[q] + 1
        BY <1>t, <1>1, <1>5, <2>1, <3>1 DEF TypeOK, LockInv, ReadSide, Registered
      <4>2. sent[q] \in Nat /\ from[s][q] \in Nat
        BY <1>t DEF TypeOK
      <4>3. n \in from[s][q] + 1 .. sent[q] + 1 /\ n # sent[q] + 1
              <=> n \in from[s][q] + 1 .. sent[q]
        BY <4>2
      <4> QED
        BY <1>1, <3>1, <4>1, <4>3 DEF Due
    <3>2. CASE PubLab[q] # labOf[s]
      BY <1>1, <3>2 DEF Due
    <3> QED
      BY <3>1, <3>2
  <2>2. CASE q # p
    <3>1. todo'[q] = todo[q] /\ sent'[q] = sent[q]
      BY <1>t, <1>1, <2>2 DEF TypeOK
    <3> QED
      BY <1>1, <3>1 DEF Due
  <2> QED
    BY <2>1, <2>2
<1> QED
  BY <1>1, <1>3, <1>4, <1>5 DEF Balanced

\* A session registers with empty books and owes nothing to begin with; what it
\* takes off its channel stays in them.
LEMMA SessionBalance ==
    ASSUME LockInv, OriginInv, BalanceInv, NEW s \in Sessions, SessionNext(s)
    PROVE  BalanceInv'
<1>t. TypeOK
  BY DEF LockInv
<1> USE DEF pubVars, Goto
<1>1. CASE Register(s)
  <2>1. /\ spc[s] = "add" /\ spc' = [spc EXCEPT ![s] = "write"]
        /\ from' = [from EXCEPT ![s] = sent]
        /\ subs' = [subs EXCEPT ![labOf[s]] = @ \cup {s}]
        /\ UNCHANGED <<buf, seen, dropped, labOf, sent, todo>>
    BY <1>1 DEF Register
  <2>2. ASSUME NEW r \in Sessions \ {s} PROVE Balanced(r)'
    <3>1. Registered(r)' => Registered(r)
      BY <1>t, <2>1 DEF Registered, TypeOK
    <3>2. from'[r] = from[r] /\ spc'[r] = spc[r] /\ Stream(r)' = Stream(r)
      BY <1>t, <2>1 DEF TypeOK, Stream
    <3> QED
      BY <2>1, <3>1, <3>2, QuietBalance DEF BalanceInv
  <2>3. Stream(s)' = <<>> /\ dropped'[s] = {} /\ spc'[s] = "write"
    BY <1>t, <2>1 DEF BalanceInv, Balanced, Stream, Unregistered, TypeOK
  <2>4. \A p \in Publishers : \A n : ~Has(s, p, n)'
    BY <2>3 DEF Has
  <2>5. ASSUME NEW p \in Publishers, NEW n PROVE ~Due(s, p, n)'
    <3>1. from'[s][p] = sent'[p] /\ sent'[p] \in Nat
      BY <1>t, <2>1 DEF TypeOK
    <3>2. from'[s][p] + 1 .. sent'[p] = {}
      BY <3>1
    <3> QED
      BY <3>2 DEF Due
  <2> QED
    BY <2>2, <2>3, <2>4, <2>5 DEF BalanceInv, Balanced, Unregistered
<1>2. CASE Receive(s)
  <2>1. /\ buf[s] # <<>> /\ spc[s] = "stream" /\ spc' = [spc EXCEPT ![s] = "write"]
        /\ seen' = [seen EXCEPT ![s] = Append(@, Head(buf[s]))]
        /\ buf' = [buf EXCEPT ![s] = Tail(@)]
        /\ UNCHANGED <<subs, dropped, labOf, from, sent, todo>>
    BY <1>2 DEF Receive
  <2>2. \A r \in Sessions : Stream(r)' = Stream(r)
    <3>1. buf[s] \in Seq(Event) /\ seen[s] \in Seq(Event)
      BY <1>t DEF TypeOK
    <3>2. seen'[s] = Append(seen[s], Head(buf[s])) /\ buf'[s] = Tail(buf[s])
      BY <1>t, <2>1 DEF TypeOK
    <3>3. Stream(s)' = Stream(s)
      BY <2>1, <3>1, <3>2, MoveHead DEF Stream
    <3>4. \A r \in Sessions \ {s} : Stream(r)' = Stream(r)
      BY <1>t, <2>1 DEF Stream, TypeOK
    <3> QED
      BY <3>3, <3>4
  <2>3. \A r \in Sessions : /\ Registered(r)' => Registered(r)
                            /\ spc'[r] \in Unregistered => spc[r] \in Unregistered
    BY <1>t, <2>1 DEF Registered, Unregistered, TypeOK
  <2> QED
    BY <2>1, <2>2, <2>3, QuietBalance DEF BalanceInv
<1>3. CASE ~Register(s) /\ ~Receive(s)
  <2>1. UNCHANGED <<buf, seen, dropped, from, labOf, sent, todo>>
    BY <1>3 DEF SessionNext, LockStep, Reject, Subscribe, LockAnnounce,
       LockAcquire, Unregister, Ping, Flush, ClientGone, Return, Close
  <2>2. \A r \in Sessions : spc'[r] \in Unregistered => spc[r] \in Unregistered
    BY <1>t, <1>3 DEF SessionNext, LockStep, Reject, Subscribe, LockAnnounce,
       LockAcquire, Unregister, Ping, Flush, ClientGone, Return, Close,
       Unregistered, TypeOK
  <2>3. \A r \in Sessions : Registered(r)' => Registered(r)
    <3>1. CASE Unregister(s)
      BY <1>t, <2>1, <3>1 DEF Unregister, Registered, TypeOK
    <3>2. CASE ~Unregister(s)
      <4>1. subs' = subs
        BY <1>3, <3>2 DEF SessionNext, LockStep, Reject, Subscribe, LockAnnounce,
           LockAcquire, Ping, Flush, ClientGone, Return, Close
      <4> QED
        BY <2>1, <4>1 DEF Registered
    <3> QED
      BY <3>1, <3>2
  <2> QED
    BY <2>1, <2>2, <2>3, QuietBalance DEF BalanceInv, Stream
<1> QED
  BY <1>1, <1>2, <1>3

\* Of every publisher of its lab a registered session was handed, waits for or
\* has lost exactly the events begun since it registered, but for one that is
\* still to be offered; of other publishers it has none.
THEOREM NothingIsLostSilently == Spec => []NothingLostSilently
<1>1. Init => BalanceInv
  <2> SUFFICES ASSUME Init, NEW s \in Sessions PROVE Balanced(s)
    BY DEF BalanceInv
  <2>1. Stream(s) = <<>> /\ dropped[s] = {} /\ ~Registered(s)
    BY DEF Init, Stream, Registered
  <2> QED
    BY <2>1 DEF Balanced
<1>2. FeedInv /\ BalanceInv /\ [Next]_vars => BalanceInv'
  <2> SUFFICES ASSUME FeedInv, BalanceInv, [Next]_vars PROVE BalanceInv'
    OBVIOUS
  <2> USE DEF FeedInv
  <2>1. CASE UNCHANGED vars
    BY <2>1, QuietBalance DEF vars, pubVars, sessVars, BalanceInv, Stream, Registered
  <2>2. ASSUME NEW p \in Publishers, PublisherNext(p) PROVE BalanceInv'
    <3>1. CASE Publish(p) \/ EndPublish(p)
      BY <3>1, QuietBalance
         DEF Publish, EndPublish, sessVars, BalanceInv, Stream, Registered
    <3> QED
      BY <2>2, <3>1, FanoutBalance, OfferBalance DEF PublisherNext
  <2> QED
    BY <2>1, <2>2, SessionBalance DEF Next
<1>3. TypeOK /\ BalanceInv => NothingLostSilently
  <2> SUFFICES ASSUME TypeOK, BalanceInv, NEW s \in Sessions, NEW p \in Publishers, Registered(s)
               PROVE  Accounted(s, p) =
                        IF PubLab[p] # labOf[s] THEN {}
                        ELSE {n \in from[s][p] + 1 .. sent[p] : s \in todo[p] => n # sent[p]}
    BY DEF NothingLostSilently
  <2>1. \A n : n \in Accounted(s, p) <=> Due(s, p, n)
    BY AccountedHas DEF BalanceInv, Balanced
  <2> DEFINE A == Accounted(s, p)
             D == {n \in from[s][p] + 1 .. sent[p] : s \in todo[p] => n # sent[p]}
  <2>2. CASE PubLab[p] # labOf[s]
    <3>1. \A n : n \notin A
      BY <2>1, <2>2 DEF Due
    <3> HIDE DEF A
    <3>2. A = {}
      BY <3>1
    <3> QED
      BY <2>2, <3>2 DEF A
  <2>3. CASE PubLab[p] = labOf[s]
    <3>1. \A n : n \in A <=> n \in D
      BY <2>1, <2>3 DEF Due
    <3>2. A \subseteq D /\ D \subseteq A
      BY <3>1, Zenon
    <3> HIDE DEF A, D
    <3>3. A = D
      BY <3>2
    <3> QED
      BY <2>3, <3>3 DEF A, D
  <2> QED
    BY <2>2, <2>3
<1> QED
  BY <1>1, <1>2, <1>3, FeedInvariant, TypeCorrect, PTL DEF Spec

=============================================================================
