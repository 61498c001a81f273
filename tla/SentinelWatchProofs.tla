------------------------- MODULE SentinelWatchProofs -------------------------
(***************************************************************************)
(* For any nodes, messages and closed channels: every +switch-master that  *)
(* the watcher publishes is followed at once by its own role_changed, no   *)
(* switch is published twice, and messages keep their order.               *)
(***************************************************************************)
EXTENDS SentinelWatch, TLAPS

Entries == [type : {"sentinel_event", "role_changed"}, id : 1..MaxMessages, kind : Kinds]

\* The i-th entry is the first copy of a +failover-state-* message, published last,
\* and its other copy, the j-th of the queue, is next.
HalfPublished(i, j) ==
    /\ i = Len(published) /\ j = 1 /\ queue[j].kind = "state"
    /\ published[i] = Entry("sentinel_event", queue[j])

\* What was published are entries, in the order of their messages, and no message
\* that waits was published, but for the first copy of the one that waits first.
InSequence ==
    /\ published \in Seq(Entries)
    /\ \A i, j \in DOMAIN queue :
          i < j => queue[i].id < queue[j].id \/ TwoCopies(queue, i, j)
    /\ \A i \in DOMAIN published : published[i].id <= emitted
    /\ \A i \in DOMAIN queue : queue[i].id <= emitted
    /\ \A i \in DOMAIN published, j \in DOMAIN queue :
          published[i].id < queue[j].id \/ HalfPublished(i, j)

\* The role_changed that is due is that of the switch published last.
RoleIsDue ==
    pc = "role" =>
        /\ msg \in Message /\ msg.kind = "switch"
        /\ published # <<>>
        /\ published[Len(published)] = Entry("sentinel_event", msg)

WatchInv == TypeOK /\ InSequence /\ RoleIsDue /\ RoleFollowsSwitch

-----------------------------------------------------------------------------
(* Sentinel and the library                                                *)

LEMMA InitWatch == Init => WatchInv
<1> SUFFICES ASSUME Init PROVE WatchInv
  OBVIOUS
<1>1. published = <<>> /\ queue = <<>> /\ DOMAIN published = {} /\ DOMAIN queue = {}
  BY DEF Init
<1>2. published \in Seq(Entries) /\ queue \in Seq(Message)
  BY <1>1
<1>3. TypeOK
  <2>1. emitted \in 0..MaxMessages /\ closes \in 0..MaxCloses
    BY SentinelWatchAssumption DEF Init
  <2>2. pc = "top" /\ backoff \in {1, 2, 4, 8, 16} /\ master \in Nodes
    BY DEF Init
  <2> QED
    BY <1>1, <1>2, <2>1, <2>2 DEF Init, TypeOK
<1> QED
  BY <1>1, <1>2, <1>3 DEF Init, WatchInv, InSequence, RoleIsDue, RoleFollowsSwitch

\* The copies that arrive come after what the queue holds.
LEMMA Arrive ==
    ASSUME NEW q \in Seq(Message), NEW m \in Message, NEW k \in 0..2
    PROVE  LET r == q \o [i \in 1..k |-> m] IN
           /\ r \in Seq(Message) /\ Len(r) = Len(q) + k
           /\ \A i \in DOMAIN q : i \in DOMAIN r /\ r[i] = q[i]
           /\ \A i \in DOMAIN r : i \in DOMAIN q \/ (i > Len(q) /\ r[i] = m)
<1> DEFINE c == [i \in 1..k |-> m]
<1>1. c \in Seq(Message) /\ Len(c) = k
  OBVIOUS
<1> HIDE DEF c
<1>2. q \o c \in Seq(Message) /\ Len(q \o c) = Len(q) + k
  BY <1>1
<1>3. \A i \in 1..k : c[i] = m
  BY DEF c
<1>4. \A i \in 1..Len(q \o c) : (q \o c)[i] = IF i <= Len(q) THEN q[i] ELSE c[i - Len(q)]
  BY <1>1
<1>5. \A i \in DOMAIN q : i \in DOMAIN (q \o c) /\ (q \o c)[i] = q[i]
  BY <1>1, <1>2, <1>4
<1>6. \A i \in DOMAIN (q \o c) : i \in DOMAIN q \/ (i > Len(q) /\ (q \o c)[i] = m)
  BY <1>1, <1>2, <1>3, <1>4
<1> QED
  BY <1>2, <1>5, <1>6 DEF c

\* A message that is sent is the newest, and waits behind the others, twice if it
\* is a +failover-state-*, or is lost.
LEMMA Emits ==
    ASSUME WatchInv, NEW m \in Message, m.id = emitted + 1, Emit(m),
           master' \in Nodes, UNCHANGED <<chanOpen, closes, watchVars>>
    PROVE  WatchInv'
<1> USE DEF WatchInv
<1>1. emitted \in Nat /\ emitted' = emitted + 1 /\ emitted' \in 0..MaxMessages
  BY SentinelWatchAssumption DEF Emit, TypeOK
<1>2. /\ queue \in Seq(Message) /\ published \in Seq(Entries)
      /\ UNCHANGED <<pc, cancelled, msg, published, backoff, chanOpen, closes>>
      /\ link' \in BOOLEAN /\ (link' => link)
  BY DEF Emit, TypeOK, InSequence, watchVars
<1>3. PICK k \in 0..2 : /\ queue' = queue \o [i \in 1..k |-> m]
                        /\ k = 2 => m.kind = "state"
  BY DEF Emit, Copies
<1>4. /\ queue' \in Seq(Message) /\ Len(queue') = Len(queue) + k
      /\ \A i \in DOMAIN queue : i \in DOMAIN queue' /\ queue'[i] = queue[i]
      /\ \A i \in DOMAIN queue' : i \in DOMAIN queue \/ (i > Len(queue) /\ queue'[i] = m)
  BY <1>2, <1>3, Arrive
<1>5. TypeOK'
  BY <1>1, <1>2, <1>4 DEF TypeOK
<1>6. /\ \A i \in DOMAIN queue : queue[i].id \in Nat /\ queue[i].id < m.id
      /\ \A i \in DOMAIN published : published[i].id \in Nat /\ published[i].id < m.id
  <2>1. /\ \A i \in DOMAIN queue : queue[i] \in Message
        /\ \A i \in DOMAIN published : published[i] \in Entries
    BY <1>2
  <2>2. /\ \A i \in DOMAIN queue : queue[i].id \in Nat
        /\ \A i \in DOMAIN published : published[i].id \in Nat
    BY <2>1, SentinelWatchAssumption DEF Message, Entries
  <2> QED
    BY <1>1, <2>2 DEF InSequence
<1>7. \A i, j \in DOMAIN queue' :
         i < j => queue'[i].id < queue'[j].id \/ TwoCopies(queue', i, j)
  <2> SUFFICES ASSUME NEW i \in DOMAIN queue', NEW j \in DOMAIN queue', i < j
               PROVE  queue'[i].id < queue'[j].id \/ TwoCopies(queue', i, j)
    OBVIOUS
  <2>1. i \in 1..Len(queue') /\ j \in 1..Len(queue') /\ Len(queue) \in Nat
    BY <1>2, <1>4
  <2>2. DOMAIN queue = 1..Len(queue)
    BY <1>2
  <2>3. CASE j \in DOMAIN queue
    <3>1. i \in DOMAIN queue
      BY <2>1, <2>2, <2>3
    <3>2. queue[i].id < queue[j].id \/ TwoCopies(queue, i, j)
      BY <2>3, <3>1 DEF InSequence
    <3> QED
      BY <1>4, <2>3, <3>1, <3>2 DEF TwoCopies
  <2>4. CASE j \notin DOMAIN queue /\ i \in DOMAIN queue
    BY <1>4, <1>6, <2>4
  <2>5. CASE j \notin DOMAIN queue /\ i \notin DOMAIN queue
    <3>1. queue'[i] = m /\ queue'[j] = m /\ i > Len(queue)
      BY <1>4, <2>5
    <3>2. j = i + 1 /\ k = 2
      BY <1>4, <2>1, <3>1
    <3> QED
      BY <1>3, <3>1, <3>2 DEF TwoCopies
  <2> QED
    BY <2>3, <2>4, <2>5
<1>8. InSequence'
  <2>1. /\ \A i \in DOMAIN published' : published'[i].id <= emitted'
        /\ \A i \in DOMAIN queue' : queue'[i].id <= emitted'
    BY <1>1, <1>2, <1>4, <1>6
  <2>2. ASSUME NEW i \in DOMAIN published', NEW j \in DOMAIN queue'
        PROVE  published'[i].id < queue'[j].id \/ HalfPublished(i, j)'
    <3>1. CASE j \in DOMAIN queue
      <4>1. published[i].id < queue[j].id \/ HalfPublished(i, j)
        BY <1>2, <3>1 DEF InSequence
      <4> QED
        BY <1>2, <1>4, <3>1, <4>1 DEF HalfPublished
    <3>2. CASE j \notin DOMAIN queue
      BY <1>2, <1>4, <1>6, <3>2
    <3> QED
      BY <3>1, <3>2
  <2> QED
    BY <1>2, <1>7, <2>1, <2>2 DEF InSequence
<1> QED
  BY <1>2, <1>5, <1>8 DEF RoleIsDue, RoleFollowsSwitch

\* A step that leaves what was published alone and moves no message keeps the
\* invariant, and does not come between a switch and its role_changed.
LEMMA QuietSteps ==
    ASSUME WatchInv, UNCHANGED <<emitted, published, msg>>, TypeOK',
           queue' = queue \/ queue' = <<>>,
           pc' = "role" <=> pc = "role"
    PROVE  WatchInv'
<1>1. \A i \in DOMAIN queue' : i \in DOMAIN queue /\ queue'[i] = queue[i]
  OBVIOUS
<1>2. InSequence'
  BY <1>1 DEF WatchInv, InSequence, TwoCopies, HalfPublished
<1> QED
  BY <1>2 DEF WatchInv, RoleIsDue, RoleFollowsSwitch

-----------------------------------------------------------------------------
(* Publishing                                                              *)

\* One more entry.
LEMMA OneMore ==
    ASSUME NEW p \in Seq(Entries), NEW e \in Entries
    PROVE  /\ Append(p, e) \in Seq(Entries)
           /\ Len(Append(p, e)) = Len(p) + 1 /\ Len(p) \in Nat
           /\ Append(p, e)[Len(p) + 1] = e
           /\ DOMAIN Append(p, e) = DOMAIN p \cup {Len(p) + 1}
           /\ \A i \in DOMAIN p : i \in 1..Len(p) /\ Append(p, e)[i] = p[i]
           /\ \A i \in 1..Len(p) : i \in DOMAIN p
OBVIOUS

\* A message that is no switch, or its switch, published in turn, keeps the pairs
\* together: nothing is due, and the message is newer than what was published.
LEMMA MessagePublished ==
    ASSUME NEW p \in Seq(Entries), NEW e \in Entries, published = p, published' = Append(p, e),
           RoleFollowsSwitch, pc # "role",
           e.type = "sentinel_event", e.kind = "switch" => pc' = "role",
           \A i \in DOMAIN p : p[i].id < e.id
              \/ (i = Len(p) /\ p[i] = e /\ e.kind = "state")
    PROVE  RoleFollowsSwitch'
<1> DEFINE q == Append(p, e)
           l == Len(p) + 1
<1>1. /\ q[l] = e /\ Len(q) = l /\ DOMAIN q = DOMAIN p \cup {l} /\ Len(p) \in Nat
      /\ \A i \in DOMAIN p : i \in 1..Len(p) /\ q[i] = p[i]
      /\ \A i \in 1..Len(p) : i \in DOMAIN p
  BY OneMore
<1> HIDE DEF q, l
<1>2. l = Len(p) + 1
  BY DEF l
<1> SUFFICES ASSUME NEW i \in DOMAIN q
             PROVE  /\ q[i].type = "role_changed" =>
                          /\ q[i].kind = "switch" /\ i > 1
                          /\ q[i - 1] = [q[i] EXCEPT !.type = "sentinel_event"]
                    /\ q[i].type = "sentinel_event" /\ q[i].kind = "switch" =>
                          IF i = l THEN pc' = "role" ELSE q[i + 1] = [q[i] EXCEPT !.type = "role_changed"]
                    /\ \A j \in DOMAIN q : j < i /\ q[j].type = q[i].type
                          => q[j].id < q[i].id \/ TwoCopies(q, j, i)
  BY <1>1 DEF RoleFollowsSwitch, q
<1>3. CASE i = l
  <2>1. \A j \in DOMAIN q : j < i => q[j].id < q[i].id \/ TwoCopies(q, j, i)
    <3> SUFFICES ASSUME NEW j \in DOMAIN q, j < i
                 PROVE  q[j].id < q[i].id \/ TwoCopies(q, j, i)
      OBVIOUS
    <3>1. j \in DOMAIN p /\ q[j] = p[j]
      BY <1>1, <1>2, <1>3
    <3>2. CASE p[j].id < e.id
      BY <1>1, <1>3, <3>1, <3>2
    <3>3. CASE j = Len(p) /\ p[j] = e /\ e.kind = "state"
      BY <1>1, <1>2, <1>3, <3>1, <3>3 DEF TwoCopies
    <3> QED
      BY <3>1, <3>2, <3>3
  <2> QED
    BY <1>1, <1>3, <2>1
<1>4. CASE i \in DOMAIN p
  <2>1. i \in 1..Len(p) /\ i # l /\ q[i] = p[i]
    BY <1>1, <1>2, <1>4
  <2>2. p[i].type = "role_changed" =>
            p[i].kind = "switch" /\ i > 1 /\ q[i - 1] = [p[i] EXCEPT !.type = "sentinel_event"]
    <3> SUFFICES ASSUME p[i].type = "role_changed"
                 PROVE  p[i].kind = "switch" /\ i > 1 /\ q[i - 1] = [p[i] EXCEPT !.type = "sentinel_event"]
      OBVIOUS
    <3>1. p[i].kind = "switch" /\ i > 1 /\ p[i - 1] = [p[i] EXCEPT !.type = "sentinel_event"]
      BY <1>4 DEF RoleFollowsSwitch
    <3>2. i - 1 \in DOMAIN p
      BY <1>1, <2>1, <3>1
    <3> QED
      BY <1>1, <3>1, <3>2
  <2>3. p[i].type = "sentinel_event" /\ p[i].kind = "switch" => q[i + 1] = [p[i] EXCEPT !.type = "role_changed"]
    <3> SUFFICES ASSUME p[i].type = "sentinel_event", p[i].kind = "switch"
                 PROVE  q[i + 1] = [p[i] EXCEPT !.type = "role_changed"]
      OBVIOUS
    <3>1. i # Len(p) /\ p[i + 1] = [p[i] EXCEPT !.type = "role_changed"]
      BY <1>4 DEF RoleFollowsSwitch
    <3>2. i + 1 \in DOMAIN p
      BY <1>1, <2>1, <3>1
    <3> QED
      BY <1>1, <3>1, <3>2
  <2>4. \A j \in DOMAIN q : j < i /\ q[j].type = q[i].type
            => q[j].id < q[i].id \/ TwoCopies(q, j, i)
    <3> SUFFICES ASSUME NEW j \in DOMAIN q, j < i, q[j].type = q[i].type
                 PROVE  q[j].id < q[i].id \/ TwoCopies(q, j, i)
      OBVIOUS
    <3>1. j \in DOMAIN p
      BY <1>1, <1>2, <2>1
    <3>t. p[j].type = p[i].type
      BY <1>1, <2>1, <3>1
    <3>2. p[j].id < p[i].id \/ TwoCopies(p, j, i)
      BY <1>4, <3>1, <3>t DEF RoleFollowsSwitch
    <3> QED
      BY <1>1, <2>1, <3>1, <3>2 DEF TwoCopies
  <2> QED
    BY <2>1, <2>2, <2>3, <2>4
<1> QED
  BY <1>1, <1>3, <1>4

\* The role_changed of the switch that was published last keeps the pairs together:
\* it is the only one of its message, since every other belongs to an older switch.
LEMMA RolePublished ==
    ASSUME NEW p \in Seq(Entries), NEW e \in Entries, published = p, published' = Append(p, e),
           RoleFollowsSwitch,
           e.type = "role_changed", e.kind = "switch", p # <<>>,
           p[Len(p)] = [e EXCEPT !.type = "sentinel_event"]
    PROVE  RoleFollowsSwitch'
<1> DEFINE q == Append(p, e)
           l == Len(p) + 1
<1>1. /\ q[l] = e /\ Len(q) = l /\ DOMAIN q = DOMAIN p \cup {l} /\ Len(p) \in Nat
      /\ \A i \in DOMAIN p : i \in 1..Len(p) /\ q[i] = p[i]
      /\ \A i \in 1..Len(p) : i \in DOMAIN p
  BY OneMore
<1> HIDE DEF q, l
<1>2. l = Len(p) + 1 /\ Len(p) >= 1 /\ Len(p) \in DOMAIN p
  BY <1>1 DEF l
<1>3. e \in [type : {"sentinel_event", "role_changed"}, id : 1..MaxMessages, kind : Kinds]
  BY DEF Entries
<1>4. p[Len(p)].type = "sentinel_event" /\ p[Len(p)].id = e.id /\ p[Len(p)].kind = "switch"
      /\ e = [p[Len(p)] EXCEPT !.type = "role_changed"]
  BY <1>3
<1>5. \A i, k \in DOMAIN p :
         k < i /\ p[k].type = p[i].type => p[k].id < p[i].id \/ TwoCopies(p, k, i)
  BY DEF RoleFollowsSwitch
<1>6. ASSUME NEW j \in DOMAIN p, p[j].type = "role_changed" PROVE p[j].id < e.id
  <2>1. j > 1 /\ p[j - 1] = [p[j] EXCEPT !.type = "sentinel_event"]
    BY <1>6 DEF RoleFollowsSwitch
  <2>2. j \in 1..Len(p) /\ j - 1 \in DOMAIN p /\ j - 1 < Len(p)
    BY <1>1, <2>1
  <2>3. p[j] \in [type : {"sentinel_event", "role_changed"}, id : 1..MaxMessages, kind : Kinds]
    <3>1. p[j] \in Entries
      OBVIOUS
    <3> QED
      BY <3>1 DEF Entries
  <2>4. p[j - 1].type = "sentinel_event" /\ p[j - 1].id = p[j].id
    BY <2>1, <2>3
  <2>5. p[j - 1].id < p[Len(p)].id
    BY <1>5, <1>2, <1>4, <2>2, <2>4 DEF TwoCopies
  <2> QED
    BY <1>4, <2>4, <2>5
<1> SUFFICES ASSUME NEW i \in DOMAIN q
             PROVE  /\ q[i].type = "role_changed" =>
                          /\ q[i].kind = "switch" /\ i > 1
                          /\ q[i - 1] = [q[i] EXCEPT !.type = "sentinel_event"]
                    /\ q[i].type = "sentinel_event" /\ q[i].kind = "switch" =>
                          IF i = l THEN pc' = "role" ELSE q[i + 1] = [q[i] EXCEPT !.type = "role_changed"]
                    /\ \A j \in DOMAIN q : j < i /\ q[j].type = q[i].type
                          => q[j].id < q[i].id \/ TwoCopies(q, j, i)
  BY <1>1 DEF RoleFollowsSwitch, q
<1>7. CASE i = l
  <2>1. i - 1 = Len(p) /\ i > 1 /\ q[i - 1] = p[Len(p)]
    BY <1>1, <1>2, <1>7
  <2>2. \A j \in DOMAIN q : j < i /\ q[j].type = "role_changed" => q[j].id < e.id
    BY <1>1, <1>2, <1>6, <1>7
  <2> QED
    BY <1>1, <1>7, <2>1, <2>2
<1>8. CASE i \in DOMAIN p
  <2>1. i \in 1..Len(p) /\ i # l /\ q[i] = p[i]
    BY <1>1, <1>2, <1>8
  <2>2. p[i].type = "role_changed" =>
            p[i].kind = "switch" /\ i > 1 /\ q[i - 1] = [p[i] EXCEPT !.type = "sentinel_event"]
    <3> SUFFICES ASSUME p[i].type = "role_changed"
                 PROVE  p[i].kind = "switch" /\ i > 1 /\ q[i - 1] = [p[i] EXCEPT !.type = "sentinel_event"]
      OBVIOUS
    <3>1. p[i].kind = "switch" /\ i > 1 /\ p[i - 1] = [p[i] EXCEPT !.type = "sentinel_event"]
      BY <1>8 DEF RoleFollowsSwitch
    <3>2. i - 1 \in DOMAIN p
      BY <1>1, <2>1, <3>1
    <3> QED
      BY <1>1, <3>1, <3>2
  <2>3. p[i].type = "sentinel_event" /\ p[i].kind = "switch" => q[i + 1] = [p[i] EXCEPT !.type = "role_changed"]
    <3>1. CASE i = Len(p)
      BY <1>1, <1>2, <1>4, <3>1
    <3>2. CASE i # Len(p)
      <4>1. p[i].type = "sentinel_event" /\ p[i].kind = "switch" => p[i + 1] = [p[i] EXCEPT !.type = "role_changed"]
        BY <1>8, <3>2 DEF RoleFollowsSwitch
      <4>2. i + 1 \in DOMAIN p
        BY <1>1, <2>1, <3>2
      <4> QED
        BY <1>1, <4>1, <4>2
    <3> QED
      BY <3>1, <3>2
  <2>4. \A j \in DOMAIN q : j < i /\ q[j].type = q[i].type
            => q[j].id < q[i].id \/ TwoCopies(q, j, i)
    <3> SUFFICES ASSUME NEW j \in DOMAIN q, j < i, q[j].type = q[i].type
                 PROVE  q[j].id < q[i].id \/ TwoCopies(q, j, i)
      OBVIOUS
    <3>1. j \in DOMAIN p
      BY <1>1, <1>2, <2>1
    <3>2. p[j].id < p[i].id \/ TwoCopies(p, j, i)
      BY <1>5, <1>1, <1>8, <2>1, <3>1
    <3> QED
      BY <1>1, <2>1, <3>1, <3>2 DEF TwoCopies
  <2> QED
    BY <2>1, <2>2, <2>3, <2>4
<1> QED
  BY <1>1, <1>7, <1>8

\* A message is published, and taken off the channel.
LEMMA Receives == ASSUME WatchInv, Recv PROVE WatchInv'
<1> DEFINE m == Head(queue)
           e == Entry("sentinel_event", m)
<1> USE DEF WatchInv
<1>1. /\ pc = "recv" /\ queue # <<>> /\ msg' = m /\ queue' = Tail(queue)
      /\ published' = Append(published, e) /\ pc' = IF m.kind = "switch" THEN "role" ELSE "recv"
      /\ UNCHANGED <<master, emitted, link, chanOpen, closes, cancelled, backoff>>
  BY DEF Recv
<1>2. /\ queue \in Seq(Message) /\ published \in Seq(Entries) /\ emitted \in Nat
  BY SentinelWatchAssumption DEF TypeOK, InSequence
<1>3. /\ m \in Message /\ m = queue[1] /\ 1 \in DOMAIN queue /\ queue' \in Seq(Message)
      /\ \A i \in DOMAIN queue' : i \in Nat /\ i >= 1 /\ i + 1 \in DOMAIN queue /\ queue'[i] = queue[i + 1]
  BY <1>1, <1>2
<1>4. /\ e \in Entries /\ e.type = "sentinel_event" /\ e.id = m.id /\ e.kind = m.kind
      /\ m.id \in Nat
  BY <1>3, SentinelWatchAssumption DEF Entry, Entries, Message
<1> HIDE DEF m
<1>5. /\ published' \in Seq(Entries)
      /\ published'[Len(published)+1] = e /\ Len(published') = Len(published) + 1
      /\ \A i \in DOMAIN published' : published'[i] = e \/ (i \in DOMAIN published /\ published'[i] = published[i])
  BY <1>1, <1>2, <1>4, OneMore
<1>6. TypeOK'
  <2>1. \A i \in DOMAIN published' : published'[i].type \in {"sentinel_event", "role_changed"}
    BY <1>4, <1>5 DEF TypeOK
  <2>2. pc' \in {"top", "recv", "role", "sleep", "stopped"} /\ (pc' = "role" => msg' \in Message /\ msg'.kind = "switch")
    BY <1>1, <1>3
  <2> QED
    BY <1>1, <1>3, <2>1, <2>2 DEF TypeOK
<1>7. InSequence'
  <2>1. \A i, j \in DOMAIN queue' :
           i < j => queue'[i].id < queue'[j].id \/ TwoCopies(queue', i, j)
    <3> SUFFICES ASSUME NEW i \in DOMAIN queue', NEW j \in DOMAIN queue', i < j
                 PROVE  queue'[i].id < queue'[j].id \/ TwoCopies(queue', i, j)
      OBVIOUS
    <3>1. /\ i + 1 \in DOMAIN queue /\ j + 1 \in DOMAIN queue /\ i + 1 < j + 1
          /\ queue'[i] = queue[i + 1] /\ queue'[j] = queue[j + 1] /\ i \in Nat /\ j \in Nat
      BY <1>3
    <3>2. queue[i + 1].id < queue[j + 1].id \/ TwoCopies(queue, i + 1, j + 1)
      BY <3>1 DEF InSequence
    <3> QED
      BY <3>1, <3>2 DEF TwoCopies
  <2>2. \A j \in DOMAIN queue' : \/ m.id < queue'[j].id
                                 \/ j = 1 /\ queue'[j] = m /\ m.kind = "state"
    <3> SUFFICES ASSUME NEW j \in DOMAIN queue'
                 PROVE  \/ queue[1].id < queue'[j].id
                        \/ j = 1 /\ queue'[j] = queue[1] /\ queue[1].kind = "state"
      BY <1>3
    <3>1. 1 < j + 1 /\ j + 1 \in DOMAIN queue /\ queue'[j] = queue[j + 1] /\ j \in Nat
      BY <1>3
    <3>2. queue[1].id < queue[j + 1].id \/ TwoCopies(queue, 1, j + 1)
      BY <1>3, <3>1 DEF InSequence
    <3> QED
      BY <3>1, <3>2 DEF TwoCopies
  <2>3. ASSUME NEW i \in DOMAIN published', NEW j \in DOMAIN queue'
        PROVE  published'[i].id < queue'[j].id \/ HalfPublished(i, j)'
    <3>1. CASE i \in DOMAIN published /\ published'[i] = published[i]
      <4>1. published[i].id < queue[j + 1].id \/ HalfPublished(i, j + 1)
        BY <1>3, <3>1 DEF InSequence
      <4>2. j \in Nat /\ j >= 1 /\ queue'[j] = queue[j + 1]
        BY <1>3
      <4> QED
        BY <3>1, <4>1, <4>2 DEF HalfPublished
    <3>2. CASE i = Len(published') /\ published'[i] = e
      <4>1. m.id < queue'[j].id \/ (j = 1 /\ queue'[j] = m /\ m.kind = "state")
        BY <2>2
      <4> QED
        BY <1>4, <3>2, <4>1 DEF HalfPublished
    <3> QED
      BY <1>2, <1>4, <1>1, <3>1, <3>2, OneMore
  <2>4. /\ \A i \in DOMAIN published' : published'[i].id <= emitted'
        /\ \A i \in DOMAIN queue' : queue'[i].id <= emitted'
    BY <1>1, <1>3, <1>4, <1>5 DEF InSequence
  <2> QED
    BY <1>5, <2>1, <2>3, <2>4 DEF InSequence
<1>8. RoleIsDue'
  <2>1. published' # <<>>
    BY <1>2, <1>5
  <2> QED
    BY <1>1, <1>3, <1>5, <2>1 DEF RoleIsDue
<1>9. RoleFollowsSwitch'
  <2>1. \A i \in DOMAIN published :
           \/ published[i].id < e.id
           \/ i = Len(published) /\ published[i] = e /\ e.kind = "state"
    BY <1>3, <1>4 DEF InSequence, HalfPublished
  <2> QED
    BY <1>1, <1>2, <1>4, <2>1, MessagePublished
<1> QED
  BY <1>6, <1>7, <1>8, <1>9

\* The role_changed of a switch follows it.
LEMMA PublishesRole == ASSUME WatchInv, PublishRole PROVE WatchInv'
<1> DEFINE e == Entry("role_changed", msg)
<1> USE DEF WatchInv
<1>1. /\ pc = "role" /\ pc' = "recv" /\ published' = Append(published, e)
      /\ UNCHANGED <<master, emitted, link, queue, chanOpen, closes, cancelled, msg, backoff>>
  BY DEF PublishRole, busVars
<1>2. /\ msg \in Message /\ msg.kind = "switch" /\ published # <<>> /\ published \in Seq(Entries)
      /\ published[Len(published)] = Entry("sentinel_event", msg)
      /\ Len(published) \in DOMAIN published
  BY <1>1 DEF RoleIsDue, InSequence
<1>3. /\ e \in Entries /\ e.type = "role_changed" /\ e.kind = "switch" /\ e.id = msg.id
      /\ published[Len(published)].id = msg.id
      /\ published[Len(published)] = [e EXCEPT !.type = "sentinel_event"]
  <2>1. Entry("sentinel_event", msg) = [e EXCEPT !.type = "sentinel_event"]
    BY DEF Entry
  <2>2. e \in Entries /\ e.type = "role_changed" /\ e.kind = "switch" /\ e.id = msg.id
    BY <1>2 DEF Entry, Entries, Message
  <2>3. Entry("sentinel_event", msg).id = msg.id
    BY DEF Entry
  <2> QED
    BY <1>2, <2>1, <2>2, <2>3
<1>4. /\ published' \in Seq(Entries)
      /\ \A i \in DOMAIN published' : published'[i] = e \/ (i \in DOMAIN published /\ published'[i] = published[i])
  BY <1>1, <1>2, <1>3, OneMore
<1>h. \A i \in DOMAIN published, j \in DOMAIN queue : published[i].id < queue[j].id
  <2> SUFFICES ASSUME NEW i \in DOMAIN published, NEW j \in DOMAIN queue, HalfPublished(i, j)
               PROVE  FALSE
    BY DEF InSequence
  <2> QED
    BY <1>2 DEF HalfPublished, Entry
<1> HIDE DEF e
<1>5. TypeOK'
  <2>1. \A i \in DOMAIN published' : published'[i].type \in {"sentinel_event", "role_changed"}
    BY <1>3, <1>4 DEF TypeOK
  <2> QED
    BY <1>1, <2>1 DEF TypeOK
<1>6. InSequence'
  <2>1. e.id <= emitted /\ \A j \in DOMAIN queue : e.id < queue[j].id
    BY <1>2, <1>3, <1>h DEF InSequence
  <2> QED
    BY <1>1, <1>4, <1>h, <2>1 DEF InSequence
<1>7. RoleFollowsSwitch'
  BY <1>1, <1>2, <1>3, RolePublished
<1> QED
  BY <1>1, <1>5, <1>6, <1>7 DEF RoleIsDue

-----------------------------------------------------------------------------
(* The theorems                                                            *)

LEMMA WatchStep == ASSUME WatchInv, [Next]_vars PROVE WatchInv'
<1>1. TypeOK
  BY DEF WatchInv
<1>2. ASSUME NEW n \in Nodes, SwitchMaster(n) PROVE WatchInv'
  <2> DEFINE m == [id |-> emitted + 1, kind |-> "switch"]
  <2>1. Emit(m) /\ master' = n /\ UNCHANGED <<chanOpen, closes, watchVars>>
    BY <1>2 DEF SwitchMaster
  <2>2. m \in Message /\ m.id = emitted + 1
    BY <1>1, <2>1, SentinelWatchAssumption DEF Emit, TypeOK, Message, Kinds
  <2> QED
    BY <2>1, <2>2, Emits
<1>3. ASSUME NEW kind \in Kinds, OtherMessage(kind) PROVE WatchInv'
  <2> DEFINE m == [id |-> emitted + 1, kind |-> kind]
  <2>1. Emit(m) /\ master' = master /\ UNCHANGED <<chanOpen, closes, watchVars>>
    BY <1>3 DEF OtherMessage
  <2>2. m \in Message /\ m.id = emitted + 1 /\ master \in Nodes
    BY <1>1, <2>1, SentinelWatchAssumption DEF Emit, TypeOK, Message
  <2> QED
    BY <2>1, <2>2, Emits
<1>4. CASE LinkUp \/ LinkDown \/ LibraryCloses
  <2>1. UNCHANGED <<emitted, published, msg, queue, pc>>
    BY <1>4 DEF LinkUp, LinkDown, LibraryCloses, watchVars
  <2>2. closes' \in 0..MaxCloses
    BY <1>1, <1>4, SentinelWatchAssumption DEF LinkUp, LinkDown, LibraryCloses, TypeOK
  <2>3. TypeOK'
    BY <1>1, <1>4, <2>1, <2>2 DEF TypeOK, LinkUp, LinkDown, LibraryCloses, watchVars
  <2> QED
    BY <2>1, <2>3, QuietSteps
<1>5. CASE Subscribe \/ StopOnCancel
  <2>1. /\ UNCHANGED <<master, emitted, closes, published, msg, cancelled>>
        /\ queue' = <<>> /\ link' = FALSE /\ chanOpen' \in BOOLEAN
        /\ pc # "role" /\ pc' \in {"recv", "stopped"}
        /\ backoff' = 1 \/ backoff' = backoff
    BY <1>5 DEF Subscribe, StopOnCancel
  <2>2. queue' \in Seq(Message)
    BY <2>1
  <2>3. backoff' \in {1, 2, 4, 8, 16}
    BY <1>1, <2>1 DEF TypeOK
  <2>4. TypeOK'
    BY <1>1, <2>1, <2>2, <2>3 DEF TypeOK
  <2> QED
    BY <2>1, <2>4, QuietSteps
<1>6. CASE CtxErr \/ RecvClosed \/ WakeUp \/ Cancel \/ UNCHANGED vars
  <2>1. /\ UNCHANGED <<master, emitted, link, queue, chanOpen, closes, published, msg>>
        /\ pc' = pc \/ (pc # "role" /\ pc' \in {"top", "sleep", "stopped"})
        /\ cancelled' = cancelled \/ cancelled' = TRUE
        /\ backoff' = backoff \/ backoff' = IF backoff < 16 THEN 2 * backoff ELSE backoff
    BY <1>6 DEF CtxErr, RecvClosed, WakeUp, Cancel, vars, busVars, watchVars
  <2>2. backoff' \in {1, 2, 4, 8, 16}
    BY <1>1, <2>1 DEF TypeOK
  <2>3. TypeOK'
    BY <1>1, <2>1, <2>2 DEF TypeOK
  <2> QED
    BY <2>1, <2>3, QuietSteps
<1> QED
  BY <1>2, <1>3, <1>4, <1>5, <1>6, Receives, PublishesRole DEF Next, Bus, Watcher

LEMMA WatchInvariant == Spec => []WatchInv
BY InitWatch, WatchStep, PTL DEF Spec

\* The watcher keeps its shape: the backoff stays a power of two up to 16 s, and it
\* is subscribed only over a channel the library has open.
THEOREM TypeCorrect == Spec => []TypeOK
<1>1. WatchInv => TypeOK
  BY DEF WatchInv
<1> QED
  BY <1>1, WatchInvariant, PTL

\* WatchSentinelEvents publishes the role_changed of a +switch-master next after its
\* sentinel_event and neither twice, and only a +failover-state-* message is published
\* twice, its copies next to each other and in the order of the others, whatever the
\* library reconnects or closes and whenever the context is cancelled.
THEOREM SwitchesInPairs == Spec => []RoleFollowsSwitch
<1>1. WatchInv => RoleFollowsSwitch
  BY DEF WatchInv
<1> QED
  BY <1>1, WatchInvariant, PTL

=============================================================================
