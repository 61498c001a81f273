--------------------------- MODULE PodWatchProofs ---------------------------
(***************************************************************************)
(* For any pods, incarnations, broken streams and events in flight: the    *)
(* watcher's news is current while it is connected, never goes back, and   *)
(* a deletion it reports has happened.                                     *)
(***************************************************************************)
EXTENDS PodWatch, FiniteSetTheorems, TLAPS

-----------------------------------------------------------------------------
(* Phases                                                                  *)

Phases == {"none", "starting", "ready", "terminating", "gone"}

\* The states of a pod, with the phases spelled out.
LEMMA StateDef == State = [uid : 0..MaxUid, phase : Phases]
<1>1. {Phase[i] : i \in DOMAIN Phase} = Phases
  BY DEF Phase, Phases
<1> QED
  BY <1>1 DEF State

\* The phases of an incarnation come one after the other.
LEMMA RankValues ==
    /\ Rank("none") = 1 /\ Rank("starting") = 2 /\ Rank("ready") = 3
    /\ Rank("terminating") = 4 /\ Rank("gone") = 5
<1>1. DOMAIN Phase = 1..5
  BY DEF Phase
<1>2. Phase[1] = "none" /\ Phase[2] = "starting" /\ Phase[3] = "ready"
      /\ Phase[4] = "terminating" /\ Phase[5] = "gone"
  BY DEF Phase
<1> QED
  BY <1>1, <1>2 DEF Rank

\* Being no older is an order on states.
LEMMA NotOlderOrder ==
    ASSUME NEW a \in State, NEW b \in State, NEW c \in State
    PROVE  /\ NotOlder(a, a)
           /\ NotOlder(a, b) /\ NotOlder(b, c) => NotOlder(a, c)
BY StateDef, RankValues, PodWatchAssumption DEF NotOlder, Phases

\* A pod of which nothing was published is older than whatever will be.
LEMMA Oldest ==
    /\ [uid |-> 0, phase |-> "none"] \in State
    /\ \A st \in State : NotOlder([uid |-> 0, phase |-> "none"], st)
BY StateDef, RankValues, PodWatchAssumption DEF NotOlder, Phases

-----------------------------------------------------------------------------
(* The stream                                                              *)

WatchEvents ==
    [type : {"ADDED", "MODIFIED", "DELETED"}, name : Pods, st : State] \cup {ErrorEvent}

\* An event that is no ERROR carries a state of a pod.
LEMMA EventType ==
    ASSUME NEW e \in WatchEvents, e.type # "ERROR"
    PROVE  e.type \in {"ADDED", "MODIFIED", "DELETED"} /\ e.name \in Pods /\ e.st \in State
BY DEF WatchEvents, ErrorEvent

\* What is told by q and one more event.
LEMMA ToldAppend ==
    ASSUME NEW q \in Seq(WatchEvents), NEW e \in WatchEvents, NEW n
    PROVE  /\ Append(q, e) \in Seq(WatchEvents)
           /\ Append(q, e)[Len(q) + 1] = e
           /\ Len(q) + 1 \notin DOMAIN q /\ \A i \in DOMAIN q : i \in Nat /\ i < Len(q) + 1
           /\ \A i \in DOMAIN q : Append(q, e)[i] = q[i]
           /\ Told(Append(q, e), n) =
                IF e.type # "ERROR" /\ e.name = n THEN Told(q, n) \cup {Len(q) + 1} ELSE Told(q, n)
<1>1. /\ DOMAIN Append(q, e) = DOMAIN q \cup {Len(q) + 1}
      /\ Append(q, e)[Len(q) + 1] = e /\ Append(q, e) \in Seq(WatchEvents)
      /\ Len(q) + 1 \notin DOMAIN q /\ \A i \in DOMAIN q : i \in Nat /\ i < Len(q) + 1
  OBVIOUS
<1>2. \A i \in DOMAIN q : Append(q, e)[i] = q[i]
  OBVIOUS
<1> QED
  BY <1>1, <1>2 DEF Told

\* What is told by q once its first event is taken off.
LEMMA ToldTail ==
    ASSUME NEW q \in Seq(WatchEvents), q # <<>>, NEW n
    PROVE  /\ Tail(q) \in Seq(WatchEvents) /\ Head(q) \in WatchEvents
           /\ 1 \in DOMAIN q /\ Head(q) = q[1]
           /\ \A i \in DOMAIN q : i \in Nat /\ 1 <= i
           /\ \A i \in DOMAIN Tail(q) : i \in Nat /\ i + 1 \in DOMAIN q /\ Tail(q)[i] = q[i + 1]
           /\ \A i \in Told(q, n) : i = 1 \/ i - 1 \in Told(Tail(q), n)
           /\ \A i \in Told(Tail(q), n) : i + 1 \in Told(q, n)
<1>1. /\ Tail(q) \in Seq(WatchEvents) /\ Head(q) \in WatchEvents
      /\ 1 \in DOMAIN q /\ Head(q) = q[1]
      /\ \A i \in DOMAIN q : i \in Nat /\ 1 <= i
  OBVIOUS
<1>2. \A i \in DOMAIN Tail(q) : i \in Nat /\ i + 1 \in DOMAIN q /\ Tail(q)[i] = q[i + 1]
  OBVIOUS
<1>3. \A i \in DOMAIN q : i = 1 \/ (i - 1 \in DOMAIN Tail(q) /\ Tail(q)[i - 1] = q[i])
  OBVIOUS
<1> QED
  BY <1>1, <1>2, <1>3 DEF Told

\* News that is no longer under way was the first.
LEMMA ToldFirst ==
    ASSUME NEW q \in Seq(WatchEvents), q # <<>>, NEW n, Told(q, n) # {}
    PROVE  Told(Tail(q), n) # {} \/ (Head(q).type # "ERROR" /\ Head(q).name = n)
<1>1. PICK i \in Told(q, n) : TRUE
  OBVIOUS
<1>2. i = 1 \/ i - 1 \in Told(Tail(q), n)
  BY ToldTail
<1>3. i = 1 => Head(q).type # "ERROR" /\ Head(q).name = n
  BY ToldTail DEF Told
<1> QED
  BY <1>2, <1>3

\* What is told by a stream that was cut off.
LEMMA ToldSubSeq ==
    ASSUME NEW q \in Seq(WatchEvents), NEW k \in 0..Len(q), NEW n
    PROVE  /\ SubSeq(q, 1, k) \in Seq(WatchEvents)
           /\ DOMAIN SubSeq(q, 1, k) \subseteq DOMAIN q
           /\ \A i \in DOMAIN SubSeq(q, 1, k) : SubSeq(q, 1, k)[i] = q[i]
           /\ Told(SubSeq(q, 1, k), n) \subseteq Told(q, n)
<1>1. /\ SubSeq(q, 1, k) \in Seq(WatchEvents)
      /\ DOMAIN SubSeq(q, 1, k) \subseteq DOMAIN q
  OBVIOUS
<1>2. \A i \in DOMAIN SubSeq(q, 1, k) : SubSeq(q, 1, k)[i] = q[i]
  OBVIOUS
<1> QED
  BY <1>1, <1>2 DEF Told

\* The events a new watch starts with: one for every pod there is.
Snapshot == {[type |-> "ADDED", name |-> n, st |-> pod[n]] : n \in {m \in Pods : Exists(m)}}

\* However it is ordered, a snapshot is a stream that tells of every pod there is
\* the state it is in, and of no other.
LEMMA SnapshotTells ==
    ASSUME TypeOK, NEW q \in SetToSeqs(Snapshot)
    PROVE  /\ q \in Seq(WatchEvents)
           /\ \A i \in DOMAIN q : q[i].type = "ADDED" /\ q[i].st = pod[q[i].name]
           /\ \A n \in Pods : Exists(n) => \E i \in DOMAIN q : q[i].name = n /\ Told(q, n) = {i}
<1> DEFINE There == {m \in Pods : Exists(m)}
           f == [n \in There |-> [type |-> "ADDED", name |-> n, st |-> pod[n]]]
           k == Cardinality(Snapshot)
<1>1. IsFiniteSet(There)
  BY PodWatchAssumption, FS_Subset
<1>2. f \in Bijection(There, Snapshot)
  BY DEF Bijection, Injection, Surjection, IsInjective, Snapshot
<1>3. IsFiniteSet(Snapshot)
  BY <1>1, <1>2, FS_Bijection DEF ExistsBijection
<1>4. k \in Nat /\ q \in [1..k -> Snapshot] /\ \A i, j \in 1..k : i # j => q[i] # q[j]
  BY <1>3, FS_CardinalityType DEF SetToSeqs
<1>5. q \in Injection(1..k, Snapshot)
  BY <1>4 DEF Injection, IsInjective
<1>6. q \in Surjection(1..k, Snapshot)
  BY <1>3, <1>4, <1>5, FS_Injection, FS_Interval
<1>7. Snapshot \subseteq WatchEvents
  BY DEF Snapshot, WatchEvents, TypeOK
<1>8. q \in Seq(WatchEvents) /\ DOMAIN q = 1..k
  BY <1>4, <1>7
<1>9. \A i \in DOMAIN q : q[i].type = "ADDED" /\ q[i].st = pod[q[i].name]
  BY <1>4 DEF Snapshot
<1>10. ASSUME NEW n \in Pods, Exists(n)
       PROVE  \E i \in DOMAIN q : q[i].name = n /\ Told(q, n) = {i}
  <2>1. f[n] \in Snapshot
    BY <1>10 DEF Snapshot
  <2>2. PICK i \in 1..k : q[i] = f[n]
    BY <1>6, <2>1 DEF Surjection
  <2>3. \A j \in 1..k : q[j].name = n => q[j] = f[n]
    BY <1>4, <1>10 DEF Snapshot
  <2>4. q[i].name = n /\ q[i].type = "ADDED"
    BY <1>10, <2>2
  <2> QED
    BY <1>4, <2>2, <2>3, <2>4 DEF Told
<1> QED
  BY <1>8, <1>9, <1>10


-----------------------------------------------------------------------------
(* News in line                                                            *)

\* Between what is known and what is true, the news at the places told of q stands
\* in order.
InLine(q, told, old, st) ==
    /\ NotOlder(old, st)
    /\ \A i \in told : NotOlder(old, q[i].st) /\ NotOlder(q[i].st, st)
    /\ \A i, j \in told : i <= j => NotOlder(q[i].st, q[j].st)

\* The truth moves on and is told at the end.
LEMMA LineAppend ==
    ASSUME NEW S, NEW q \in Seq(S), NEW e \in S, NEW told \in SUBSET DOMAIN q,
           \A i \in told : q[i].st \in State,
           NEW old \in State, NEW st \in State, e.st \in State,
           InLine(q, told, old, st), NotOlder(st, e.st)
    PROVE  /\ InLine(Append(q, e), told \cup {Len(q) + 1}, old, e.st)
           /\ Informs(Append(q, e), told \cup {Len(q) + 1}, old, e.st)
<1> DEFINE r == Append(q, e)
           l == Len(q) + 1
<1>1. r[l] = e /\ l \in Nat /\ \A i \in told : i \in Nat /\ i < l /\ r[i] = q[i]
  OBVIOUS
<1> HIDE DEF r, l
<1>2. NotOlder(old, e.st) /\ NotOlder(e.st, e.st)
  BY NotOlderOrder DEF InLine
<1>3. \A i \in told : NotOlder(old, q[i].st) /\ NotOlder(q[i].st, e.st)
  BY NotOlderOrder DEF InLine
<1>4. \A i \in told \cup {l} : NotOlder(old, r[i].st) /\ NotOlder(r[i].st, e.st)
  BY <1>1, <1>2, <1>3
<1>5. ASSUME NEW i \in told \cup {l}, NEW j \in told \cup {l}, i <= j
      PROVE  NotOlder(r[i].st, r[j].st)
  <2>1. CASE j = l
    BY <1>1, <1>4, <2>1
  <2>2. CASE j \in told
    <3>1. i \in told
      BY <1>1, <1>5, <2>2
    <3> QED
      BY <1>1, <1>5, <2>2, <3>1 DEF InLine
  <2> QED
    BY <2>1, <2>2
<1>6. InLine(r, told \cup {l}, old, e.st)
  BY <1>2, <1>4, <1>5 DEF InLine
<1>7. Informs(r, told \cup {l}, old, e.st)
  <2>1. r[l].st = e.st /\ \A j \in told \cup {l} : j <= l
    BY <1>1
  <2> QED
    BY <2>1 DEF Informs
<1> QED
  BY <1>6, <1>7 DEF r, l

\* The truth moves on and is not told.
LEMMA LineMoves ==
    ASSUME NEW q, NEW told, \A i \in told : q[i].st \in State,
           NEW old \in State, NEW st \in State, NEW new \in State,
           InLine(q, told, old, st), NotOlder(st, new)
    PROVE  InLine(q, told, old, new)
BY NotOlderOrder DEF InLine

\* Some of the news is lost; what is left stands where it stood.
LEMMA LineKept ==
    ASSUME NEW q, NEW r, NEW told, NEW kept \in SUBSET told,
           \A i \in kept : r[i].st = q[i].st,
           NEW old, NEW st, InLine(q, told, old, st)
    PROVE  InLine(r, kept, old, st)
BY DEF InLine

\* The first of q is taken off: what is known now is what it told, if it told.
LEMMA LineTail ==
    ASSUME NEW S, NEW q \in Seq(S), q # <<>>, NEW told \in SUBSET DOMAIN q,
           NEW left, \A i \in left : i \in DOMAIN Tail(q) /\ i + 1 \in told,
           \A i \in told : i = 1 \/ i - 1 \in left,
           NEW old, NEW st, InLine(q, told, old, st),
           NEW new, new = IF 1 \in told THEN q[1].st ELSE old
    PROVE  /\ InLine(Tail(q), left, new, st)
           /\ NotOlder(old, new) \/ new = old
           /\ Informs(q, told, old, st) => Informs(Tail(q), left, new, st)
<1> DEFINE r == Tail(q)
<1>1. \A i \in left : i \in Nat /\ i >= 1 /\ i + 1 \in told /\ r[i] = q[i + 1]
  OBVIOUS
<1>2. \A i \in told : i \in Nat /\ i >= 1
  OBVIOUS
<1> HIDE DEF r
<1>3. InLine(r, left, new, st)
  <2>1. NotOlder(new, st)
    BY DEF InLine
  <2>2. \A i \in left : NotOlder(new, r[i].st) /\ NotOlder(r[i].st, st)
    <3>1. ASSUME NEW i \in left PROVE NotOlder(new, q[i + 1].st) /\ NotOlder(q[i + 1].st, st)
      <4>1. i + 1 \in told /\ 1 <= i + 1
        BY <1>1
      <4> QED
        BY <4>1 DEF InLine
    <3> QED
      BY <1>1, <3>1
  <2>3. ASSUME NEW i \in left, NEW j \in left, i <= j PROVE NotOlder(r[i].st, r[j].st)
    <3>1. i + 1 \in told /\ j + 1 \in told /\ i + 1 <= j + 1
      BY <1>1, <2>3
    <3>2. NotOlder(q[i + 1].st, q[j + 1].st)
      BY <3>1 DEF InLine
    <3> QED
      BY <1>1, <3>2
  <2> QED
    BY <2>1, <2>2, <2>3 DEF InLine
<1>4. NotOlder(old, new) \/ new = old
  BY DEF InLine
<1>5. ASSUME Informs(q, told, old, st) PROVE Informs(r, left, new, st)
  <2>1. CASE told = {} /\ old = st
    BY <1>1, <2>1 DEF Informs
  <2>2. ASSUME NEW i \in told, q[i].st = st, \A j \in told : j <= i
        PROVE  Informs(r, left, new, st)
    <3>1. CASE i = 1
      <4>1. left = {}
        BY <1>1, <2>2, <3>1
      <4> QED
        BY <2>2, <3>1, <4>1 DEF Informs
    <3>2. CASE i # 1
      <4>1. i - 1 \in left /\ r[i - 1].st = st
        <5>1. i - 1 \in left /\ (i - 1) + 1 = i
          BY <1>2, <2>2, <3>2
        <5> QED
          BY <1>1, <2>2, <5>1
      <4>2. \A j \in left : j <= i - 1
        BY <1>1, <1>2, <2>2
      <4> QED
        BY <4>1, <4>2 DEF Informs
    <3> QED
      BY <3>1, <3>2
  <2> QED
    BY <1>5, <2>1, <2>2 DEF Informs
<1> QED
  BY <1>3, <1>4, <1>5 DEF r

-----------------------------------------------------------------------------
(* The invariant                                                           *)

\* A stream carries watch events, and nothing is on its way once it is dropped.
QueueType == queue \in Seq(WatchEvents)

\* A pod that is there, and a deletion on its way, are of a numbered incarnation;
\* the deletion was sent when that incarnation had gone.
Numbered ==
    /\ \A n \in Pods : Exists(n) => pod[n].uid > 0
    /\ \A i \in DOMAIN queue :
          queue[i].type = "DELETED" => queue[i].st.phase = "gone" /\ queue[i].st.uid > 0

\* What is published of n, what is on its way and what n is stand in this order.
InOrder(n) == InLine(queue, Told(queue, n), last[n], pod[n])

WatchInv ==
    /\ TypeOK /\ QueueType /\ Numbered
    /\ \A n \in Pods : InOrder(n)
    /\ CurrentWhileConnected
    /\ DeletionIsReal

LEMMA InitWatch == Init => WatchInv
<1> SUFFICES ASSUME Init PROVE WatchInv
  OBVIOUS
<1>1. pod \in [Pods -> State] /\ last \in [Pods -> State]
  BY StateDef, PodWatchAssumption DEF Init, Phases
<1>2. TypeOK
  <2>1. breaks \in 0..MaxBreaks /\ reported \in SUBSET (Pods \X (1..MaxUid))
    BY PodWatchAssumption DEF Init
  <2> QED
    BY <1>1, <2>1 DEF Init, TypeOK
<1>3. QueueType /\ Numbered
  BY DEF Init, QueueType, Numbered, Exists
<1>4. \A n \in Pods : NotOlder(last[n], pod[n])
  BY RankValues DEF Init, NotOlder
<1>5. \A n \in Pods : Told(queue, n) = {}
  BY DEF Init, Told
<1>6. \A n \in Pods : InOrder(n)
  BY <1>4, <1>5 DEF InOrder, InLine
<1>7. CurrentWhileConnected /\ DeletionIsReal
  BY DEF Init, CurrentWhileConnected, DeletionIsReal
<1> QED
  BY <1>2, <1>3, <1>6, <1>7 DEF WatchInv

-----------------------------------------------------------------------------
(* The cluster's steps                                                     *)

\* The news under way is of states.
LEMMA ToldStates ==
    ASSUME WatchInv, NEW n \in Pods
    PROVE  /\ Told(queue, n) \subseteq DOMAIN queue
           /\ \A i \in Told(queue, n) : queue[i].st \in State
           /\ last[n] \in State /\ pod[n] \in State
<1>1. \A i \in Told(queue, n) : queue[i] \in WatchEvents /\ queue[i].type # "ERROR"
  BY DEF Told, WatchInv, QueueType
<1> QED
  BY <1>1, EventType DEF Told, WatchInv, TypeOK

\* A pod that moves on keeps the invariant, whether a stream is told or not: the
\* news goes behind all that is under way, and is not older than any of it.
LEMMA PodMoves ==
    ASSUME WatchInv,
           NEW n \in Pods, NEW st \in State, NEW t \in {"ADDED", "MODIFIED", "DELETED"},
           Becomes(n, st, t),
           NotOlder(pod[n], st), st.uid > 0,
           Exists(n) \/ st.uid > pod[n].uid,
           t = "DELETED" => st.phase = "gone"
    PROVE  WatchInv'
<1> DEFINE e == [type |-> t, name |-> n, st |-> st]
<1>1. /\ pod' = [pod EXCEPT ![n] = st]
      /\ queue' = IF stream = "open" THEN Append(queue, e) ELSE queue
      /\ UNCHANGED <<stream, breaks, pc, cancelled, last, reported>>
  BY DEF Becomes, WatchEvent, watchVars, WatchInv, TypeOK
<1>2. pod'[n] = st /\ \A m \in Pods \ {n} : pod'[m] = pod[m]
  BY <1>1 DEF WatchInv, TypeOK
<1>3. e \in WatchEvents /\ queue \in Seq(WatchEvents)
  BY DEF WatchEvents, QueueType, WatchInv
<1>4. e.type = t /\ e.name = n /\ e.st = st /\ t # "ERROR"
  OBVIOUS
<1> HIDE DEF e
<1>5. TypeOK'
  <2>1. pod' \in [Pods -> State]
    BY <1>1 DEF WatchInv, TypeOK
  <2>2. stream = "none" => queue' = queue
    BY <1>1
  <2> QED
    BY <1>1, <2>1, <2>2 DEF WatchInv, TypeOK
<1>6. DeletionIsReal'
  <2>1. ASSUME NEW u \in 1..MaxUid, <<n, u>> \in reported PROVE st.uid > u
    <3>1. pod[n].uid > u \/ (pod[n].uid = u /\ ~Exists(n))
      <4>1. pod[n].uid > u \/ pod[n] = [uid |-> u, phase |-> "gone"]
        BY <2>1 DEF WatchInv, DeletionIsReal
      <4> QED
        BY <4>1 DEF Exists
    <3>2. pod[n].uid \in Nat /\ st.uid \in Nat /\ u \in Nat /\ pod[n].uid <= st.uid
      BY StateDef DEF WatchInv, TypeOK, NotOlder
    <3> QED
      BY <3>1, <3>2
  <2> QED
    BY <1>1, <1>2, <2>1 DEF WatchInv, DeletionIsReal
<1>7. \A m \in Pods : Exists(m)' => pod'[m].uid > 0
  BY <1>2 DEF WatchInv, Numbered, Exists
<1>8. \A m \in Pods : NotOlder(pod[m], pod'[m]) /\ pod'[m] \in State
  BY <1>2, NotOlderOrder DEF WatchInv, TypeOK
<1>9. CASE stream = "open"
  <2>1. queue' = Append(queue, e)
    BY <1>1, <1>9
  <2>2. QueueType'
    BY <2>1, <1>3, ToldAppend DEF QueueType
  <2>3. Numbered'
    <3>1. \A i \in DOMAIN queue' : queue'[i] = e \/ (i \in DOMAIN queue /\ queue'[i] = queue[i])
      BY <1>3, <2>1
    <3>2. e.type = "DELETED" => e.st.phase = "gone" /\ e.st.uid > 0
      BY <1>4
    <3> QED
      BY <1>7, <3>1, <3>2 DEF WatchInv, Numbered
  <2>4. ASSUME NEW m \in Pods \ {n}
        PROVE  InOrder(m)' /\ (Exists(m)' => Informs(queue', Told(queue', m), last'[m], pod'[m]))
    <3>1. Told(queue', m) = Told(queue, m) /\ Told(queue, m) \subseteq DOMAIN queue
      <4>1. Told(Append(queue, e), m) = Told(queue, m)
        BY <1>3, <1>4, ToldAppend
      <4> QED
        BY <2>1, <4>1, ToldStates
    <3>2. \A i \in Told(queue, m) : queue'[i] = queue[i]
      BY <1>3, <2>1, <3>1, ToldAppend
    <3>3. InOrder(m)'
      BY <1>1, <1>2, <3>1, <3>2, LineKept DEF WatchInv, InOrder
    <3>4. Exists(m) => Informs(queue, Told(queue, m), last[m], pod[m])
      BY <1>9 DEF WatchInv, CurrentWhileConnected
    <3>5. ASSUME Exists(m) PROVE Informs(queue', Told(queue', m), last'[m], pod'[m])
      BY <1>1, <1>2, <3>1, <3>2, <3>4, <3>5 DEF Informs
    <3> QED
      BY <1>2, <3>3, <3>5 DEF Exists
  <2>5. InOrder(n)' /\ Informs(queue', Told(queue', n), last'[n], pod'[n])
    <3>1. Told(queue', n) = Told(queue, n) \cup {Len(queue) + 1}
      BY <1>3, <1>4, <2>1, ToldAppend
    <3>2. InLine(queue, Told(queue, n), last[n], pod[n])
      BY DEF WatchInv, InOrder
    <3>3. /\ InLine(Append(queue, e), Told(queue, n) \cup {Len(queue) + 1}, last[n], st)
          /\ Informs(Append(queue, e), Told(queue, n) \cup {Len(queue) + 1}, last[n], st)
      BY <1>3, <1>4, <3>2, ToldStates, LineAppend
    <3> QED
      BY <1>1, <1>2, <2>1, <3>1, <3>3 DEF InOrder
  <2> QED
    BY <1>5, <1>6, <2>2, <2>3, <2>4, <2>5 DEF WatchInv, CurrentWhileConnected
<1>10. CASE stream # "open"
  <2>1. queue' = queue /\ last' = last /\ stream' # "open"
    BY <1>1, <1>10
  <2>2. QueueType' /\ Numbered'
    BY <1>7, <2>1 DEF WatchInv, QueueType, Numbered
  <2>3. ASSUME NEW m \in Pods PROVE InOrder(m)'
    BY <1>8, <2>1, ToldStates, LineMoves DEF WatchInv, InOrder
  <2> QED
    BY <1>5, <1>6, <2>1, <2>2, <2>3 DEF WatchInv, CurrentWhileConnected
<1> QED
  BY <1>9, <1>10

\* The life of a pod goes one way.
LEMMA ClusterMoves ==
    ASSUME WatchInv, NEW n \in Pods, Recreate(n) \/ BecomeReady(n) \/ Kill(n) \/ Removed(n)
    PROVE  \E st \in State, t \in {"ADDED", "MODIFIED", "DELETED"} :
               /\ Becomes(n, st, t)
               /\ NotOlder(pod[n], st) /\ st.uid > 0
               /\ Exists(n) \/ st.uid > pod[n].uid
               /\ t = "DELETED" => st.phase = "gone"
<1>1. /\ pod[n] \in State /\ pod[n].uid \in 0..MaxUid /\ pod[n].uid \in Nat
      /\ Exists(n) => pod[n].uid > 0
  BY StateDef, PodWatchAssumption DEF WatchInv, TypeOK, Numbered
<1>2. CASE Recreate(n)
  <2> DEFINE st == [uid |-> pod[n].uid + 1, phase |-> "starting"]
  <2>1. st \in State
    BY <1>1, <1>2, StateDef, PodWatchAssumption DEF Recreate, Phases
  <2>2. NotOlder(pod[n], st) /\ st.uid > 0 /\ st.uid > pod[n].uid
    BY <1>1 DEF NotOlder
  <2>3. Becomes(n, st, "ADDED")
    BY <1>2 DEF Recreate
  <2> HIDE DEF st
  <2> QED
    BY <2>1, <2>2, <2>3
<1>3. CASE BecomeReady(n)
  <2> DEFINE st == [pod[n] EXCEPT !.phase = "ready"]
  <2>1. st \in State /\ st.uid = pod[n].uid /\ st.phase = "ready"
    BY <1>1, StateDef DEF Phases
  <2>2. pod[n].phase = "starting" /\ Becomes(n, st, "MODIFIED")
    BY <1>3 DEF BecomeReady
  <2> HIDE DEF st
  <2>3. NotOlder(pod[n], st) /\ Exists(n)
    BY <1>1, <2>1, <2>2, RankValues DEF NotOlder, Exists
  <2> QED
    BY <1>1, <2>1, <2>2, <2>3
<1>4. CASE Kill(n)
  <2> DEFINE st == [pod[n] EXCEPT !.phase = "terminating"]
  <2>1. st \in State /\ st.uid = pod[n].uid /\ st.phase = "terminating"
    BY <1>1, StateDef DEF Phases
  <2>2. pod[n].phase \in {"starting", "ready"} /\ Becomes(n, st, "MODIFIED")
    BY <1>4 DEF Kill
  <2> HIDE DEF st
  <2>3. NotOlder(pod[n], st) /\ Exists(n)
    BY <1>1, <2>1, <2>2, RankValues DEF NotOlder, Exists
  <2> QED
    BY <1>1, <2>1, <2>2, <2>3
<1>5. CASE Removed(n)
  <2> DEFINE st == [pod[n] EXCEPT !.phase = "gone"]
  <2>1. st \in State /\ st.uid = pod[n].uid /\ st.phase = "gone"
    BY <1>1, StateDef DEF Phases
  <2>2. pod[n].phase = "terminating" /\ Becomes(n, st, "DELETED")
    BY <1>5 DEF Removed
  <2> HIDE DEF st
  <2>3. NotOlder(pod[n], st) /\ Exists(n)
    BY <1>1, <2>1, <2>2, RankValues DEF NotOlder, Exists
  <2> QED
    BY <1>1, <2>1, <2>2, <2>3
<1> QED
  BY <1>2, <1>3, <1>4, <1>5

LEMMA ClusterSteps ==
    ASSUME WatchInv, NEW n \in Pods, Recreate(n) \/ BecomeReady(n) \/ Kill(n) \/ Removed(n)
    PROVE  WatchInv'
BY ClusterMoves, PodMoves

\* Where a stream ends, what it still brings stands in order.
LEMMA StreamEnds == ASSUME WatchInv, EndStream PROVE WatchInv'
<1>1. /\ stream = "open" /\ stream' = "ended"
      /\ UNCHANGED <<pod, pc, cancelled, last, reported>>
  BY DEF EndStream, watchVars
<1>2. breaks' \in 0..MaxBreaks
  BY PodWatchAssumption DEF EndStream, WatchInv, TypeOK
<1>3. TypeOK' /\ DeletionIsReal'
  BY <1>1, <1>2 DEF WatchInv, TypeOK, DeletionIsReal
<1>4. queue \in Seq(WatchEvents) /\ ErrorEvent \in WatchEvents /\ ErrorEvent.type = "ERROR"
  BY DEF WatchInv, QueueType, WatchEvents, ErrorEvent
<1>5. /\ queue' \in Seq(WatchEvents)
      /\ \A i \in DOMAIN queue' : queue'[i] = ErrorEvent \/ (i \in DOMAIN queue /\ queue'[i] = queue[i])
      /\ \A n \in Pods : Told(queue', n) \subseteq Told(queue, n)
  <2>1. CASE queue' = Append(queue, ErrorEvent)
    <3>1. \A i \in DOMAIN queue' : queue'[i] = ErrorEvent \/ (i \in DOMAIN queue /\ queue'[i] = queue[i])
      BY <1>4, <2>1
    <3>2. \A n \in Pods : Told(Append(queue, ErrorEvent), n) = Told(queue, n)
      BY <1>4, ToldAppend
    <3> QED
      BY <1>4, <2>1, <3>1, <3>2
  <2>2. CASE \E k \in 0..Len(queue) : queue' = SubSeq(queue, 1, k)
    BY <1>4, <2>2, ToldSubSeq
  <2> QED
    BY <2>1, <2>2 DEF EndStream
<1>6. Numbered'
  BY <1>1, <1>4, <1>5 DEF WatchInv, Numbered, Exists
<1>7. ASSUME NEW n \in Pods PROVE InOrder(n)'
  <2>1. \A i \in Told(queue', n) : queue'[i] = queue[i]
    BY <1>4, <1>5 DEF Told
  <2> QED
    BY <1>1, <1>5, <2>1, ToldStates, LineKept DEF WatchInv, InOrder
<1>8. CurrentWhileConnected'
  BY <1>1 DEF CurrentWhileConnected
<1> QED
  BY <1>3, <1>5, <1>6, <1>7, <1>8 DEF WatchInv, QueueType

-----------------------------------------------------------------------------
(* The watcher's steps                                                     *)

\* A step that leaves the pods and the news alone, and carries on with the stream
\* or drops it, keeps the invariant.
LEMMA QuietSteps ==
    ASSUME WatchInv,
           UNCHANGED <<pod, breaks, last, reported>>,
           pc' \in {"top", "dial", "sleep", "recv", "stopped"}, cancelled' \in BOOLEAN,
           \/ stream' = stream /\ queue' = queue /\ (stream # "none" => pc' = "recv")
           \/ stream' = "none" /\ queue' = <<>>
    PROVE  WatchInv'
<1>1. TypeOK' /\ DeletionIsReal'
  BY DEF WatchInv, TypeOK, DeletionIsReal
<1>2. CASE stream' = stream /\ queue' = queue
  BY <1>1, <1>2 DEF WatchInv, QueueType, Numbered, Exists, InOrder, CurrentWhileConnected
<1>3. CASE stream' = "none" /\ queue' = <<>>
  <2>1. QueueType' /\ Numbered'
    BY <1>3 DEF WatchInv, QueueType, Numbered, Exists
  <2>2. ASSUME NEW n \in Pods PROVE InOrder(n)'
    <3>1. Told(queue', n) = {}
      BY <1>3 DEF Told
    <3> QED
      BY <3>1, LineKept DEF WatchInv, InOrder
  <2> QED
    BY <1>1, <1>3, <2>1, <2>2 DEF WatchInv, CurrentWhileConnected
<1> QED
  BY <1>2, <1>3

\* A new watch tells of every pod there is, and that is no older than what is known.
LEMMA WatchOpens == ASSUME WatchInv, WatchOk PROVE WatchInv'
<1>1. /\ stream' = "open" /\ pc' = "recv" /\ queue' \in SetToSeqs(Snapshot)
      /\ UNCHANGED <<pod, breaks, cancelled, last, reported>>
  BY DEF WatchOk, Snapshot
<1>2. TypeOK' /\ DeletionIsReal'
  BY <1>1 DEF WatchInv, TypeOK, DeletionIsReal
<1>3. /\ queue' \in Seq(WatchEvents)
      /\ \A i \in DOMAIN queue' : queue'[i].type = "ADDED" /\ queue'[i].st = pod[queue'[i].name]
      /\ \A n \in Pods : Exists(n) =>
            \E i \in DOMAIN queue' : queue'[i].name = n /\ Told(queue', n) = {i}
  BY <1>1, SnapshotTells DEF WatchInv
<1>4. QueueType' /\ Numbered'
  BY <1>1, <1>3 DEF WatchInv, QueueType, Numbered, Exists
<1>5. ASSUME NEW n \in Pods PROVE InOrder(n)'
  <2>1. \A i \in Told(queue', n) : queue'[i].st = pod[n]
    BY <1>3 DEF Told
  <2>2. NotOlder(last[n], pod[n]) /\ NotOlder(pod[n], pod[n])
    BY NotOlderOrder DEF WatchInv, InOrder, InLine, TypeOK
  <2> QED
    BY <1>1, <2>1, <2>2 DEF InOrder, InLine
<1>6. ASSUME NEW n \in Pods, Exists(n)' PROVE Informs(queue', Told(queue', n), last'[n], pod'[n])
  <2>1. PICK i \in DOMAIN queue' : queue'[i].name = n /\ Told(queue', n) = {i}
    BY <1>1, <1>3, <1>6 DEF Exists
  <2>2. i \in Nat /\ queue'[i].st = pod'[n]
    BY <1>1, <1>3, <2>1
  <2> QED
    BY <2>1, <2>2 DEF Informs
<1> QED
  BY <1>2, <1>4, <1>5, <1>6 DEF WatchInv, CurrentWhileConnected

\* Receiving: what was next in line is published.
LEMMA Receives ==
    ASSUME WatchInv, Recv
    PROVE  WatchInv' /\ \A n \in Pods : NotOlder(last[n], last'[n])
<1> DEFINE e == Head(queue)
<1>1. /\ queue # <<>> /\ queue' = Tail(queue)
      /\ UNCHANGED <<pod, stream, breaks, pc, cancelled>>
      /\ e.type = "ERROR" => UNCHANGED <<last, reported>>
      /\ e.type # "ERROR" => /\ last' = [last EXCEPT ![e.name] = e.st]
                             /\ reported' = IF mapWatchType(e.type) = "pod_deleted"
                                            THEN reported \cup {<<e.name, e.st.uid>>} ELSE reported
  BY DEF Recv
<1>2. /\ queue \in Seq(WatchEvents) /\ e \in WatchEvents /\ e = queue[1] /\ 1 \in DOMAIN queue
      /\ queue' \in Seq(WatchEvents)
      /\ \A i \in DOMAIN queue' : i + 1 \in DOMAIN queue /\ queue'[i] = queue[i + 1]
  BY <1>1, ToldTail DEF WatchInv, QueueType
<1>3. e.type # "ERROR" => e.name \in Pods /\ e.st \in State /\ 1 \in Told(queue, e.name)
  BY <1>2, EventType DEF Told
<1> HIDE DEF e
<1>4. ASSUME NEW n \in Pods
      PROVE  /\ last'[n] = IF 1 \in Told(queue, n) THEN queue[1].st ELSE last[n]
             /\ last'[n] \in State
  BY <1>1, <1>2, <1>3 DEF Told, WatchInv, TypeOK
<1>5. last' \in [Pods -> State]
  BY <1>1, <1>3 DEF WatchInv, TypeOK
<1>6. ASSUME NEW n \in Pods
      PROVE  /\ InOrder(n)' /\ NotOlder(last[n], last'[n])
             /\ Informs(queue, Told(queue, n), last[n], pod[n])
                    => Informs(queue', Told(queue', n), last'[n], pod'[n])
  <2>1. /\ \A i \in Told(queue, n) : i = 1 \/ i - 1 \in Told(queue', n)
        /\ \A i \in Told(queue', n) : i \in DOMAIN Tail(queue) /\ i + 1 \in Told(queue, n)
    BY <1>1, <1>2, ToldTail DEF Told
  <2>2. InLine(queue, Told(queue, n), last[n], pod[n])
    BY DEF WatchInv, InOrder
  <2>3. /\ InLine(Tail(queue), Told(queue', n), last'[n], pod[n])
        /\ NotOlder(last[n], last'[n]) \/ last'[n] = last[n]
        /\ Informs(queue, Told(queue, n), last[n], pod[n])
              => Informs(Tail(queue), Told(queue', n), last'[n], pod[n])
    BY <1>1, <1>2, <1>4, <2>1, <2>2, ToldStates, LineTail
  <2>4. NotOlder(last[n], last[n])
    BY ToldStates, NotOlderOrder
  <2> QED
    BY <1>1, <2>3, <2>4 DEF InOrder
<1>7. CurrentWhileConnected'
  BY <1>1, <1>6 DEF WatchInv, CurrentWhileConnected, Exists
<1>8. Numbered'
  BY <1>1, <1>2 DEF WatchInv, Numbered, Exists
<1>9. \/ reported' = reported
      \/ /\ e.type = "DELETED" /\ e.name \in Pods /\ e.st.uid \in 1..MaxUid
         /\ reported' = reported \cup {<<e.name, e.st.uid>>}
         /\ \/ pod[e.name].uid > e.st.uid
            \/ pod[e.name] = [uid |-> e.st.uid, phase |-> "gone"]
  <2>1. CASE e.type = "DELETED"
    <3>1. e.name \in Pods /\ e.st \in State /\ pod[e.name] \in State
      BY <1>3, <2>1, ToldStates
    <3>2. e.st.phase = "gone" /\ e.st.uid > 0
      BY <1>2, <2>1 DEF WatchInv, Numbered
    <3>3. NotOlder(e.st, pod[e.name])
      BY <1>2, <1>3, <2>1, <3>1 DEF WatchInv, InOrder, InLine
    <3>4. e.st.uid \in 1..MaxUid
      BY <3>1, <3>2, StateDef, PodWatchAssumption
    <3>5. \/ pod[e.name].uid > e.st.uid
          \/ pod[e.name].uid = e.st.uid /\ pod[e.name].phase = "gone"
      BY <3>1, <3>2, <3>3, StateDef, RankValues DEF NotOlder, Phases
    <3>6. \/ pod[e.name].uid > e.st.uid
          \/ pod[e.name] = [uid |-> e.st.uid, phase |-> "gone"]
      BY <3>1, <3>5, StateDef
    <3> QED
      BY <1>1, <2>1, <3>1, <3>4, <3>6 DEF mapWatchType
  <2>2. CASE e.type # "DELETED"
    <3>1. e.type = "ERROR" \/ e.type \in {"ADDED", "MODIFIED"}
      BY <1>2, <2>2, EventType
    <3> QED
      BY <1>1, <3>1 DEF mapWatchType
  <2> QED
    BY <2>1, <2>2
<1>10. DeletionIsReal'
  BY <1>1, <1>9 DEF WatchInv, DeletionIsReal
<1>11. reported' \in SUBSET (Pods \X (1..MaxUid))
  BY <1>9 DEF WatchInv, TypeOK
<1>12. stream = "none" => queue = <<>>
  BY DEF WatchInv, TypeOK
<1>13. TypeOK'
  BY <1>1, <1>5, <1>11, <1>12 DEF WatchInv, TypeOK
<1> QED
  BY <1>2, <1>6, <1>7, <1>8, <1>10, <1>13 DEF WatchInv, QueueType

-----------------------------------------------------------------------------
(* The theorems                                                            *)

\* Every step keeps the invariant, and takes what is published of a pod forward.
LEMMA WatchStep ==
    ASSUME WatchInv, [Next]_vars
    PROVE  WatchInv' /\ \A n \in Pods : NotOlder(last[n], last'[n])
<1>1. last' = last => \A n \in Pods : NotOlder(last[n], last'[n])
  BY NotOlderOrder DEF WatchInv, TypeOK
<1>2. CASE \E n \in Pods : Recreate(n) \/ BecomeReady(n) \/ Kill(n) \/ Removed(n)
  <2>1. last' = last
    BY <1>2 DEF Recreate, BecomeReady, Kill, Removed, Becomes, watchVars
  <2> QED
    BY <1>1, <1>2, <2>1, ClusterSteps
<1>3. CASE EndStream
  <2>1. last' = last
    BY <1>3 DEF EndStream, watchVars
  <2> QED
    BY <1>1, <1>3, <2>1, StreamEnds
<1>4. CASE Recv
  BY <1>4, Receives
<1>5. CASE WatchOk
  <2>1. last' = last
    BY <1>5 DEF WatchOk
  <2> QED
    BY <1>1, <1>5, <2>1, WatchOpens
<1>6. CASE Cancel \/ CheckCtx \/ WatchFails \/ WakeUp \/ StopOnCancel \/ RecvClosed \/ UNCHANGED vars
  <2>1. /\ UNCHANGED <<pod, breaks, last, reported>>
        /\ pc' \in {"top", "dial", "sleep", "recv", "stopped"} /\ cancelled' \in BOOLEAN
        /\ \/ stream' = stream /\ queue' = queue /\ (stream # "none" => pc' = "recv")
           \/ stream' = "none" /\ queue' = <<>>
    BY <1>6 DEF WatchInv, TypeOK, Cancel, CheckCtx, WatchFails, WakeUp, StopOnCancel, RecvClosed,
                vars, apiVars, watchVars
  <2> QED
    BY <1>1, <2>1, QuietSteps
<1> QED
  BY <1>2, <1>3, <1>4, <1>5, <1>6 DEF Next, Environment, Watcher

LEMMA WatchInvariant == Spec => []WatchInv
BY InitWatch, WatchStep, PTL DEF Spec

\* Pods, stream and watcher keep their shape, and no stream is left open by a
\* WatchPods that goes round its loop or returns.
THEOREM TypeCorrect == Spec => []TypeOK
<1>1. WatchInv => TypeOK
  BY DEF WatchInv
<1> QED
  BY <1>1, WatchInvariant, PTL

\* While WatchPods has a stream open, what it published and what is on its way
\* tell the present state of every pod there is: its Watch without a resource
\* version makes up for all that was missed before.
THEOREM Currency == Spec => []CurrentWhileConnected
<1>1. WatchInv => CurrentWhileConnected
  BY DEF WatchInv
<1> QED
  BY <1>1, WatchInvariant, PTL

\* A pod_deleted of WatchPods is never premature, nor the replay of one.
THEOREM TrueDeletions == Spec => []DeletionIsReal
<1>1. WatchInv => DeletionIsReal
  BY DEF WatchInv
<1> QED
  BY <1>1, WatchInvariant, PTL

\* However often WatchPods starts a stream over, and is told all pods again, what
\* it publishes of a pod never goes back.
THEOREM OnlyForward == Spec => NeverBackwards
<1>1. WatchInv /\ [Next]_vars => [\A n \in Pods : NotOlder(last[n], last'[n])]_vars
  BY WatchStep
<1> QED
  BY <1>1, WatchInvariant, PTL DEF Spec, NeverBackwards

=============================================================================
