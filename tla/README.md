# Redis Lab: TLA+ models, checks and proofs

Redis Lab is one Go process and one web page around three Redis deployments on a
kind cluster: a standalone Redis with replicas, a Redis under Sentinel, and a
six-node Redis Cluster.  The page lets its user kill pods, reset a lab and run
commands, and shows live what happens.  This directory models the parts of it
that are concurrent or that act on a system that changes under them.  TLC checks
the models on small instances.  TLAPS proves for every instance that the event hub
implements its abstract specification, and every invariant that the runs check; the
runs alone stand for liveness and for the console.

`PROJECT.json` names, for every definition, the lines of the source it stands for,
for every property a mutation of the code that breaks it, and every hazard we know
of with its line.

## Inventory

| part | code | state | operations | modules |
|---|---|---|---|---|
| Event hub, SSE endpoint | `events/broadcaster.go`, `api/sse.go` | map lab -> channels under an RWMutex, a buffered channel per request | Subscribe, unsubscribe, Publish, handleSSE | RWMutex, Broadcaster, LabFeed |
| Pod watcher | `k8s/pods.go`, `fault/kill.go` | the open watch | WatchPods, mapWatchType, Kill, ListPods | PodWatch, LabSystem, StandaloneLab |
| Sentinel watcher | `redis/sentinel.go:180-252` | subscription, backoff | WatchSentinelEvents | SentinelWatch |
| Sentinel client and topology | `redis/sentinel.go`, `api/topology.go:140-220` | none; reads a changing lab | Cmd, CurrentMasterPod, the five queries of a topology | SentinelLab |
| Kill and reset | `api/fault.go`, `k8s/helm.go`, `scripts/reset-lab.sh` | the helm release, its volumes and pods | handleKill, handleReset, reset-lab.sh | LabReset |
| Cluster commands | `redis/cluster.go:174-312`, `api/command.go` | the result being put together | ExecuteWithRedirectLog | ClusterNodes, ClusterExec, ClusterLab |
| Cluster topology | `redis/cluster.go:50-148`, `api/topology.go:222-263` | none; reads a changing cluster | parseClusterNodes, GetShards, handleClusterTopology | ClusterNodes, ClusterTopology, ClusterLab |
| Lab page: stream, failover timer | `ui/.../useSSE.ts`, `LabLayout.tsx` | EventSource, retry timer, backoff; failover state | connect, retry, clean up; the event handler | UseSSE, FailoverTimer, LabSystem |
| Lab page: topology polling | `ui/.../useTopology.ts` | snapshot, error, loading | refresh, unmount | UseTopology, StandaloneLab |
| Lab page: console | `RedisConsole.tsx`, `useRedisCommand.ts` | history, cursor, input | Enter, CLEAR, arrows, answers | RedisConsole |
| Server lifecycle | `cmd/server/main.go` | the root context, the listener | start, listen, shut down, exit | LabReset, LabSystem; its goroutines are the publishers of the others |
| Standalone client and topology | `redis/standalone.go`, `api/topology.go:81-138`, `scripts/port-forward.sh` | none; reads a changing lab through a port-forward | Cmd, handleStandaloneTopology | StandaloneLab |
| Router, static files, K8s client and exec, rendering, scripts | | none | | not modelled |

**How they interact.**  `main` starts one `WatchPods` per lab and one
`WatchSentinelEvents`; they are the hub's publishers, so the sentinel lab has
*two* and the other labs one each (`main.go:54-57`).  Each open page holds one SSE
request, a subscriber of the hub.  The page's hook turns its events into a
refresh of the topology, which is a GET on one of the topology handlers, and,
on the sentinel lab, into the failover timer.  Kill, reset and console are POSTs.
Nothing is shared between requests but the hub and the labs themselves: no lock
protects a lab.

**What is hard.**
- The hub: readers and writers of one map, a channel that is closed while
  others send to it, buffers that overflow, clients that stop reading.
- The watchers: streams that break at any point and are opened again; what
  happened in between must be made up for and must not be told twice as new.
- The server exits and is started again in the middle of all this; what it had
  begun (a helm, a stream) goes on or breaks without it.
- Every multi-step request (topology, console, reset) works on a lab that may
  change between two of its steps, several of them at once.
- The page: answers and events out of order, timers nobody cancels.

**What makes each part correct** is stated in its module under "What is promised";
the table of runs below says it in words.

## Modules

**RWMutex**: `sync.RWMutex` as the Go documentation promises it.  A writer announces
itself, later readers wait behind it; readers that waited are let in by its
Unlock before the next writer.

**Broadcaster**: `EXTENDS RWMutex`.  A publisher is a watch loop inside `Publish`
(idle, waiting for the read lock, fanning out); a session is one `handleSSE`
request.  A request owns exactly one channel, so the session names the channel.
Every step at which another goroutine can get in between is an action: announce and
acquire the lock, add to the map, unlock, take an event, write, return, delete,
close (after the unlock, as in `broadcaster.go:46`).  `Send` and `Drop` are the two
cases of the `select`; the order of a Go map is any order.  A write of a response
may block for ever (`Flush` is only fair once the client is gone).  Event
payloads are left out: an event is its publisher and number.

**LabFeed**: the abstract specification.  A client that joins a feed is handed, in
order per publisher and at most once, some of the events published in its lab
after it joined, and nothing after it left.  `Broadcaster!FeedSpec` states that the
hub implements it: a session is `in` from the moment it is in the map until it is
taken off it, its feed is what it took off its channel.

**PodWatch**: `WatchPods` against an API server.  A pod is an incarnation number and
a phase.  A stream starts with ADDED for every pod there is, then carries the changes
in order; it can end anywhere, cut off what is in flight or end in an ERROR event.

**SentinelWatch**: `WatchSentinelEvents` against Sentinel's pub/sub.  Of the patterns
it subscribes, `+failover-state-*` and `+failover-*` overlap: Redis delivers a message
once for each pattern that matches, so a `+failover-state-...` comes twice (`Copies`),
or once if the link breaks in between, and is published as often.  go-redis
reconnects by itself (`LinkDown`, `LinkUp`: what is published meanwhile is lost)
and may close its channel.

**LabReset**: every command of `handleReset`, of `reset-lab.sh` with
`deploy-lab.sh`, and of `handleKill` is an action, with its failures and with the
context that may kill it half-way; any number of them run at once.  The server may
be told to exit meanwhile (`Signal`, `Exit`, `Restart`): a handler that is asleep or
about to reply ends with it, a command that was started is carried out without one
(`lost`, `Proceed`), and the next server, which may fail to listen (`deaf`), knows
nothing of either.  `MCLabReset` adds the symmetry of the two resets.

**SentinelLab**: a console command (resolve the master, then exec in its pod) and a
topology request (five queries) while nodes die and Sentinel fails over, in three
steps: a replica is promoted (`Promote`), the others are made to follow it
(`Reconfigure`), the monitored master is switched (`SwitchMaster`).  Between the last
two Sentinel's answers differ: GET-MASTER-ADDR-BY-NAME, which the command and
`currentMaster` rest on, names the promoted node (`MasterAddr`), SENTINEL MASTER and
SENTINEL REPLICAS still speak of the old master (`record`).  The flags of the master are
any of `s_down`, `o_down` and `disconnected`, which `flagStatus` reduces to the five
statuses of the page.  `MCSentinelLab` adds the symmetry of the pods.

**ClusterNodes**, **ClusterExec**, **ClusterTopology**, **ClusterLab**: the first
is a Redis Cluster (roles, slots, migration, failover, addresses that change and
are learned later), its answer to CLUSTER NODES and the functions that read it; the
next two are the command and the topology handler on it, the last composes them.
A command has two slots: that of its second word (`arg`), which the code takes for
the key of every command, and that of its keys (`key`), by which the cluster routes it.
GET has one for both; PING has none; INFO, KEYS or CONFIG with an argument have an
`arg` and no `key`, and are run by the pod they are sent to; OBJECT ENCODING has two
that differ.
`MCClusterLab` instantiates it, `ClusterLabProofs` holds its theorems.  The slots are the
interval from 0 that `ClusterAssumption` says they are (16384 of them in Redis).

**LabSystem**: the way of an event from a pod to a page, composed by INSTANCE of
**PodWatch** (the watcher and its API server), **UseSSE** (one `EventSource` and its
retries) and **FailoverTimer** (the failover state of the page), with the Sentinel
watcher's two events of a switch in between.  The hub is what Broadcaster
promises one session, a queue of `Cap` events that drops when it is full; the
request registers (`Subscribe`) before anything is answered, as `sse.go:32` does.
Each link loses events and starts over on its own: `Watch!EndStream`, a full
channel, `Flip` (every connection breaks), `Crash` (the server's watcher begins
anew), `LeavePage`.  `shown` is what a listener would know of each pod.

**UseTopology**, **StandaloneLab**: the polling hook with several requests in flight,
and the handler that answers it, as the two queries it makes (the pods, then
INFO through the port-forward).  `port-forward.sh` binds to one pod and dies with it.

**RedisConsole**: the console's key handler and history, several commands in flight.

## Runs

| run | bounds | what it shows |
|---|---|---|
| `hub_safety` | 2 labs, 2 publishers of one lab, 2 sessions (symmetric) in either lab, capacity 1, 2 events each; 2.3 million states | the map is never written during a range (`MapIsStable`); nothing is sent on a closed channel (`NoSendOnClosed`); a registered session has or has lost exactly the events since it registered (`NothingLostSilently`); order (`InOrder`); losses need a full buffer (`LossNeedsBacklog`); the hub implements LabFeed (`FeedSpec`) |
| `hub_live` | as above, smaller | with stalled clients every Publish returns (`PublishReturns`), and a request whose client left gives its channel back (`GoneIsReleased`) |
| `pod_watch` | 2 pods, 2 incarnations, 1 broken stream, 2 events in flight | published news is current while connected, true, never older than what was published, and comes in the end |
| `sentinel_watch` | 2 nodes, 3 messages, 2 closed channels; 25 thousand states | each published switch is followed by its one `role_changed`, and nothing is published twice but the copies of a message that matches two patterns (`RoleFollowsSwitch`); a switch whose first event is out is completed (`SwitchIsCompleted`); a subscription that is lost, by its link or its channel, is held and read again unless the watcher is cancelled (`Resubscribes`) |
| `lab_reset` | 2 resets (symmetric), 1 script, 1 kill, 1 exit of the server; 4.9 million states | a reset that had the lab to itself and answers ok leaves it ready and, if its wipe succeeded, fresh (`OkAloneIsFresh`); a lab left down has been reported to somebody, by an error or by a reset's connection that broke as the server exited (`LabDownIsReported`) |
| `cluster_lab` | 3 nodes, 2 slots, 3 addresses, 6 changes, 1 command or 1 view (`OneRequest`); 2.4 million states | a command that shows a redirect ran at most once (`RedirectedRunsOnce`); without changes, the redirects lead to where it ran, and so does `executedOn` if its second word is its key (`SettledFlowIsTrue`), and the topology shows each slot once, under the pod that serves it, and each replica with its master (`SettledTopologyIsTrue`) |
| `cluster_once` | as above, no change | *violation*: see Findings |
| `cluster_null` | as above, 2 changes | *violation*: see Findings |
| `sentinel_lab` | 3 nodes (symmetric), 1 switch, 1 command, 1 view; 2.1 million states | a command is refused by a replica only if the master moved between its two steps, at whichever stage a failover is (`RefusedOnlyIfMoved`); a topology that no switch overtook has one master with its replicas, and its `currentMaster` differs only during the reconfiguration of the replicas (`SettledViewIsWhole`) |
| `lab_system` | 1 pod, 2 incarnations, 1 broken watch, 1 event in flight on it and 2 on the channel, 1 switch, delays 1 and 2; 590 thousand states | a page whose request was registered when the watch opened, and lost nothing since, knows every pod or is about to (`WholeStreamIsCurrent`); it is never told an older state of a pod after a newer one (`NewsNeverGoesBack`); one stream at most, none after the page is left; the stream comes back; a completed failover disappears |
| `topology_poll` | master and 1 replica, 2 requests, 2 changes; 330 thousand states | an answer that no change overtook is the lab, replicas included unless the master could not be asked (`SettledViewIsTrue`); the page ends up showing the lab as it is (`EventuallyCurrent`) |
| `redis_console` | 4 commands, history of 3 | the key handler throws only with a cursor set before a CLEAR |

**Why the bounds are enough.**  In the hub the sessions interact through the lock
and publishers only; two sessions and two publishers give every pairing (reader and
writer, writer and writer, two readers on one channel), and capacity 1 with two events
each from two publishers overflows the buffer with both publishers' events; the
proofs below need no bound at all.  In PodWatch a pod deleted while no stream is
open and recreated needs two incarnations and one break.  A failover after
which the dead node returns, is known under its new address and rejoins takes
five changes of ClusterNodes; the initial states already hold every
assignment of roles and slots.  In ClusterLab requests do not influence each
other and change nothing of the cluster, so one stands for any number: the
constraint `OneRequest` of `MCClusterLab` lets either the command or the view begin.  In SentinelLab one failover, with the old master's return before or after any
of its steps, is enough to make every two answers differ; a second one begins
like the first.  In LabReset one exit of the server
orphans any subset of the two resets and the kill, and the second reset may be the
next server's.  In LabSystem pods do not influence each other: their events share
the channel, where those of the switch take the place of another pod's; a
channel of two events overflows with the pod's own; errors, crashes, flips and
retries are not bounded at all; the cap of the delay is 2 s, one doubling away from
its start, so both sides of `Math.min` occur.  In StandaloneLab two changes
put a pod's death, or a pod's and the port-forward's, between the two queries of
either request.  In the console a history of 3 is
cut with 4 commands.  `Emit`, `Publish` and the like are bounded by counters in their
guards, each named in the module's CONSTANTS.

**Deadlock** is checked in the console, whose user can always type.
`CHECK_DEADLOCK FALSE` is said where a system may stop: a hub whose sessions are done
and whose publishers have published their bounded events; a stopped watcher;
requests that are all answered; a page that was left.

## Fairness

- *Broadcaster.*  Goroutines are scheduled (weak fairness of each step).  `LockAnnounce`
  is strongly fair: Go's mutex hands over to a waiter that starves.  `Return` is
  strongly fair: `select` chooses at random among ready cases, so a context that is
  done is seen although events keep coming.  `Flush` is fair only once the client is
  gone, because only then does the write fail instead of blocking.  Events are
  bounded in the model, so the liveness of the hub is about finite bursts; that
  locks are not starved by an endless series of them rests on RWMutex.
- *PodWatch.*  The watcher is scheduled; an API server that is asked again and
  again answers in the end; a terminating pod is removed and the StatefulSet recreates
  it.  Nothing makes a stream last.
- *SentinelWatch.*  The goroutine is scheduled, its select is fair to `ctx.Done()`,
  and go-redis keeps dialling and gets through in the end (`LinkUp`); a link may break
  any number of times, a channel be closed `MaxCloses` times, and nothing makes
  Sentinel speak: `Resubscribes` says only that the subscription is there and read.
- *LabSystem.*  The browser dials, delivers what arrives on an open stream and runs
  its timeouts (`Streams`: of its steps one at most is possible at a time but for
  deliveries, which come to an end or an error), and a server that is up answers.
  Nothing makes the server stay up, or the watchers have news: `Reopens` supposes
  the first.
- *StandaloneLab.*  The interval ticks, an answer is applied, and each of the
  handler's two queries, made again and again, ends now and then (it has a deadline of
  5 s).  INFO failing although the master is up and forwarded is one of the
  bounded changes: the page of a master that never answers in time never settles.
- The other specifications have no liveness properties and no fairness.

## Proofs

`BroadcasterProofs` proves of `Broadcaster!Spec`, for any sets of labs, publishers and
sessions, any assignment of publishers to labs and any capacity, from
`BroadcasterAssumption` alone (the capacity is a positive number, publishers have
labs, `NoOwner` is no session):

- `TypeCorrect`: `Spec => []TypeOK`, which includes who holds the lock
  (`LockHolders`): no publisher holds it between two events, and one that fans out does.
- `MapStability`: `Spec => []MapIsStable`.
- `SendSafety`: `Spec => []NoSendOnClosed`.
- `PublicationOrder`: `Spec => []InOrder`.
- `BoundedLoss`: `Spec => []LossNeedsBacklog`.
- `NothingIsLostSilently`: `Spec => []NothingLostSilently`.
- `HubImplementsFeed`: `Spec => FeedSpec`, the refinement of LabFeed.

None but the first is inductive.  The lock part of the invariant ties the mutex to
the program counters: a session between Lock and Unlock is the owner, `writing`
implies there are no readers, and a publisher that fans out is a reader.  From it follows that a publisher never ranges while a session adds or
deletes, so that what it has still to visit stays inside the map (`MapIsStable`).
A second part says which sessions are in the map (those between Register and
Unregister, in their own lab only) and that a closed channel belongs to a
session that is past both, hence to none on any publisher's list (`NoSendOnClosed`).
The third says that every event on a channel has a number of at most `sent` of its
publisher, and a smaller one than `sent` while the publisher still has the channel
on its list; so a Send appends a larger number than any before (`InOrder`).
`BoundedLoss` counts what was taken off plus what waits, which no step lowers and
which is at least `Cap` when an event is dropped.  `Origin` says that what waits
for a session, and what a publisher has still to offer it, comes from its own lab and
was begun after it registered: registering keeps this because it happens under the
write lock, when nobody fans out.  With the lock and order parts it makes
every Receive a `Deliver` of LabFeed; Register is its `Join`, Unregister and Reject are its
`Leave`, StartFanout is its `Emit`, and every other step leaves the feed as it is
(`HubImplementsFeed`).  `Balanced` states `NothingLostSilently` event by event, and
that a session has neither events nor losses before it registers; a Send and a Drop
enter the event in the books in the same step as they take the session off the list.

`PodWatchProofs` proves of `PodWatch!Spec`, from `PodWatchAssumption` (finitely many pods,
bounds that are numbers, at least one incarnation):

- `TypeCorrect`: `Spec => []TypeOK`.
- `Currency`: `Spec => []CurrentWhileConnected`.
- `TrueDeletions`: `Spec => []DeletionIsReal`.
- `OnlyForward`: `Spec => NeverBackwards`, an action property.

None of the last three is inductive.  `InOrder(n)` says that the state published last
of a pod, the events on their way that tell of it and the pod itself stand in one
line in which nothing is older than what comes before (`InLine`); a new stream keeps it
because its ADDED events tell the pod as it is, and cutting one off takes events from
its end.  Receiving the first event of the line is then no step back (`OnlyForward`).
A DELETED event on its way tells the phase in which the pod is gone, and only a new
incarnation comes after that (`DeletionIsReal`).  `CurrentWhileConnected` is kept by a
change because the change itself is put on the stream, and by `Receive` because news
that is no longer on its way has just been published.  Finiteness of the pods is used
once: the snapshot a stream begins with is a sequence, in any order, of all of them.

`LabSystemProofs` proves of `LabSystem!Spec`, from `LabAssumption` (that of PodWatch, and
a channel and a longest delay of at least 1):

- `TypeCorrect`: `Spec => []TypeOK`.
- `OneStream`: `Spec => []AtMostOneStream`.  The page closes a stream before it sets the
  timer, the timer has fired before the next `EventSource` is made, and leaving the page
  clears both (`Slots`, `Count`).
- `WholeStream`: `Spec => []WholeStreamIsCurrent`.
- `NewsGoesForward`: `Spec => NewsNeverGoesBack`, an action property.

The composition keeps the watcher's invariant, and that is not proved again: every
step of the system is a step of the watcher, a stutter of it, or a restart that
begins it anew (`Crash`), and the lemmas of `PodWatchProofs` are used by INSTANCE, their
assumption discharged by `LabAssumption` (`WatchAssumption`).  `PageInOrder` puts what the
page was told and what is on its channel in one line, as `InOrder` does for the
stream, with what was published last at its end.  Together the two lines reach from
the pod to the page, and a drop, a broken connection or a restart only takes from
the channel (`NewsGoesForward`).  `WholeToPage` is the channel's half of
`WholeStreamIsCurrent`, `CurrentWhileConnected` the stream's.

`SentinelWatchProofs` proves of `SentinelWatch!Spec`, from `SentinelWatchAssumption` (the
bounds are numbers), `TypeCorrect` and `SwitchesInPairs`: `Spec => []RoleFollowsSwitch`.
`InSequence` says that what waits is newer than what was published, and in order, the
copies of one message next to each other; `HalfPublished` that, of two copies, only the
first can have been published already; `RoleIsDue` that a watcher between the two
events of a switch has published the first of them last and still holds its message.

`SentinelLabProofs` proves of `SentinelLab!Spec`, from `SentinelLabAssumption` (commands are
not topology requests, `NoPod` is no node, the bound is a number):

- `TypeCorrect`: `Spec => []TypeOK`.
- `RefusalsAreMoves`: `Spec => []RefusedOnlyIfMoved`.  `NamedIsMaster` says that the node
  Sentinel names when it is asked for the address calls itself master, at every stage
  of a failover, also if it died and came back meanwhile; `CommandsFollow` that a
  command which has not been overtaken by a move has that node for its target.
- `ViewIsWhole`: `Spec => []SettledViewIsWhole`.  `ViewsPicture` says that a request
  under way has gathered what is on record unless a switch overtook it, and what the
  address query answers as well unless a reconfiguration did; one that is answered
  has what was on record at that time.

`StandaloneLabProofs` proves of `StandaloneLab!Spec`, for any replicas and any number of
requests in flight, from `StandaloneAssumption` (the bound is a number), `TypeCorrect` and
`ViewIsTrue` (`SettledViewIsTrue`).  `ListedIsCurrent` carries the answer of the first
query to the second: a settled request that has listed the pods has listed those there
are.  INFO comes through a port-forward, which does not outlive the master's pod (a
part of `TypeOK`), so an answer that names a master has it among its pods.

`LabResetProofs` proves of `LabReset!Spec`, for any sets of resets, scripts and kills,
from `ResetAssumption` alone (the bound on the exits of the server is a number):

- `TypeCorrect`: `Spec => [](TypeOK /\ ExitsInv)`.
- `ResetIsFresh`: `Spec => []OkAloneIsFresh`.  `AloneInv` says that while a request
  that had the lab to itself runs nothing else does; `Progress` says what such a
  request has made of the release and the volumes by each of its steps.
- `DownIsReported`: `Spec => []LabDownIsReported`.  `DownInv` says that the release is
  deployed, or no reset has touched the lab, or some request is still to bring it
  up, was answered with an error or was cut off by an exit of the server.  It needs that
  a request is answered once (`KindInv`).

`ClusterLabProofs` proves of `ClusterLab!Spec`, for any nodes, addresses, commands and
topology requests and any changes of the cluster in between, from `ClusterAssumption`
(the slots are a finite interval from 0, `NoNode` and `NoAddr` are none) and
`CommandAssumption` (`Pod0` is a node, `NoKey` no slot):

- `TypeCorrect`: `Spec => []TypeOK`.
- `OnceIfRedirected`: `Spec => []RedirectedRunsOnce`.  `Executions` says how often a
  command can have been executed at each point: not before the first pass, at most once
  after it and not at all if it was redirected, and at most once more after the second.
- `FlowIsTrue`: `Spec => []SettledFlowIsTrue`.  `Flow` says that a settled command under
  way has a slot that stays where it is, or no key at all, and has met no address but
  that of the node that serves it (`Destination`), and that the slot to be shown is that
  of its second word; what `NodeForSlot` finds for it is the address of that slot's master
  (`NodeForSlotIsOwner`), which is the destination if the second word is the key.
- `TopologyIsTrue`: `Spec => []SettledTopologyIsTrue`.  `ViewInv` says that a settled
  request has the pods there are, and then the shards there are; the rest is about
  one state of the cluster.  `ShardsOfMasters` reduces writing CLUSTER NODES and
  parsing it again to one shard for each master, with the maximal runs of its slots
  (`TokensAreRuns`).  Every slot is in such a run (`RunThrough`: down to the first slot
  that is another's and up to the first one, which exist because the slots are finite),
  and in one master's only, so that no way of spreading the slots over the nodes makes
  one appear twice or not at all.

`ClusterInv` is what these need of the cluster: replicas follow masters, slots move
between masters, and Kubernetes has one address for each pod that is up and one
pod for each address.

**Only model-checked:** all liveness properties (`PublishReturns`, `GoneIsReleased`,
`ReadyIsShown`, `KillIsReported`, `CancelStops`, `SwitchIsCompleted`, `Resubscribes`,
`Reopens`, `DoneIsCleared`, `EventuallyCurrent`), because fairness is out of the prover's
reach; and `OnlyClearThrows`, the one action property of the console.

## Findings

1. *A command may be executed twice* (`cluster_once`).  `cluster.go:217` runs the
   command without `-c` to look for MOVED and `cluster.go:230` runs it again for the
   result.  If the pod it is sent to serves the slot, the first pass has already
   executed it: INCR counts by two.  `redis-lab-prompt.md:317` says it is run once
   and retried only on a redirect.  `RedirectedRunsOnce` bounds it: whenever the
   answer shows a redirect the command ran at most once.
2. *The topology of a cluster after a failover has a shard whose `slotRanges` is
   null* (`cluster_null`).  The failed master stays in CLUSTER NODES, as a master
   without slots; `GetShards` makes a shard of it whose ranges are a nil slice
   (`cluster.go:135-139`), and `topology.go:244` passes it on.  `types.ts:36` declares a
   list, and `SlotMap.tsx:21` and `TopologyView.tsx:357` iterate over it, which throws,
   until the node is back as a replica.

## Divergences

What the code does where a comment or document says, or a reader would expect,
something else.  No run is spent on these; where a passing property says how far
one goes, it is named.

- `main.go:53,95-99`: `cancel` runs only as `main` returns, so no watcher ever sees it:
  they end with the process.  `Shutdown` waits its 5 s for the open streams, which
  nobody cancels, and then leaves a running reset without an answer; the helm it
  started goes on.  `LabDownIsReported` counts the broken connection as the report.
- `main.go:84-86`: a listener that fails is logged only; the process stays, deaf.
- `topology.go:97-104`: without the master the standalone topology has no replicas
  either, though the pods listed beside them are there.  `SettledViewIsTrue`.
- `useSSE.ts:17`: nothing tells a page what was published before its request was
  registered, or while it was away; a new watch does, and the topology polls.
  `WholeStreamIsCurrent`, `EventuallyCurrent`.
- `FaultPanel.tsx:15-16`: `pod_added` does not end the failover timer, so that on the
  labs without Sentinel nothing does.
- `standalone.go:44`: go-redis repeats a command whose connection broke or that took
  longer than 2 s, so a write may be applied more than once.
- `pods.go:82-100`: a watch that ends or errs is opened again at once; the pause of
  2 s (`DESIGN.md:272`) follows only a `Watch` call that fails.
- `kill.go:13-14`: the `pod_deleted` of a kill is lost if the stream that is open
  breaks before the pod is gone; a new stream lists what exists only.
  `KillIsReported` states the condition under which it does come.
- `sentinel.go:206`: the backoff is reset as soon as a subscription object exists, so
  it never grows (`DESIGN.md:874`: exponential).
- `sentinel.go:199-200`: the two patterns overlap, so every `+failover-state-...` is
  published, and listed on the page, twice.  `RoleFollowsSwitch`.
- `sentinel.go:54-73`: under a failover the command may run on the demoted node, whose
  READONLY is then a result.  `RefusedOnlyIfMoved`.
- `topology.go:154-157`: the parts of a sentinel topology are separate queries and may
  tell of different moments (`redis-lab-prompt.md:241` shows one picture); and
  `currentMaster` comes from another answer of Sentinel's than `master`, so that the two
  differ from the reconfiguration of the replicas to the switch even if nothing
  happens between the queries.  `SettledViewIsWhole`.
- `topology.go:243`: pods and cluster nodes are joined by address, so a node that
  came back under another one is shown without a pod, or under another's.
- `cluster.go:237-238`: `executedOn` is empty for slot 0, which stands for "no slot";
  and it is looked up after the command ran, so it may name a node that took over
  since.  With a slot on its way it names the source although ASK led to the target.
  `SettledFlowIsTrue`.
- `cluster.go:182`: the second word of any command is taken for its key, and
  `executedOn` names the master of its slot.  INFO replication, KEYS * or CONFIG GET x
  have no key: they run in the pod `redis-cli` is started in, and the page shows another
  node, also in a cluster that stays as it is, where `redis-lab-prompt.md:395` has it
  show where every result was executed.  Likewise where the key is another word
  (OBJECT ENCODING k).  `SettledFlowIsTrue` speaks of `executedOn` only where the second
  word is the key.
- `cluster.go:218`: every line of the first pass is tried as a redirect, a stored
  value that reads `MOVED 1 x` included (`TakenForRedirect`).  `RedirectedRunsOnce` and
  `SettledFlowIsTrue` hold of the redirects that are the cluster's.
- `fault.go:83`: the error of the PVC wipe is dropped and the reset answers ok on
  old data, where `helm.go:39-40` promises a fresh lab.  `OkAloneIsFresh`.
- `Navbar.tsx:22-23`: "the lab is ready" holds of a reset that had the lab to itself;
  another one may have uninstalled it again.
- `useTopology.ts:2`: the latest snapshot can be replaced by an older one whose
  answer was slower; the next poll repairs it (`EventuallyCurrent`).
- `LabLayout.tsx:30`: the deletion of any pod starts the failover timer, not the
  master's only, and on every lab.  `LabLayout.tsx:35`: nothing looks at the topology to stop it; a timer
  whose switch was lost or came first runs on.
- `LabLayout.tsx:43`: the two clears of a switch are not cancelled and may end a newer
  timer.
- `RedisConsole.tsx:28`: CLEAR leaves the cursor, and the next arrow key reads
  `.command` of undefined.  `OnlyClearThrows` says nothing else does.
- `broadcaster.go:2`: "one publisher per lab" is not so for the sentinel lab.

## Not modelled

- The text of replies and values; `formatResult`, `asString`, `atoi64`.
- The fallbacks without `ExecFn` (`cluster.go:190-208`, `sentinel.go`'s
  FailoverClient): `main` always wires it.
- The text of `INFO replication`, which is passed on; the offset and the role in it.
- A console command of the standalone lab: one call, without state in this process.
- FaultPanel's busy flag and last kill, Navbar's spinner, the list of the last 200
  events: state of the page alone that nothing else reads.
- Real time: delays are steps that may take any time.
- The router, static files, Kubernetes client, rendering, setup scripts and charts:
  no state of their own.
- CLUSTER NODES as different nodes may see it: one view is shared, with addresses
  that lag behind.

## Plan

1. *FaultPanel and Navbar*: the busy flag several kills share and the reload after a
   reset, composed with LabReset.
2. *A console command of the standalone lab* with the retries of its client.
3. *Proofs*: `OnlyClearThrows` of the console (the cursor is within the history unless a
   CLEAR came after it); that LabSystem's channel is the feed of one session of LabFeed.
