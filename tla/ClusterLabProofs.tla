-------------------------- MODULE ClusterLabProofs --------------------------
(***************************************************************************)
(* For every cluster, number of commands and topology requests, and any    *)
(* changes in between: a command whose answer shows a redirect was         *)
(* executed at most once, and what no change overtook is true of the       *)
(* cluster.                                                                *)
(***************************************************************************)
EXTENDS ClusterLab, WellFoundedInduction, FiniteSetTheorems, TLAPS

\* What the argument needs to know of the shape of a command.
CommandShape ==
    /\ pc \in [Commands -> {"start", "slot", "raw", "final", "where", "done"}]
    /\ applied \in [Commands -> Nat]
    /\ redirects = [c \in Commands |-> redirects[c]]

\* The executions a command can have had by each point: none before the first
\* pass, one after it but none if it was redirected, and then those of the second.
Executions ==
    \A c \in Commands :
        /\ pc[c] \in {"start", "slot", "raw"} => applied[c] = 0 /\ redirects[c] = {}
        /\ pc[c] = "final" => applied[c] <= 1 /\ (redirects[c] \ {NoAddr} # {} => applied[c] = 0)
        /\ redirects[c] \ {NoAddr} # {} => applied[c] <= 1

OnceInv == CommandShape /\ Executions

\* No command has been executed at first.
LEMMA InitOnce == Init => OnceInv
BY DEF Init, CommandInit, OnceInv, CommandShape, Executions

\* The first pass executes the command or is redirected, never both.
LEMMA RawOnce ==
    ASSUME OnceInv, NEW c \in Commands, RawPass(c) \/ RawPassFails(c)
    PROVE  OnceInv'
<1> USE DEF OnceInv, CommandShape, Executions, Goto, Ran, Redirect, TakenForRedirect, outVars
<1>1. CASE RawPass(c) /\ applied' = [applied EXCEPT ![c] = @ + 1] /\ TakenForRedirect(c)
  BY <1>1 DEF RawPass
<1>2. CASE RawPass(c) /\ UNCHANGED applied /\ \E a \in RedirectTo(c) : Redirect(c, a)
  <2>1. PICK a : redirects' = [redirects EXCEPT ![c] = @ \cup {a}]
    BY <1>2
  <2>2. pc[c] = "raw" /\ pc' = [pc EXCEPT ![c] = "final"] /\ applied' = applied
    BY <1>2 DEF RawPass
  <2>3. CommandShape'
    BY <2>1, <2>2
  <2>4. applied'[c] = 0 /\ pc'[c] = "final"
    BY <2>2
  <2>5. \A d \in Commands \ {c} : redirects'[d] = redirects[d] /\ pc'[d] = pc[d]
    BY <2>1, <2>2
  <2>6. Executions'
    BY <2>2, <2>4, <2>5
  <2> QED
    BY <2>3, <2>6
<1>3. CASE RawPassFails(c)
  BY <1>3 DEF RawPassFails
<1> QED
  BY <1>1, <1>2, <1>3 DEF RawPass

\* The second pass adds one execution at most, and only once.
LEMMA FinalOnce ==
    ASSUME OnceInv, NEW c \in Commands,
           FinalPass(c) \/ FinalPassRefused(c) \/ FinalPassFails(c)
    PROVE  OnceInv'
BY DEF OnceInv, CommandShape, Executions, Goto, Ran, Redirect, TakenForRedirect, outVars,
       FinalPass, FinalPassRefused, FinalPassFails

\* The other steps of a command execute nothing and add no redirect.
LEMMA OtherOnce ==
    ASSUME OnceInv, NEW c \in Commands,
           \/ Refuse(c) \/ Begin(c) \/ GetSlotForKey(c)
           \/ ReturnWithNode(c) \/ ReturnWithoutNode(c)
    PROVE  OnceInv'
<1> USE DEF OnceInv, CommandShape, Executions, Goto, outVars
<1>1. CASE Refuse(c)
  BY <1>1 DEF Refuse
<1>2. CASE Begin(c)
  BY <1>2 DEF Begin
<1>3. CASE GetSlotForKey(c)
  BY <1>3 DEF GetSlotForKey
<1>4. CASE ReturnWithNode(c) \/ ReturnWithoutNode(c)
  <2>1. PICK a : Return(c, a)
    BY <1>4 DEF ReturnWithNode, ReturnWithoutNode
  <2> QED
    BY <2>1 DEF Return
<1> QED
  BY <1>1, <1>2, <1>3, <1>4

\* What the cluster or a topology request does leaves the commands alone.
LEMMA QuietOnce ==
    ASSUME OnceInv, UNCHANGED <<pc, applied, redirects>> PROVE OnceInv'
BY DEF OnceInv, CommandShape, Executions

\* A redirect in the answer of handleCommand proves that the first pass of
\* ExecuteWithRedirectLog ran nothing: the command was executed at most once.
THEOREM OnceIfRedirected == Spec => []RedirectedRunsOnce
<1>1. OnceInv /\ [Next]_vars => OnceInv'
  <2> SUFFICES ASSUME OnceInv, [Next]_vars PROVE OnceInv'
    OBVIOUS
  <2>1. CASE Change
    BY <2>1, QuietOnce DEF Change, outVars
  <2>2. ASSUME NEW c \in Commands, CommandStep(c) PROVE OnceInv'
    BY <2>2, RawOnce, FinalOnce, OtherOnce DEF CommandStep
  <2>3. CASE UNCHANGED commandVars
    BY <2>3, QuietOnce DEF commandVars, outVars
  <2>4. CASE UNCHANGED vars
    BY <2>4, <2>3 DEF vars
  <2> QED
    BY <2>1, <2>2, <2>3, <2>4 DEF Next
<1>2. OnceInv => RedirectedRunsOnce
  BY DEF OnceInv, Executions, RedirectedRunsOnce
<1> QED
  BY InitOnce, <1>1, <1>2, PTL DEF Spec


-----------------------------------------------------------------------------
(* The cluster                                                             *)

\* Masters follow nobody, a slot goes from one master to another, and Kubernetes
\* has an address for each pod that is up, and one pod for each address.
ClusterInv ==
    /\ ClusterType
    /\ \A n \in Nodes : ~IsMaster(n) => IsMaster(masterOf[n])
    /\ \A s \in Slots : migrating[s] # NoNode => IsMaster(migrating[s])
    /\ \A n \in Nodes : n \in up <=> ip[n] # NoAddr
    /\ \A m, n \in up : ip[m] = ip[n] => m = n

LEMMA InitCluster == ClusterInit => ClusterInv
<1> SUFFICES ASSUME ClusterInit PROVE ClusterInv
  OBVIOUS
<1>1. changes \in 0..MaxChanges
  BY ClusterAssumption DEF ClusterInit
<1>2. ip \in [Nodes -> Addrs] /\ \A m, n \in Nodes : ip[m] = ip[n] => m = n
  BY DEF ClusterInit, Injective
<1>3. owner \in [Slots -> Nodes] /\ \A s \in Slots : masterOf[owner[s]] = NoNode
  BY DEF ClusterInit, IsMaster
<1>4. ClusterType
  BY <1>1, <1>2, <1>3 DEF ClusterInit, ClusterType, IsMaster
<1> QED
  BY <1>2, <1>4, ClusterAssumption DEF ClusterInit, ClusterInv, IsMaster

\* Slots that move, and stop moving, move between masters.
LEMMA SlotsMove ==
    ASSUME ClusterInv, changes' \in 0..MaxChanges, NEW s \in Slots,
           EndMigration(s) \/ \E n \in Nodes : BeginMigration(s, n)
    PROVE  ClusterInv'
<1>1. CASE EndMigration(s)
  BY <1>1 DEF EndMigration, ClusterInv, ClusterType, IsMaster
<1>2. ASSUME NEW n \in Nodes, BeginMigration(s, n) PROVE ClusterInv'
  BY <1>2 DEF BeginMigration, ClusterInv, ClusterType, IsMaster
<1> QED
  BY <1>1, <1>2

\* A pod dies, or comes back with an address that no other pod has.
LEMMA PodsChange ==
    ASSUME ClusterInv, changes' \in 0..MaxChanges, NEW n \in Nodes,
           PodDies(n) \/ Gossip(n) \/ \E a \in Addrs : PodReturns(n, a)
    PROVE  ClusterInv'
<1>1. CASE PodDies(n)
  BY <1>1, ClusterAssumption DEF PodDies, ClusterInv, ClusterType, IsMaster
<1>2. CASE Gossip(n)
  BY <1>2 DEF Gossip, ClusterInv, ClusterType, IsMaster
<1>3. ASSUME NEW a \in Addrs, PodReturns(n, a) PROVE ClusterInv'
  BY <1>3, ClusterAssumption DEF PodReturns, ClusterInv, ClusterType, IsMaster
<1> QED
  BY <1>1, <1>2, <1>3

\* The replica that takes over becomes the master of all that followed the dead
\* one, slots and replicas.
LEMMA FailoverKeeps ==
    ASSUME ClusterInv, changes' \in 0..MaxChanges, NEW n \in Nodes, Failover(n)
    PROVE  ClusterInv'
<1> DEFINE old == masterOf[n]
<1>1. /\ n \in up /\ old \in Nodes \ up /\ old # NoNode
      /\ masterOf[old] = NoNode
      /\ UNCHANGED <<up, ip, addr>>
  BY ClusterAssumption DEF Failover, ClusterInv, ClusterType, IsMaster
<1>2. /\ masterOf' \in [Nodes -> Nodes \cup {NoNode}]
      /\ masterOf'[n] = NoNode
      /\ \A m \in Nodes : masterOf'[m] \in {masterOf[m], n, NoNode}
      /\ \A m \in Nodes : masterOf'[m] = old => FALSE
      /\ \A m \in Nodes : masterOf[m] = NoNode => masterOf'[m] = NoNode
  BY <1>1 DEF Failover, ClusterInv, ClusterType
<1>3. /\ owner' \in [Slots -> Nodes]
      /\ \A s \in Slots : owner'[s] \in {owner[s], n}
  BY DEF Failover, ClusterInv, ClusterType
<1>4. /\ migrating' \in [Slots -> Nodes \cup {NoNode}]
      /\ \A s \in Slots : migrating'[s] \in {migrating[s], NoNode}
  BY DEF Failover, ClusterInv, ClusterType
<1>5. ClusterType'
  BY <1>1, <1>2, <1>3, <1>4 DEF ClusterInv, ClusterType, IsMaster
<1>6. \A m \in Nodes : masterOf'[m] # NoNode => masterOf'[masterOf'[m]] = NoNode
  BY <1>2, ClusterAssumption DEF ClusterInv, ClusterType, IsMaster
<1>7. \A s \in Slots : migrating'[s] # NoNode => masterOf'[migrating'[s]] = NoNode
  BY <1>2, <1>4 DEF ClusterInv, ClusterType, IsMaster
<1> QED
  BY <1>1, <1>5, <1>6, <1>7 DEF ClusterInv, IsMaster

LEMMA ClusterSteps ==
    ASSUME ClusterInv, ClusterChange
    PROVE  ClusterInv'
<1>1. changes' \in 0..MaxChanges
  BY ClusterAssumption DEF ClusterChange, ClusterInv, ClusterType
<1>2. ASSUME NEW n \in Nodes, Rejoin(n) PROVE ClusterInv'
  <2>1. PICK s \in Slots : masterOf' = [masterOf EXCEPT ![n] = owner[s]]
    BY <1>2 DEF Rejoin
  <2>2. /\ \A t \in Slots : owner[t] # n /\ migrating[t] # n
        /\ \A m \in Nodes : masterOf[m] # n
        /\ UNCHANGED <<owner, migrating, up, ip, addr>>
    BY <1>2 DEF Rejoin
  <2> QED
    BY <1>1, <2>1, <2>2 DEF ClusterInv, ClusterType, IsMaster
<1> QED
  BY <1>1, <1>2, SlotsMove, PodsChange, FailoverKeeps DEF ClusterChange

-----------------------------------------------------------------------------
(* The runs of slots                                                       *)

\* A set of numbers that is not empty has a smallest one.
LEMMA Smallest ==
    ASSUME NEW T \in SUBSET Nat, T # {}
    PROVE  \E x \in T : \A y \in T : x <= y
<1>1. PICK x \in T : \A y \in T : ~ (<<y, x>> \in OpToRel(<, Nat))
  BY NatLessThanWellFounded, WFMin
<1>2. \A y \in T : ~ (y < x)
  BY <1>1 DEF OpToRel
<1> QED
  BY <1>2

\* Every slot of a set is in one of its maximal intervals: it reaches down to the
\* first slot that is not in the set, and up to the first one.
LEMMA RunThrough ==
    ASSUME NEW S \in SUBSET Slots, NEW s \in S
    PROVE  \E r \in Runs(S) : s \in r[1]..r[2]
<1> DEFINE N == Cardinality(Slots)
           Above == {b \in Nat : s <= b /\ b + 1 \notin S}
           Below == {d \in Nat : d <= s /\ s - d - 1 \notin S}
<1>1. N \in Nat /\ S \subseteq Nat /\ \A x \in S : x <= N - 1
  BY ClusterAssumption, FS_CardinalityType
<1> HIDE DEF N
<1>2. N - 1 \in Above /\ s \in Below
  BY <1>1
<1>3. PICK b \in Above : \A y \in Above : b <= y
  <2>1. Above \in SUBSET Nat /\ Above # {}
    BY <1>2
  <2> QED
    BY <2>1, Smallest
<1>4. PICK d \in Below : \A y \in Below : d <= y
  <2>1. Below \in SUBSET Nat /\ Below # {}
    BY <1>2
  <2> QED
    BY <2>1, Smallest
<1>5. ASSUME NEW x \in s..b, x \notin S PROVE FALSE
  <2>1. x \in Nat /\ s < x /\ x <= b
    BY <1>1, <1>5
  <2>2. x - 1 \in Above
    BY <1>1, <1>5, <2>1
  <2> QED
    BY <1>3, <2>1, <2>2
<1>6. ASSUME NEW x \in s - d..s, x \notin S PROVE FALSE
  <2>1. x \in Nat /\ x < s /\ s - d <= x
    BY <1>1, <1>4, <1>6
  <2>2. s - x - 1 \in Below
    BY <1>1, <1>6, <2>1
  <2> QED
    BY <1>1, <1>3, <1>4, <2>1, <2>2
<1> DEFINE r == <<s - d, b>>
<1>7. s \in Nat /\ b \in Nat /\ d \in Nat /\ d <= s /\ s <= b /\ s - d \in Nat
  BY <1>1, <1>3, <1>4
<1>8. s - d..b \subseteq S
  BY <1>5, <1>6, <1>7
<1>9. s - d \in S /\ b \in S /\ s - d - 1 \notin S /\ b + 1 \notin S
  BY <1>3, <1>4, <1>7, <1>8
<1>10. r \in Runs(S)
  BY <1>7, <1>8, <1>9 DEF Runs
<1> QED
  BY <1>7, <1>10

\* A run lies in the set.
LEMMA RunsInside ==
    ASSUME NEW S \in SUBSET Slots, NEW r \in Runs(S)
    PROVE  r \in Slots \X Slots /\ r[1]..r[2] \subseteq S
BY DEF Runs

-----------------------------------------------------------------------------
(* What is read from CLUSTER NODES                                         *)

Served(n) == {s \in Slots : owner[s] = n}

\* What parseClusterNodes makes of the line of n, and GetShards of a master.
NodeInfo(n) ==
    [id |-> n, addr |-> addr[n], flags |-> Flags(n), masterID |-> masterOf[n],
     slotRanges |-> Runs(Served(n))]

Followers(n) == {m \in Nodes : masterOf[m] = n}

Shard(n) ==
    [masterID |-> n, masterAddr |-> addr[n], slotRanges |-> Runs(Served(n)),
     replicas |-> {NodeInfo(m) : m \in Followers(n)}]

Masters == {n \in Nodes : IsMaster(n)}

\* Markers aside, the tokens of a line are the runs of its node's slots.
LEMMA TokensAreRuns ==
    ASSUME NEW n
    PROVE  {<<t.lo, t.hi>> : t \in {u \in Tokens(n) : u.kind # "marker"}} = Runs(Served(n))
<1> DEFINE R == Runs(Served(n))
           Token(r) == [kind |-> IF r[1] = r[2] THEN "slot" ELSE "range", lo |-> r[1], hi |-> r[2]]
           T == {u \in Tokens(n) : u.kind # "marker"}
<1>1. \A r \in R : r = <<r[1], r[2]>>
  BY DEF Runs
<1>2. \A r \in R : Token(r).kind # "marker" /\ Token(r).lo = r[1] /\ Token(r).hi = r[2]
  OBVIOUS
<1>3. T = {Token(r) : r \in R}
  <2>1. \A r \in R : Token(r) \in Tokens(n)
    BY DEF Tokens, Served
  <2>2. \A u \in Tokens(n) : u.kind # "marker" => \E r \in R : u = Token(r)
    BY DEF Tokens, Served
  <2> HIDE DEF R, Token
  <2>3. T \subseteq {Token(r) : r \in R}
    BY <2>2
  <2>4. \A r \in R : Token(r) \in T
    BY <1>2, <2>1
  <2> QED
    BY <2>3, <2>4
<1> HIDE DEF R, T, Token
<1>4. \A t \in T : <<t.lo, t.hi>> \in R
  BY <1>1, <1>2, <1>3
<1>5. \A r \in R : \E t \in T : r = <<t.lo, t.hi>>
  BY <1>1, <1>2, <1>3
<1>6. {<<t.lo, t.hi>> : t \in T} = R
  BY <1>4, <1>5
<1> QED
  BY <1>6 DEF R, T

\* The answer is parsed to one NodeInfo per node.
LEMMA ParsedNodes == parseClusterNodes(CLUSTERNODES) = {NodeInfo(n) : n \in Nodes}
<1> DEFINE Parsed(l) ==
              [id |-> l.id, addr |-> l.addr, flags |-> l.flags, masterID |-> l.master,
               slotRanges |-> {<<t.lo, t.hi>> : t \in {u \in l.tokens : u.kind # "marker"}}]
           Written(n) == [id |-> n, addr |-> addr[n], flags |-> Flags(n), master |-> masterOf[n],
                          tokens |-> Tokens(n)]
<1>1. \A n \in Nodes : Parsed(Written(n)) = NodeInfo(n)
  BY TokensAreRuns DEF NodeInfo
<1>2. parseClusterNodes(CLUSTERNODES) = {Parsed(l) : l \in {Written(n) : n \in Nodes}}
  BY DEF parseClusterNodes, CLUSTERNODES
<1> HIDE DEF Parsed, Written
<1>3. {Parsed(l) : l \in {Written(n) : n \in Nodes}} = {NodeInfo(n) : n \in Nodes}
  BY <1>1
<1> QED
  BY <1>2, <1>3

\* GetShards finds a shard for each master, with the nodes that follow it.
LEMMA ShardsOfMasters == GetShards = {Shard(n) : n \in Masters}
<1> DEFINE P == {NodeInfo(n) : n \in Nodes}
           ShardOf(i) == [masterID |-> i.id, masterAddr |-> i.addr, slotRanges |-> i.slotRanges,
                          replicas |-> {m \in P : m.masterID = i.id}]
           M == {m \in P : "master" \in m.flags}
<1>1. GetShards = {ShardOf(i) : i \in M}
  BY ParsedNodes DEF GetShards
<1>2. \A n \in Nodes : /\ NodeInfo(n).id = n /\ NodeInfo(n).addr = addr[n]
                       /\ NodeInfo(n).slotRanges = Runs(Served(n))
                       /\ NodeInfo(n).masterID = masterOf[n]
                       /\ NodeInfo(n).flags = Flags(n)
  BY DEF NodeInfo
<1>3. \A n \in Nodes : "master" \in Flags(n) <=> IsMaster(n)
  BY DEF Flags
<1> HIDE DEF NodeInfo
<1>4. M = {NodeInfo(n) : n \in Masters}
  BY <1>2, <1>3 DEF Masters
<1>5. ASSUME NEW n \in Nodes PROVE ShardOf(NodeInfo(n)) = Shard(n)
  <2>1. {m \in P : m.masterID = n} = {NodeInfo(m) : m \in Followers(n)}
    BY <1>2 DEF Followers
  <2> QED
    BY <1>2, <2>1 DEF Shard
<1> HIDE DEF ShardOf, M
<1>6. {ShardOf(i) : i \in M} = {Shard(n) : n \in Masters}
  BY <1>4, <1>5 DEF Masters
<1> QED
  BY <1>1, <1>6

\* NodeForSlot answers with the address of the slot's master, or an error.
LEMMA NodeForSlotIsOwner ==
    ASSUME NEW s \in Slots
    PROVE  NodeForSlot(s) \subseteq {addr[owner[s]]}
<1> SUFFICES ASSUME NEW t \in GetShards, NEW r \in t.slotRanges, r[1] <= s, s <= r[2]
             PROVE  t.masterAddr = addr[owner[s]]
  BY DEF NodeForSlot
<1>1. PICK n \in Masters : t = Shard(n)
  BY ShardsOfMasters
<1>2. t.masterAddr = addr[n] /\ r \in Runs(Served(n))
  BY <1>1 DEF Shard
<1>3. Served(n) \in SUBSET Slots
  BY DEF Served
<1>4. r \in Slots \X Slots /\ r[1]..r[2] \subseteq Served(n)
  BY <1>2, <1>3, RunsInside
<1>5. s \in r[1]..r[2]
  <2>1. s \in Int /\ r[1] \in Int /\ r[2] \in Int
    BY <1>4, ClusterAssumption, FS_CardinalityType
  <2> QED
    BY <2>1
<1>6. owner[s] = n
  BY <1>4, <1>5 DEF Served
<1> QED
  BY <1>2, <1>6


-----------------------------------------------------------------------------
(* Commands                                                                *)

\* Where a command is served while the cluster stays as it is.
Destination(c) == addr[IF key[c] = NoKey THEN Pod0 ELSE owner[key[c]]]

\* The slot that is reported is that of the second word, if there is one to ask for;
\* nothing is known before the command begins, and there is no result before the
\* end; and a command that nothing has overtaken, whose slot stays, has met no
\* address but that of the node that serves it.
Flow(c) ==
    /\ slot[c] # 0 => slot[c] = arg[c]
    /\ pc[c] = "slot" => arg[c] # NoKey
    /\ reply[c] = "result" => pc[c] = "done"
    /\ pc[c] = "start" => ranOn[c] = NoAddr /\ slot[c] = 0
    /\ settled[c] /\ pc[c] \in {"slot", "raw", "final", "where"} =>
          /\ key[c] # NoKey => migrating[key[c]] = NoNode
          /\ ranOn[c] \in {Destination(c), NoAddr}
          /\ redirects[c] \subseteq {Destination(c), NoAddr}

\* What the page shows of a command that nothing has overtaken.
Shown(c) ==
    reply[c] = "result" /\ ranOn[c] # NoAddr /\ settled[c] =>
        /\ arg[c] = key[c] => executedOn[c] \in {ranOn[c], NoAddr}
        /\ redirects[c] \subseteq {ranOn[c], NoAddr}

CommandInv ==
    /\ ClusterType /\ CommandType /\ OnceInv
    /\ \A c \in Commands : Flow(c) /\ Shown(c)

LEMMA InitCommands == Init => CommandInv
<1> SUFFICES ASSUME Init PROVE CommandInv
  OBVIOUS
<1>1. ClusterType
  BY InitCluster DEF Init, ClusterInv
<1>2. CommandType
  BY ClusterAssumption DEF Init, CommandInit, CommandType
<1>3. \A c \in Commands : Flow(c) /\ Shown(c)
  BY DEF Init, CommandInit, Flow, Shown
<1> QED
  BY <1>1, <1>2, <1>3, InitOnce DEF CommandInv

\* A command that is not the one that moves, in a cluster that stays.
LEMMA OtherCommands ==
    ASSUME CommandInv, NEW d \in Commands, UNCHANGED clusterVars,
           pc'[d] = pc[d], arg'[d] = arg[d], key'[d] = key[d], slot'[d] = slot[d], redirects'[d] = redirects[d],
           executedOn'[d] = executedOn[d], reply'[d] = reply[d], ranOn'[d] = ranOn[d],
           settled'[d] = settled[d]
    PROVE  Flow(d)' /\ Shown(d)'
BY DEF CommandInv, Flow, Shown, Destination, clusterVars

\* Pod0 and the other nodes send a settled command to where it is served, and it
\* runs there.
LEMMA DestinationIsServer ==
    ASSUME CommandInv, NEW c \in Commands, settled[c],
           pc[c] \in {"slot", "raw", "final", "where"}
    PROVE  /\ RedirectTo(c) \subseteq {Destination(c)}
           /\ \A n \in Servers(c) : addr[n] = Destination(c)
<1>1. key[c] # NoKey => migrating[key[c]] = NoNode
  BY DEF CommandInv, Flow
<1> QED
  BY <1>1 DEF RedirectTo, Redirected, Servers, Destination

\* A step that changes where a command is, and adds to its redirects or fills in
\* where it ran, if it is settled, its destination.
LEMMA CommandMoves ==
    ASSUME CommandInv, NEW c \in Commands, NEW b \in {"raw", "final", "where"},
           pc[c] \in {"slot", "raw", "final"}, pc' = [pc EXCEPT ![c] = b],
           UNCHANGED <<clusterVars, arg, key, executedOn, reply, settled>>,
           applied' \in [Commands -> 0..2], OnceInv',
           NEW s \in {slot[c], arg[c]}, s \in Slots, slot' = [slot EXCEPT ![c] = s],
           NEW R \in SUBSET (Addrs \cup {NoAddr}), redirects' = [redirects EXCEPT ![c] = R],
           NEW a \in Addrs \cup {NoAddr}, ranOn' = [ranOn EXCEPT ![c] = a],
           settled[c] => a \in {Destination(c), NoAddr, ranOn[c]}
                         /\ R \subseteq redirects[c] \cup {Destination(c), NoAddr}
    PROVE  CommandInv'
<1>1. ClusterType' /\ CommandType'
  BY DEF CommandInv, CommandType, ClusterType, clusterVars, IsMaster
<1>2. ASSUME NEW d \in Commands \ {c} PROVE Flow(d)' /\ Shown(d)'
  <2>1. /\ pc'[d] = pc[d] /\ slot'[d] = slot[d] /\ redirects'[d] = redirects[d]
        /\ ranOn'[d] = ranOn[d]
    BY <1>2 DEF CommandInv, CommandType
  <2> QED
    BY <1>2, <2>1, OtherCommands
<1>3. /\ pc'[c] = b /\ slot'[c] = s /\ redirects'[c] = R /\ ranOn'[c] = a
      /\ Destination(c)' = Destination(c) /\ migrating' = migrating
  BY DEF CommandInv, CommandType, Destination, clusterVars
<1>4. Flow(c) /\ reply[c] # "result"
  BY DEF CommandInv, Flow
<1>5. Flow(c)' /\ Shown(c)'
  BY <1>3, <1>4 DEF Flow, Shown
<1> QED
  BY <1>1, <1>2, <1>5 DEF CommandInv

\* A command is executed at most once before the second pass, and once by it.
LEMMA RanTwiceAtMost ==
    ASSUME CommandInv, NEW c \in Commands, pc[c] \in {"raw", "final"},
           Ran(c) \/ UNCHANGED applied
    PROVE  applied' \in [Commands -> 0..2]
<1>1. applied \in [Commands -> 0..2] /\ applied[c] <= 1
  BY DEF CommandInv, CommandType, OnceInv, Executions
<1>2. applied[c] + 1 \in 0..2
  BY <1>1
<1> QED
  BY <1>1, <1>2 DEF Ran

\* The command begins, or is turned away.
LEMMA BeginSteps ==
    ASSUME CommandInv, NEW c \in Commands, Refuse(c) \/ Begin(c)
    PROVE  CommandInv'
<1>1. OnceInv'
  BY OtherOnce DEF CommandInv
<1>2. UNCHANGED <<clusterVars, slot, redirects, executedOn, applied, ranOn>>
      /\ pc[c] = "start" /\ redirects[c] = {} /\ ranOn[c] = NoAddr /\ slot[c] = 0
  BY DEF Refuse, Begin, Goto, outVars, CommandInv, OnceInv, Executions, Flow
<1>3. CASE Refuse(c)
  <2>1. /\ pc' = [pc EXCEPT ![c] = "done"] /\ reply' = [reply EXCEPT ![c] = "refused"]
        /\ UNCHANGED <<arg, key, settled>>
    BY <1>3 DEF Refuse, Goto
  <2>2. ClusterType' /\ CommandType'
    BY <1>2, <2>1 DEF CommandInv, CommandType, ClusterType, clusterVars, IsMaster
  <2>3. \A d \in Commands \ {c} : pc'[d] = pc[d] /\ reply'[d] = reply[d]
    BY <2>1 DEF CommandInv, CommandType
  <2>4. pc'[c] = "done" /\ reply'[c] = "refused"
    BY <2>1 DEF CommandInv, CommandType
  <2>5. Flow(c)' /\ Shown(c)'
    BY <1>2, <2>4 DEF CommandInv, Flow, Shown
  <2>6. \A d \in Commands \ {c} : Flow(d)' /\ Shown(d)'
    BY <1>2, <2>1, <2>3, OtherCommands
  <2> QED
    BY <1>1, <2>2, <2>5, <2>6 DEF CommandInv
<1>4. CASE Begin(c)
  <2>1. PICK b \in Slots \cup {NoKey}, k \in Slots \cup {NoKey} :
           /\ pc' = [pc EXCEPT ![c] = IF b = NoKey THEN "raw" ELSE "slot"] /\ reply' = reply
           /\ arg' = [arg EXCEPT ![c] = b] /\ key' = [key EXCEPT ![c] = k]
           /\ settled' = [settled EXCEPT ![c] = k = NoKey \/ migrating[k] = NoNode]
    BY <1>4 DEF Begin, Args, Goto, outVars
  <2>2. ClusterType' /\ CommandType'
    BY <1>2, <2>1 DEF CommandInv, CommandType, ClusterType, clusterVars, IsMaster
  <2>3. \A d \in Commands \ {c} : /\ pc'[d] = pc[d] /\ settled'[d] = settled[d]
                                  /\ arg'[d] = arg[d] /\ key'[d] = key[d]
    BY <2>1 DEF CommandInv, CommandType
  <2>4. /\ settled'[c] => key'[c] = NoKey \/ migrating[key'[c]] = NoNode
        /\ reply[c] # "result" /\ migrating' = migrating
        /\ arg'[c] = b /\ pc'[c] = IF b = NoKey THEN "raw" ELSE "slot"
    BY <1>2, <2>1 DEF CommandInv, CommandType, Flow, clusterVars
  <2>5. Flow(c)' /\ Shown(c)'
    BY <1>2, <2>1, <2>4 DEF Flow, Shown
  <2>6. \A d \in Commands \ {c} : Flow(d)' /\ Shown(d)'
    BY <1>2, <2>1, <2>3, OtherCommands
  <2> QED
    BY <1>1, <2>2, <2>5, <2>6 DEF CommandInv
<1> QED
  BY <1>3, <1>4

\* CLUSTER KEYSLOT answers with the slot of the second word, or fails.
LEMMA SlotStep ==
    ASSUME CommandInv, NEW c \in Commands, GetSlotForKey(c)
    PROVE  CommandInv'
<1>1. OnceInv'
  BY OtherOnce DEF CommandInv
<1>2. /\ pc[c] = "slot" /\ pc' = [pc EXCEPT ![c] = "raw"]
      /\ slot' \in {slot, [slot EXCEPT ![c] = arg[c]]}
      /\ UNCHANGED <<clusterVars, arg, key, redirects, executedOn, reply, applied, ranOn, settled>>
  BY DEF GetSlotForKey, Goto
<1>3. slot \in [Commands -> Slots] /\ arg[c] \in Slots /\ slot[c] \in Slots
  BY <1>2 DEF CommandInv, CommandType, Flow
<1>4. PICK s \in {slot[c], arg[c]} : slot' = [slot EXCEPT ![c] = s]
  BY <1>2, <1>3
<1>5. /\ redirects[c] \in SUBSET (Addrs \cup {NoAddr}) /\ redirects' = [redirects EXCEPT ![c] = redirects[c]]
      /\ ranOn[c] \in Addrs \cup {NoAddr} /\ ranOn' = [ranOn EXCEPT ![c] = ranOn[c]]
      /\ applied' \in [Commands -> 0..2]
  BY <1>2 DEF CommandInv, CommandType
<1> QED
  BY <1>1, <1>2, <1>3, <1>4, <1>5, CommandMoves

\* The nodes a command is sent to are nodes, with addresses.
LEMMA ServersAreNodes ==
    ASSUME CommandInv, NEW c \in Commands
    PROVE  RedirectTo(c) \subseteq Addrs /\ Servers(c) \subseteq Nodes
<1>1. key[c] \in Slots \cup {NoKey} /\ Pod0 \in Nodes
  BY CommandAssumption DEF CommandInv, CommandType
<1>2. Redirected(c) \subseteq Nodes /\ Servers(c) \subseteq Nodes
  BY <1>1 DEF Redirected, Servers, CommandInv, ClusterType
<1>3. \A n \in Nodes : addr[n] \in Addrs
  BY DEF CommandInv, ClusterType
<1> QED
  BY <1>2, <1>3 DEF RedirectTo

\* The first pass: if nothing has overtaken the command, a redirect it meets leads
\* to its destination.
LEMMA RawSteps ==
    ASSUME CommandInv, NEW c \in Commands, RawPass(c) \/ RawPassFails(c)
    PROVE  CommandInv'
<1>1. OnceInv'
  BY RawOnce DEF CommandInv
<1>2. /\ pc[c] = "raw" /\ pc' = [pc EXCEPT ![c] = "final"]
      /\ Ran(c) \/ UNCHANGED applied
      /\ UNCHANGED <<clusterVars, arg, key, slot, executedOn, reply, ranOn, settled>>
  BY DEF RawPass, RawPassFails, Goto, outVars
<1>3. applied' \in [Commands -> 0..2]
  BY <1>2, RanTwiceAtMost
<1>4. \/ UNCHANGED redirects \/ Redirect(c, NoAddr)
      \/ \E a \in RedirectTo(c) : Redirect(c, a)
  BY DEF RawPass, RawPassFails, TakenForRedirect, outVars
<1>5. redirects \in [Commands -> SUBSET (Addrs \cup {NoAddr})] /\ RedirectTo(c) \subseteq Addrs
      /\ (settled[c] => RedirectTo(c) \subseteq {Destination(c)})
  BY <1>2, ServersAreNodes, DestinationIsServer DEF CommandInv, CommandType
<1>6. PICK R \in SUBSET (Addrs \cup {NoAddr}) :
         /\ redirects' = [redirects EXCEPT ![c] = R]
         /\ settled[c] => R \subseteq redirects[c] \cup {Destination(c), NoAddr}
  <2>1. CASE UNCHANGED redirects
    <3>1. redirects' = [redirects EXCEPT ![c] = redirects[c]] /\ redirects[c] \in SUBSET (Addrs \cup {NoAddr})
      BY <1>5, <2>1
    <3> QED
      BY <3>1
  <2>2. ASSUME NEW a \in RedirectTo(c) \cup {NoAddr}, Redirect(c, a)
        PROVE  \E R \in SUBSET (Addrs \cup {NoAddr}) :
                  /\ redirects' = [redirects EXCEPT ![c] = R]
                  /\ settled[c] => R \subseteq redirects[c] \cup {Destination(c), NoAddr}
    <3>1. redirects' = [redirects EXCEPT ![c] = redirects[c] \cup {a}]
      BY <2>2 DEF Redirect
    <3>2. redirects[c] \cup {a} \in SUBSET (Addrs \cup {NoAddr})
          /\ (settled[c] => redirects[c] \cup {a} \subseteq redirects[c] \cup {Destination(c), NoAddr})
      BY <1>5
    <3> QED
      BY <3>1, <3>2
  <2> QED
    BY <1>4, <2>1, <2>2
<1>7. /\ slot[c] \in Slots /\ slot' = [slot EXCEPT ![c] = slot[c]]
      /\ ranOn[c] \in Addrs \cup {NoAddr} /\ ranOn' = [ranOn EXCEPT ![c] = ranOn[c]]
  BY <1>2 DEF CommandInv, CommandType
<1>8. /\ UNCHANGED <<clusterVars, arg, key, executedOn, reply, settled>>
      /\ slot[c] \in {slot[c], arg[c]} /\ pc[c] \in {"slot", "raw", "final"}
      /\ settled[c] => /\ ranOn[c] \in {Destination(c), NoAddr, ranOn[c]}
                       /\ R \subseteq redirects[c] \cup {Destination(c), NoAddr}
  BY <1>2, <1>6
<1>9. pc' = [pc EXCEPT ![c] = "final"] /\ redirects' = [redirects EXCEPT ![c] = R]
  BY <1>2, <1>6
<1> QED
  BY <1>1, <1>3, <1>7, <1>8, <1>9, CommandMoves

\* The second pass: if nothing has overtaken the command, it runs at its
\* destination.
LEMMA FinalSteps ==
    ASSUME CommandInv, NEW c \in Commands, FinalPass(c) \/ FinalPassRefused(c)
    PROVE  CommandInv'
<1>1. OnceInv'
  BY FinalOnce DEF CommandInv
<1>2. /\ pc[c] = "final" /\ pc' = [pc EXCEPT ![c] = "where"]
      /\ Ran(c) \/ UNCHANGED applied
      /\ UNCHANGED <<clusterVars, arg, key, slot, executedOn, reply, settled>>
  BY DEF FinalPass, FinalPassRefused, Goto, outVars
<1>3. applied' \in [Commands -> 0..2]
  BY <1>2, RanTwiceAtMost
<1>4. UNCHANGED redirects \/ Redirect(c, NoAddr)
  BY DEF FinalPass, FinalPassRefused, TakenForRedirect, outVars
<1>5. UNCHANGED ranOn \/ \E n \in Servers(c) : ranOn' = [ranOn EXCEPT ![c] = addr[n]]
  BY DEF FinalPass, FinalPassRefused
<1>6. redirects \in [Commands -> SUBSET (Addrs \cup {NoAddr})] /\ ranOn \in [Commands -> Addrs \cup {NoAddr}]
      /\ slot[c] \in Slots /\ slot' = [slot EXCEPT ![c] = slot[c]]
  BY <1>2 DEF CommandInv, CommandType
<1>7. PICK R \in SUBSET (Addrs \cup {NoAddr}) :
         /\ redirects' = [redirects EXCEPT ![c] = R]
         /\ R \subseteq redirects[c] \cup {Destination(c), NoAddr}
  <2>1. CASE UNCHANGED redirects
    <3>1. redirects' = [redirects EXCEPT ![c] = redirects[c]] /\ redirects[c] \in SUBSET (Addrs \cup {NoAddr})
      BY <1>6, <2>1
    <3> QED
      BY <3>1
  <2>2. CASE Redirect(c, NoAddr)
    <3>1. redirects' = [redirects EXCEPT ![c] = redirects[c] \cup {NoAddr}]
      BY <2>2 DEF Redirect
    <3>2. redirects[c] \cup {NoAddr} \in SUBSET (Addrs \cup {NoAddr})
      BY <1>6
    <3> QED
      BY <3>1, <3>2
  <2> QED
    BY <1>4, <2>1, <2>2
<1>8. PICK a \in Addrs \cup {NoAddr} :
         /\ ranOn' = [ranOn EXCEPT ![c] = a]
         /\ settled[c] => a \in {Destination(c), NoAddr, ranOn[c]}
  <2>1. CASE UNCHANGED ranOn
    <3>1. ranOn' = [ranOn EXCEPT ![c] = ranOn[c]] /\ ranOn[c] \in Addrs \cup {NoAddr}
      BY <1>6, <2>1
    <3> QED
      BY <3>1
  <2>2. ASSUME NEW n \in Servers(c), ranOn' = [ranOn EXCEPT ![c] = addr[n]]
        PROVE  \E a \in Addrs \cup {NoAddr} :
                  /\ ranOn' = [ranOn EXCEPT ![c] = a]
                  /\ settled[c] => a \in {Destination(c), NoAddr, ranOn[c]}
    <3>1. addr[n] \in Addrs
      BY ServersAreNodes DEF CommandInv, ClusterType
    <3>2. settled[c] => addr[n] = Destination(c)
      BY <1>2, DestinationIsServer
    <3> QED
      BY <2>2, <3>1, <3>2
  <2> QED
    BY <1>5, <2>1, <2>2
<1>9. /\ UNCHANGED <<clusterVars, arg, key, executedOn, reply, settled>>
      /\ slot[c] \in {slot[c], arg[c]} /\ pc[c] \in {"slot", "raw", "final"}
      /\ settled[c] => /\ a \in {Destination(c), NoAddr, ranOn[c]}
                       /\ R \subseteq redirects[c] \cup {Destination(c), NoAddr}
  BY <1>2, <1>7, <1>8
<1>10. /\ pc' = [pc EXCEPT ![c] = "where"]
       /\ redirects' = [redirects EXCEPT ![c] = R] /\ ranOn' = [ranOn EXCEPT ![c] = a]
  BY <1>2, <1>7, <1>8
<1> QED
  BY <1>1, <1>3, <1>6, <1>9, <1>10, CommandMoves

\* The result is returned, with the node that NodeForSlot names for the slot of
\* the second word; or the second pass fails, with no result.
LEMMA EndSteps ==
    ASSUME CommandInv, NEW c \in Commands,
           FinalPassFails(c) \/ ReturnWithNode(c) \/ ReturnWithoutNode(c)
    PROVE  CommandInv'
<1>1. OnceInv'
  BY FinalOnce, OtherOnce DEF CommandInv
<1>2. /\ UNCHANGED <<clusterVars, arg, key, slot, redirects, ranOn, settled>>
      /\ pc[c] \in {"final", "where"} /\ pc' = [pc EXCEPT ![c] = "done"]
  BY DEF FinalPassFails, ReturnWithNode, ReturnWithoutNode, Return, Goto
<1>3. applied' \in [Commands -> 0..2]
  <2>1. CASE FinalPassFails(c)
    BY <2>1, RanTwiceAtMost DEF FinalPassFails, Goto
  <2>2. CASE ReturnWithNode(c) \/ ReturnWithoutNode(c)
    BY <2>2 DEF ReturnWithNode, ReturnWithoutNode, Return, CommandInv, CommandType
  <2> QED
    BY <2>1, <2>2
<1>4. PICK a \in Addrs \cup {NoAddr}, w \in {"result", "error"} :
         /\ reply' = [reply EXCEPT ![c] = w] /\ executedOn' = [executedOn EXCEPT ![c] = a]
         /\ w = "result" => pc[c] = "where" /\ (a = NoAddr \/ (slot[c] # 0 /\ a = addr[owner[slot[c]]]))
  <2>1. CASE FinalPassFails(c)
    <3>1. /\ executedOn[c] \in Addrs \cup {NoAddr} /\ executedOn' = [executedOn EXCEPT ![c] = executedOn[c]]
          /\ reply' = [reply EXCEPT ![c] = "error"]
      BY <2>1 DEF FinalPassFails, CommandInv, CommandType
    <3> QED
      BY <3>1
  <2>2. CASE ReturnWithoutNode(c)
    BY <2>2 DEF ReturnWithoutNode, Return, Goto
  <2>3. CASE ReturnWithNode(c)
    <3>1. PICK a \in NodeForSlot(slot[c]) \cup {NoAddr} : Return(c, a)
      BY <2>3 DEF ReturnWithNode
    <3>2. slot[c] \in Slots /\ slot[c] > 0
      BY <2>3 DEF ReturnWithNode, CommandInv, CommandType
    <3>3. a \in {addr[owner[slot[c]]], NoAddr} /\ slot[c] # 0
      BY <3>2, NodeForSlotIsOwner
    <3>4. a \in Addrs \cup {NoAddr}
      BY <3>2, <3>3 DEF CommandInv, ClusterType
    <3> QED
      BY <3>1, <3>3, <3>4 DEF Return, Goto
  <2> QED
    BY <2>1, <2>2, <2>3
<1>5. ClusterType' /\ CommandType'
  BY <1>2, <1>3, <1>4 DEF CommandInv, CommandType, ClusterType, clusterVars, IsMaster
<1>6. \A d \in Commands \ {c} : pc'[d] = pc[d] /\ reply'[d] = reply[d] /\ executedOn'[d] = executedOn[d]
  BY <1>2, <1>4 DEF CommandInv, CommandType
<1>7. pc'[c] = "done" /\ reply'[c] = w /\ executedOn'[c] = a
  BY <1>2, <1>4 DEF CommandInv, CommandType
<1>8. Flow(c)' /\ Shown(c)'
  <2>1. Flow(c)'
    BY <1>2, <1>7 DEF CommandInv, Flow
  <2>2. ASSUME reply'[c] = "result", ranOn'[c] # NoAddr, settled'[c]
        PROVE  /\ arg'[c] = key'[c] => executedOn'[c] \in {ranOn'[c], NoAddr}
               /\ redirects'[c] \subseteq {ranOn'[c], NoAddr}
    <3>1. pc[c] = "where" /\ settled[c] /\ ranOn[c] # NoAddr
      BY <1>2, <1>4, <1>7, <2>2
    <3>2. ranOn[c] = Destination(c) /\ redirects[c] \subseteq {Destination(c), NoAddr}
      BY <3>1 DEF CommandInv, Flow
    <3>3. slot[c] # 0 => arg[c] # NoKey /\ slot[c] = arg[c]
      BY CommandAssumption DEF CommandInv, CommandType, Flow
    <3>4. arg[c] = key[c] => a \in {Destination(c), NoAddr}
      BY <1>4, <1>7, <2>2, <3>3 DEF Destination
    <3> QED
      BY <1>2, <1>7, <3>2, <3>4
  <2> QED
    BY <2>1, <2>2 DEF Shown
<1>9. \A d \in Commands \ {c} : Flow(d)' /\ Shown(d)'
  BY <1>2, <1>6, OtherCommands
<1> QED
  BY <1>1, <1>5, <1>8, <1>9 DEF CommandInv

\* A change of the cluster overtakes the commands under way.
LEMMA ChangeOvertakes ==
    ASSUME CommandInv, ClusterType', Overtake, UNCHANGED <<pc, arg, key, outVars, applied, ranOn>>
    PROVE  CommandInv'
<1>1. OnceInv'
  BY QuietOnce DEF CommandInv, outVars
<1>2. /\ settled' \in [Commands -> BOOLEAN]
      /\ \A c \in Commands : settled'[c] => settled[c] /\ pc[c] \in {"start", "done"}
  BY DEF Overtake, CommandInv, CommandType
<1>3. CommandType'
  BY <1>2 DEF CommandInv, CommandType, outVars
<1>4. \A c \in Commands : Flow(c)' /\ Shown(c)'
  BY <1>2 DEF CommandInv, Flow, Shown, outVars
<1> QED
  BY <1>1, <1>3, <1>4 DEF CommandInv


LEMMA CommandSteps ==
    ASSUME CommandInv, NEW c \in Commands, CommandStep(c)
    PROVE  CommandInv'
BY BeginSteps, SlotStep, RawSteps, FinalSteps, EndSteps DEF CommandStep

-----------------------------------------------------------------------------
(* Topology requests                                                       *)

\* The shard views of the cluster as it is, their pods found in p.
ViewOf(p) ==
    {[masterID   |-> sh.masterID,
      masterPod  |-> podForIP(p, sh.masterAddr),
      slotRanges |-> sh.slotRanges,
      replicas   |-> {[id |-> r.id, pod |-> podForIP(p, r.addr)] : r \in sh.replicas}] :
        sh \in GetShards}

\* The shard view of master n.
ShardViewOf(n, p) ==
    [masterID   |-> n,
     masterPod  |-> podForIP(p, addr[n]),
     slotRanges |-> Runs(Served(n)),
     replicas   |-> {[id |-> m, pod |-> podForIP(p, addr[m])] : m \in Followers(n)}]

\* A request that no change has overtaken has the pods there are, and the shards.
ViewInv ==
    /\ ClusterType /\ ViewType
    /\ shards = [v \in Views |-> shards[v]]
    /\ \A v \in Views : vsettled[v] =>
          /\ vpc[v] = "nodes" => pods[v] = ip
          /\ vpc[v] \in {"info", "done"} => shards[v] = ViewOf(ip)

\* One shard view for each master.
LEMMA ViewsOfMasters ==
    ASSUME NEW p
    PROVE  ViewOf(p) = {ShardViewOf(n, p) : n \in Masters}
<1> DEFINE Seen(sh) ==
              [masterID   |-> sh.masterID,
               masterPod  |-> podForIP(p, sh.masterAddr),
               slotRanges |-> sh.slotRanges,
               replicas   |-> {[id |-> r.id, pod |-> podForIP(p, r.addr)] : r \in sh.replicas}]
<1>1. \A n : Shard(n).masterID = n /\ Shard(n).masterAddr = addr[n]
             /\ Shard(n).slotRanges = Runs(Served(n))
             /\ Shard(n).replicas = {NodeInfo(m) : m \in Followers(n)}
  BY DEF Shard
<1>2. \A m : NodeInfo(m).id = m /\ NodeInfo(m).addr = addr[m]
  BY DEF NodeInfo
<1>3. ASSUME NEW n PROVE Seen(Shard(n)) = ShardViewOf(n, p)
  <2>1. {[id |-> r.id, pod |-> podForIP(p, r.addr)] : r \in {NodeInfo(m) : m \in Followers(n)}}
          = {[id |-> m, pod |-> podForIP(p, addr[m])] : m \in Followers(n)}
    BY <1>2
  <2> QED
    BY <1>1, <2>1 DEF ShardViewOf
<1>4. ViewOf(p) = {Seen(sh) : sh \in {Shard(n) : n \in Masters}}
  BY ShardsOfMasters DEF ViewOf
<1> HIDE DEF Seen
<1>5. {Seen(sh) : sh \in {Shard(n) : n \in Masters}} = {ShardViewOf(n, p) : n \in Masters}
  BY <1>3
<1> QED
  BY <1>4, <1>5

\* podForIP answers with a pod or with none.
LEMMA PodForIPType ==
    ASSUME NEW p, NEW a
    PROVE  podForIP(p, a) \in Nodes \cup {NoNode}
BY DEF podForIP

\* What is shown of a shard has its shape.
LEMMA ViewsAreShardViews ==
    ASSUME NEW p, NEW sh \in ViewOf(p)
    PROVE  sh \in ShardView
<1>1. PICK n \in Masters : sh = ShardViewOf(n, p)
  BY ViewsOfMasters
<1>2. n \in Nodes /\ Served(n) \in SUBSET Slots /\ Followers(n) \subseteq Nodes
  BY DEF Masters, Served, Followers
<1>3. Runs(Served(n)) \in SUBSET (Slots \X Slots)
  BY <1>2, RunsInside
<1>4. {[id |-> m, pod |-> podForIP(p, addr[m])] : m \in Followers(n)}
        \in SUBSET [id : Nodes, pod : Nodes \cup {NoNode}]
  BY <1>2, PodForIPType
<1> QED
  BY <1>1, <1>2, <1>3, <1>4, PodForIPType DEF ShardViewOf, ShardView

LEMMA InitViews == Init => ViewInv
<1> SUFFICES ASSUME Init PROVE ViewInv
  OBVIOUS
<1>1. ClusterType
  BY InitCluster DEF Init, ClusterInv
<1>2. ViewType
  BY DEF Init, ViewInit, ViewType
<1> QED
  BY <1>1, <1>2 DEF Init, ViewInit, ViewInv

\* In a cluster that stays, its picture does.
LEMMA PictureStays ==
    ASSUME UNCHANGED clusterVars
    PROVE  ip' = ip /\ ViewOf(ip)' = ViewOf(ip) /\ (ClusterType => ClusterType')
<1>1. UNCHANGED <<masterOf, owner, migrating, up, ip, addr, changes>>
  BY DEF clusterVars
<1>2. CLUSTERNODES' = CLUSTERNODES
  BY <1>1 DEF CLUSTERNODES, Flags, IsMaster, Tokens
<1>3. GetShards' = GetShards
  BY <1>2 DEF GetShards, parseClusterNodes
<1>4. ViewOf(ip)' = ViewOf(ip)
  BY <1>1, <1>3 DEF ViewOf, podForIP
<1> QED
  BY <1>1, <1>4 DEF ClusterType, IsMaster

\* A request asks for the pods, then for the shards, and joins them.
LEMMA ViewSteps ==
    ASSUME ViewInv, NEW v \in Views, ViewStep(v)
    PROVE  ViewInv'
<1>1. UNCHANGED <<clusterVars, vsettled>>
  BY DEF ViewStep, ListPods, ListPodsFails, QueryShards, QueryShardsFails, QueryInfo
<1>2. /\ ClusterType' /\ ip' = ip /\ ViewOf(ip)' = ViewOf(ip)
      /\ ip \in [Nodes -> Addrs \cup {NoAddr}]
  BY <1>1, PictureStays DEF ViewInv, ClusterType
<1>3. CASE ListPods(v)
  <2>1. /\ vpc[v] = "pods" /\ vpc' = [vpc EXCEPT ![v] = "nodes"]
        /\ pods' = [pods EXCEPT ![v] = ip] /\ shards' = shards
    BY <1>3 DEF ListPods, At
  <2>2. ViewType'
    BY <1>1, <1>2, <2>1 DEF ViewInv, ViewType
  <2> QED
    BY <1>1, <1>2, <2>1, <2>2 DEF ViewInv, ViewType
<1>4. CASE QueryShards(v)
  <2>1. /\ vpc[v] = "nodes" /\ vpc' = [vpc EXCEPT ![v] = "info"]
        /\ shards' = [shards EXCEPT ![v] = ViewOf(pods[v])] /\ pods' = pods
    BY <1>4 DEF QueryShards, At, ViewOf
  <2>2. shards'[v] = ViewOf(pods[v]) /\ shards' = [u \in Views |-> shards'[u]]
        /\ \A u \in Views \ {v} : shards'[u] = shards[u]
    BY <2>1 DEF ViewInv
  <2>3. \A u \in Views : \A sh \in shards'[u] : sh \in ShardView
    BY <2>2, ViewsAreShardViews DEF ViewInv, ViewType
  <2>4. ViewType'
    BY <1>1, <2>1, <2>3 DEF ViewInv, ViewType, ShardView
  <2>5. vpc'[v] = "info" /\ \A u \in Views \ {v} : vpc'[u] = vpc[u]
    BY <2>1 DEF ViewInv, ViewType
  <2>6. ASSUME NEW u \in Views, vsettled'[u]
        PROVE  /\ vpc'[u] = "nodes" => pods'[u] = ip'
               /\ vpc'[u] \in {"info", "done"} => shards'[u] = ViewOf(ip)'
    BY <1>1, <1>2, <2>1, <2>2, <2>5, <2>6 DEF ViewInv
  <2> QED
    BY <1>2, <2>2, <2>4, <2>6 DEF ViewInv
<1>5. CASE ListPodsFails(v) \/ QueryShardsFails(v) \/ QueryInfo(v)
  <2>1. /\ UNCHANGED <<pods, shards>>
        /\ \E b \in {"failed", "noshards", "done"} : vpc' = [vpc EXCEPT ![v] = b] /\ (b = "done" => vpc[v] = "info")
    BY <1>5 DEF ListPodsFails, QueryShardsFails, QueryInfo, At
  <2>2. ViewType'
    BY <1>1, <2>1 DEF ViewInv, ViewType
  <2> QED
    BY <1>1, <1>2, <2>1, <2>2 DEF ViewInv, ViewType
<1> QED
  BY <1>3, <1>4, <1>5 DEF ViewStep

\* A change of the cluster overtakes the requests under way.
LEMMA ChangeUnsettles ==
    ASSUME ViewInv, ClusterType', Unsettle, UNCHANGED <<vpc, pods, shards>>
    PROVE  ViewInv'
<1>1. /\ vsettled' \in [Views -> BOOLEAN]
      /\ \A v \in Views : vsettled'[v] => vsettled[v] /\ vpc[v] = "pods"
  BY DEF Unsettle, ViewInv, ViewType
<1>2. ViewType'
  BY <1>1 DEF ViewInv, ViewType, ShardView
<1> QED
  BY <1>1, <1>2 DEF ViewInv

\* In a cluster whose nodes know each other's addresses, a node's address leads
\* to its pod if that is up, and to no pod if it is not.
LEMMA AddressesLeadToPods ==
    ASSUME ClusterInv, \A n \in up : addr[n] = ip[n],
           \A m, n \in Nodes : addr[m] = addr[n] => m = n,
           NEW n \in Nodes
    PROVE  podForIP(ip, addr[n]) = IF n \in up THEN n ELSE NoNode
<1>1. addr[n] # NoAddr /\ \A m \in Nodes : ip[m] = addr[n] => m \in up
  BY ClusterAssumption DEF ClusterInv, ClusterType
<1>2. \A m \in Nodes : ip[m] = addr[n] => m = n
  BY <1>1
<1>3. CASE n \in up
  <2>1. ip[n] = addr[n]
    BY <1>3
  <2> QED
    BY <1>2, <1>3, <2>1 DEF podForIP
<1>4. CASE n \notin up
  <2>1. ~ \E m \in Nodes : ip[m] = addr[n]
    BY <1>1, <1>2, <1>4
  <2> QED
    BY <1>4, <2>1 DEF podForIP
<1> QED
  BY <1>3, <1>4

\* The shard views of such a cluster show every slot once, under the pod of its
\* master: it is in a run of its master's, and in nobody else's.
LEMMA SlotsShownOnce ==
    ASSUME ClusterInv, \A n \in up : addr[n] = ip[n],
           \A m, n \in Nodes : addr[m] = addr[n] => m = n,
           NEW s \in Slots
    PROVE  \E sh \in ViewOf(ip) :
              /\ sh.masterPod = IF owner[s] \in up THEN owner[s] ELSE NoNode
              /\ {t \in ViewOf(ip) : \E r \in t.slotRanges : s \in r[1]..r[2]} = {sh}
<1> DEFINE n == owner[s]
           sh == ShardViewOf(n, ip)
           V == ViewOf(ip)
<1>1. n \in Nodes /\ n \in Masters /\ s \in Served(n)
  BY DEF ClusterInv, ClusterType, Masters, Served
<1>2. V = {ShardViewOf(m, ip) : m \in Masters} /\ sh \in V
  BY <1>1, ViewsOfMasters
<1>3. sh.masterPod = IF n \in up THEN n ELSE NoNode
  BY <1>1, AddressesLeadToPods DEF ShardViewOf
<1>4. \E r \in sh.slotRanges : s \in r[1]..r[2]
  <2>1. Served(n) \in SUBSET Slots
    BY DEF Served
  <2> QED
    BY <1>1, <2>1, RunThrough DEF ShardViewOf
<1>5. ASSUME NEW t \in V, NEW r \in t.slotRanges, s \in r[1]..r[2]
      PROVE  t = sh
  <2>1. PICK m \in Masters : t = ShardViewOf(m, ip)
    BY <1>2
  <2>2. r \in Runs(Served(m)) /\ Served(m) \in SUBSET Slots
    BY <2>1 DEF ShardViewOf, Served
  <2>3. s \in Served(m)
    BY <1>5, <2>2, RunsInside
  <2> QED
    BY <2>1, <2>3 DEF Served
<1> HIDE DEF V, sh
<1>6. {t \in V : \E r \in t.slotRanges : s \in r[1]..r[2]} = {sh}
  BY <1>2, <1>4, <1>5
<1> QED
  BY <1>2, <1>3, <1>6 DEF V

\* They show every replica whose pod is up in the shard of its master.
LEMMA ReplicasShown ==
    ASSUME ClusterInv, \A n \in up : addr[n] = ip[n],
           \A m, n \in Nodes : addr[m] = addr[n] => m = n,
           NEW n \in up, ~IsMaster(n)
    PROVE  {sh.masterID : sh \in {t \in ViewOf(ip) : n \in {r.pod : r \in t.replicas}}} = {masterOf[n]}
<1> DEFINE V == ViewOf(ip)
           Replica(m) == [id |-> m, pod |-> podForIP(ip, addr[m])]
<1>1. n \in Nodes /\ n # NoNode /\ masterOf[n] \in Masters
  BY ClusterAssumption DEF ClusterInv, ClusterType, IsMaster, Masters
<1>2. V = {ShardViewOf(m, ip) : m \in Masters}
  BY ViewsOfMasters
<1>3. \A m \in Nodes : Replica(m).pod = n <=> m = n
  BY <1>1, AddressesLeadToPods
<1>4. \A m : ShardViewOf(m, ip).replicas = {Replica(k) : k \in Followers(m)} /\ ShardViewOf(m, ip).masterID = m
  BY DEF ShardViewOf
<1> HIDE DEF Replica, V
<1>5. \A m \in Masters : n \in {r.pod : r \in ShardViewOf(m, ip).replicas} <=> m = masterOf[n]
  BY <1>1, <1>3, <1>4 DEF Followers
<1>6. {t \in V : n \in {r.pod : r \in t.replicas}} = {ShardViewOf(masterOf[n], ip)}
  BY <1>1, <1>2, <1>5
<1> QED
  BY <1>4, <1>6 DEF V

\* So a request that nothing has overtaken shows the cluster.
LEMMA SettledViews == ClusterInv /\ ViewInv => SettledTopologyIsTrue
<1> SUFFICES ASSUME ClusterInv, ViewInv, NEW v \in Views, vpc[v] = "done", vsettled[v],
                    \A n \in up : addr[n] = ip[n],
                    \A m, n \in Nodes : addr[m] = addr[n] => m = n
             PROVE  /\ \A s \in Slots :
                          \E sh \in shards[v] :
                             /\ sh.masterPod = IF owner[s] \in up THEN owner[s] ELSE NoNode
                             /\ {t \in shards[v] : \E r \in t.slotRanges : s \in r[1]..r[2]} = {sh}
                    /\ \A n \in up : ~IsMaster(n) =>
                          {sh.masterID : sh \in {t \in shards[v] : n \in {r.pod : r \in t.replicas}}}
                              = {masterOf[n]}
  BY DEF SettledTopologyIsTrue
<1>1. shards[v] = ViewOf(ip)
  BY DEF ViewInv
<1> QED
  BY <1>1, SlotsShownOnce, ReplicasShown

-----------------------------------------------------------------------------
(* The lab                                                                 *)

LabInv == ClusterInv /\ CommandInv /\ ViewInv

LEMMA LabInvHolds == Spec => []LabInv
<1>1. Init => LabInv
  BY InitCluster, InitCommands, InitViews DEF Init, LabInv
<1>2. LabInv /\ [Next]_vars => LabInv'
  <2> SUFFICES ASSUME LabInv, [Next]_vars PROVE LabInv'
    BY DEF LabInv
  <2> USE DEF LabInv
  <2>1. ASSUME UNCHANGED clusterVars PROVE ClusterInv'
    BY <2>1 DEF ClusterInv, ClusterType, IsMaster, clusterVars
  <2>2. ASSUME UNCHANGED clusterVars, UNCHANGED commandVars PROVE CommandInv'
    <3>1. ClusterType' /\ CommandType' /\ OnceInv'
      BY <2>2, PictureStays, QuietOnce DEF CommandInv, CommandType, commandVars, outVars
    <3>2. \A c \in Commands : Flow(c)' /\ Shown(c)'
      BY <2>2, OtherCommands DEF commandVars, outVars
    <3> QED
      BY <3>1, <3>2 DEF CommandInv
  <2>3. ASSUME UNCHANGED clusterVars, UNCHANGED viewVars PROVE ViewInv'
    <3>1. ViewType'
      BY <2>3 DEF ViewInv, ViewType, viewVars, ShardView
    <3> QED
      BY <2>3, <3>1, PictureStays DEF ViewInv, viewVars
  <2>4. CASE Change
    <3>1. ClusterInv'
      BY <2>4, ClusterSteps DEF Change
    <3> QED
      BY <2>4, <3>1, ChangeOvertakes, ChangeUnsettles DEF Change, ClusterInv
  <2>5. ASSUME NEW c \in Commands, CommandStep(c), UNCHANGED viewVars PROVE LabInv'
    <3>1. UNCHANGED clusterVars
      BY <2>5 DEF CommandStep, Refuse, Begin, GetSlotForKey, RawPass, RawPassFails, FinalPass,
                  FinalPassRefused, FinalPassFails, ReturnWithNode, ReturnWithoutNode, Return
    <3> QED
      BY <2>1, <2>3, <2>5, <3>1, CommandSteps
  <2>6. ASSUME NEW v \in Views, ViewStep(v), UNCHANGED commandVars PROVE LabInv'
    <3>1. UNCHANGED clusterVars
      BY <2>6 DEF ViewStep, ListPods, ListPodsFails, QueryShards, QueryShardsFails, QueryInfo
    <3> QED
      BY <2>1, <2>2, <2>6, <3>1, ViewSteps
  <2>7. CASE UNCHANGED vars
    BY <2>1, <2>2, <2>3, <2>7 DEF vars
  <2> QED
    BY <2>4, <2>5, <2>6, <2>7 DEF Next
<1> QED
  BY <1>1, <1>2, PTL DEF Spec

\* The cluster, ExecuteWithRedirectLog and handleClusterTopology keep their shape:
\* slots are served by masters, and no command is executed more than twice.
THEOREM TypeCorrect == Spec => []TypeOK
<1>1. LabInv => TypeOK
  BY DEF LabInv, ClusterInv, CommandInv, ViewInv, TypeOK
<1> QED
  BY <1>1, LabInvHolds, PTL

\* handleCommand: while the cluster stays as it is and the slot is not on its way,
\* a redirect of the cluster's that is shown led to where the command ran, and so
\* does executedOn, if it is filled in, of a command whose second word is its key.
THEOREM FlowIsTrue == Spec => []SettledFlowIsTrue
<1>1. LabInv => SettledFlowIsTrue
  BY DEF LabInv, CommandInv, Shown, SettledFlowIsTrue
<1> QED
  BY <1>1, LabInvHolds, PTL

\* handleClusterTopology: a topology that no change overtook, of a cluster whose
\* nodes know each other's addresses, shows every slot in exactly one shard, under
\* the pod that serves it, and every replica in the shard of its master.
THEOREM TopologyIsTrue == Spec => []SettledTopologyIsTrue
<1>1. LabInv => SettledTopologyIsTrue
  BY SettledViews DEF LabInv
<1> QED
  BY <1>1, LabInvHolds, PTL

=============================================================================
