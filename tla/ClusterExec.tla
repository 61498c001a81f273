---------------------------- MODULE ClusterExec ----------------------------
(***************************************************************************)
(* A console command on the cluster lab: the cluster case of handleCommand *)
(* (backend/internal/api/command.go) and ExecuteWithRedirectLog            *)
(* (backend/internal/redis/cluster.go) with ExecFn wired, as main does.    *)
(* The command is run twice inside one fixed pod: without -c to see MOVED  *)
(* and ASK, then with -c, which follows redirects silently, for the        *)
(* result.  The cluster changes while this goes on.                        *)
(***************************************************************************)
EXTENDS ClusterNodes

CONSTANTS Pod0,     \* the node of the pod the backend execs into
          Commands, \* console commands in flight
          NoKey     \* the "slot" of an argument or a key that is not there

ASSUME CommandAssumption == Pod0 \in Nodes /\ NoKey \notin Slots

VARIABLES pc,         \* where each command is
          arg,        \* the slot that its second word has, key or not, or NoKey
          key,        \* the slot of its keys, which it is routed by, or NoKey
          slot,       \* out.Slot
          redirects,  \* out.Redirects: the addresses in To, as a set; NoAddr is
                      \* one taken from a value that reads like a redirect
          executedOn, \* out.ExecutedOn
          reply,      \* "none", "result", "error" or "refused"
          applied,    \* history: times a master executed the command
          ranOn,      \* history: the address of the node the result comes from
          settled     \* history: no change between its beginning and its end,
                      \* and its slot not on its way

outVars     == <<slot, redirects, executedOn, reply>>
commandVars == <<pc, arg, key, outVars, applied, ranOn, settled>>

\* A command and its result: at most two executions, one for each pass.
CommandType ==
    /\ pc \in [Commands -> {"start", "slot", "raw", "final", "where", "done"}]
    /\ arg \in [Commands -> Slots \cup {NoKey}]
    /\ key \in [Commands -> Slots \cup {NoKey}]
    /\ slot \in [Commands -> Slots]
    /\ redirects \in [Commands -> SUBSET (Addrs \cup {NoAddr})]
    /\ executedOn \in [Commands -> Addrs \cup {NoAddr}]
    /\ reply \in [Commands -> {"none", "result", "error", "refused"}]
    /\ applied \in [Commands -> 0..2]
    /\ ranOn \in [Commands -> Addrs \cup {NoAddr}]
    /\ settled \in [Commands -> BOOLEAN]

CommandInit ==
    /\ pc = [c \in Commands |-> "start"]
    /\ arg = [c \in Commands |-> NoKey]
    /\ key = [c \in Commands |-> NoKey]
    /\ slot = [c \in Commands |-> 0]
    /\ redirects = [c \in Commands |-> {}]
    /\ executedOn = [c \in Commands |-> NoAddr]
    /\ reply = [c \in Commands |-> "none"]
    /\ applied = [c \in Commands |-> 0]
    /\ ranOn = [c \in Commands |-> NoAddr]
    /\ settled = [c \in Commands |-> TRUE]

\* What a change of the cluster does to the history of the commands.
Overtake == settled' = [c \in Commands |-> settled[c] /\ pc[c] \in {"start", "done"}]

Goto(c, a, b) == pc[c] = a /\ pc' = [pc EXCEPT ![c] = b]

\* A node that is up and known by its address: another node can send one there.
Reachable(n) == n = Pod0 \/ (n \in up /\ addr[n] = ip[n])

\* Pod0 executes the command when it is sent there: it has no key, or one of a
\* slot of Pod0's.
ServedByPod0(c) == key[c] = NoKey \/ (key[c] # NoKey /\ owner[key[c]] = Pod0)

\* Where Pod0 may send the client: with ASK to the master one of its slots is on
\* its way to, if the key has gone ahead; with MOVED to the slot's master.
Redirected(c) ==
    IF key[c] = NoKey THEN {}
    ELSE IF owner[key[c]] = Pod0 THEN {migrating[key[c]]} \ {NoNode}
    ELSE {owner[key[c]]}

\* parseRedirect: the address that MOVED or ASK names.
RedirectTo(c) == {addr[n] : n \in Redirected(c)}

\* Where the command may run when redirects are followed.
Servers(c) ==
    IF key[c] = NoKey THEN {Pod0}
    ELSE {owner[key[c]], migrating[key[c]]} \ {NoNode}

\* An invalid body, or a command that splits into no arguments: 400.
Refuse(c) ==
    /\ Goto(c, "start", "done")
    /\ reply' = [reply EXCEPT ![c] = "refused"]
    /\ UNCHANGED <<clusterVars, arg, key, slot, redirects, executedOn, applied, ranOn, settled>>

\* What splitCommand may give, by the slot of its second word and the slot of its
\* keys: PING has neither, GET k has one slot for both, INFO replication and
\* CONFIG GET x have a second word but no key, OBJECT ENCODING k has two slots.
Args == {w \in (Slots \cup {NoKey}) \X (Slots \cup {NoKey}) : w[1] = NoKey => w[2] = NoKey}

\* if len(args) >= 2: the second word is taken for the key, whatever the command.
Begin(c) ==
    \E a, k \in Slots \cup {NoKey} :
        /\ <<a, k>> \in Args
        /\ Goto(c, "start", IF a = NoKey THEN "raw" ELSE "slot")
        /\ arg' = [arg EXCEPT ![c] = a]
        /\ key' = [key EXCEPT ![c] = k]
        /\ settled' = [settled EXCEPT ![c] = k = NoKey \/ migrating[k] = NoNode]
        /\ UNCHANGED <<clusterVars, outVars, applied, ranOn>>

\* CLUSTER KEYSLOT of the second word; on an error the slot stays 0.
GetSlotForKey(c) ==
    /\ Goto(c, "slot", "raw")
    /\ slot' \in {slot, [slot EXCEPT ![c] = arg[c]]}
    /\ UNCHANGED <<clusterVars, arg, key, redirects, executedOn, reply, applied, ranOn, settled>>

Ran(c) == applied' = [applied EXCEPT ![c] = @ + 1]

Redirect(c, a) == redirects' = [redirects EXCEPT ![c] = @ \cup {a}]

\* A value can read like a redirect, whoever stored it: "MOVED 1 x" on a line of
\* the first pass, "-> Redirected ..." on one of the second.
TakenForRedirect(c) == UNCHANGED redirects \/ Redirect(c, NoAddr)

\* Mutant of RawPass: the first pass follows redirects too.
RawPassFollowing(c) ==
    /\ Goto(c, "raw", "final")
    /\ Pod0 \in up
    /\ Ran(c)
    /\ \/ ServedByPod0(c) /\ TakenForRedirect(c)
       \/ \E a \in RedirectTo(c) : Redirect(c, a)
    /\ UNCHANGED <<clusterVars, arg, key, slot, executedOn, reply, ranOn, settled>>

\* redis-cli without -c, output taken: Pod0 executes the command itself, or
\* answers MOVED or ASK.
RawPass(c) ==
    /\ Goto(c, "raw", "final")
    /\ Pod0 \in up
    /\ \/ ServedByPod0(c) /\ Ran(c) /\ TakenForRedirect(c)
       \/ \E a \in RedirectTo(c) : Redirect(c, a) /\ UNCHANGED applied
    /\ UNCHANGED <<clusterVars, arg, key, slot, executedOn, reply, ranOn, settled>>

\* The exec fails, before or after the command ran, or the answer is another
\* error: both are ignored.
RawPassFails(c) ==
    /\ Goto(c, "raw", "final")
    /\ (Pod0 \in up /\ ServedByPod0(c) /\ Ran(c)) \/ UNCHANGED applied
    /\ UNCHANGED <<clusterVars, arg, key, outVars, ranOn, settled>>

\* redis-cli -c: the command runs on a node that serves it now.
FinalPass(c) ==
    /\ Goto(c, "final", "where")
    /\ Pod0 \in up
    /\ Ran(c)
    /\ \E n \in Servers(c) : Reachable(n) /\ ranOn' = [ranOn EXCEPT ![c] = addr[n]]
    /\ TakenForRedirect(c)
    /\ UNCHANGED <<clusterVars, arg, key, slot, executedOn, reply, settled>>

\* parseRedisCliOutput takes all text for a result, an error reply such as
\* CLUSTERDOWN included.
FinalPassRefused(c) ==
    /\ Goto(c, "final", "where")
    /\ Pod0 \in up
    /\ UNCHANGED <<clusterVars, arg, key, outVars, applied, ranOn, settled>>

\* Mutant of FinalPassFails: the pass is tried again.
FinalPassRetried(c) ==
    /\ pc[c] = "final"
    /\ Ran(c) \/ UNCHANGED applied
    /\ UNCHANGED <<clusterVars, pc, arg, key, outVars, ranOn, settled>>

\* The exec fails with nothing on stdout, or the 5 s are over: an error is
\* returned, with the slot and the redirects so far.
FinalPassFails(c) ==
    /\ Goto(c, "final", "done")
    /\ Ran(c) \/ UNCHANGED applied
    /\ reply' = [reply EXCEPT ![c] = "error"]
    /\ UNCHANGED <<clusterVars, arg, key, slot, redirects, executedOn, ranOn, settled>>

\* The result is returned, executedOn being a.
Return(c, a) ==
    /\ Goto(c, "where", "done")
    /\ reply' = [reply EXCEPT ![c] = "result"]
    /\ executedOn' = [executedOn EXCEPT ![c] = a]
    /\ UNCHANGED <<clusterVars, arg, key, slot, redirects, applied, ranOn, settled>>

\* if out.Slot > 0: the slot's master as of now, or an error, which leaves
\* executedOn empty.
ReturnWithNode(c) ==
    slot[c] > 0 /\ \E a \in NodeForSlot(slot[c]) \cup {NoAddr} : Return(c, a)

\* Slot 0: no second word, a failed CLUSTER KEYSLOT, or a word in slot 0.
ReturnWithoutNode(c) == slot[c] = 0 /\ Return(c, NoAddr)

CommandStep(c) ==
    \/ Refuse(c) \/ Begin(c) \/ GetSlotForKey(c) \/ RawPass(c) \/ RawPassFails(c)
    \/ FinalPass(c) \/ FinalPassRefused(c) \/ FinalPassFails(c)
    \/ ReturnWithNode(c) \/ ReturnWithoutNode(c)

=============================================================================
