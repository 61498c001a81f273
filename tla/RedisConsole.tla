--------------------------- MODULE RedisConsole ---------------------------
(***************************************************************************)
(* The console of a lab page: the key handler of                           *)
(* ui/src/components/RedisConsole.tsx and the command history of           *)
(* ui/src/hooks/useRedisCommand.ts.  Enter starts a request and does not   *)
(* wait: several may be in flight, and an answer is added to the history   *)
(* when it comes, in whatever order.  Positions count from 0, as in the    *)
(* code.                                                                   *)
(***************************************************************************)
EXTENDS Naturals, Sequences

CONSTANTS MaxCommands, \* bound: commands entered
          Keep,        \* entries the history is cut to: 200 in the code
          NoCursor     \* cursor === null

VARIABLES history,  \* the answered commands, by number
          inflight, \* commands whose request is running
          entered,  \* number of commands entered
          cursor,   \* position the arrow keys stand at, or NoCursor
          input,    \* the command shown in the input line, 0 for something else
          cleared,  \* history: CLEAR was used since the cursor was set
          thrown    \* the key handler threw: history[next] is undefined

vars == <<history, inflight, entered, cursor, input, cleared, thrown>>

Init ==
    /\ history = <<>> /\ inflight = {} /\ entered = 0
    /\ cursor = NoCursor /\ input = 0
    /\ cleared = FALSE /\ thrown = FALSE

\* The entry at position i.
At(i) == history[i + 1]
InRange(i) == i < Len(history)

\* setCursor(i); setInput(history[i].command): throws past the end.
Select(i) ==
    /\ cursor' = i
    /\ cleared' = (cleared /\ cursor # NoCursor)
    /\ IF InRange(i) THEN input' = At(i) /\ UNCHANGED thrown
       ELSE thrown' = TRUE /\ UNCHANGED input
    /\ UNCHANGED <<history, inflight, entered>>

Deselect ==
    /\ cursor' = NoCursor /\ input' = 0 /\ cleared' = FALSE

\* The user types: the input line is anything.
Type ==
    /\ input' = 0
    /\ UNCHANGED <<history, inflight, entered, cursor, cleared, thrown>>

\* Enter with a command: the request starts, the line and the cursor are reset.
EnterCommand ==
    /\ entered < MaxCommands
    /\ entered' = entered + 1
    /\ inflight' = inflight \cup {entered'}
    /\ Deselect
    /\ UNCHANGED <<history, thrown>>

\* Enter with CLEAR: the history and the line are emptied, the cursor is not.
EnterClear ==
    /\ history' = <<>>
    /\ input' = 0
    /\ cleared' = (cursor # NoCursor)
    /\ UNCHANGED <<inflight, entered, cursor, thrown>>

\* The last Keep entries: slice(-200).
Cut(h) == IF Len(h) <= Keep THEN h ELSE SubSeq(h, Len(h) - Keep + 1, Len(h))

\* An answer comes, or the request fails: either is added to the history.
Complete(c) ==
    /\ c \in inflight
    /\ inflight' = inflight \ {c}
    /\ history' = Cut(Append(history, c))
    /\ UNCHANGED <<entered, cursor, input, cleared, thrown>>

\* Mutant of ArrowUp: it starts past the end.
ArrowUpPastEnd ==
    /\ history # <<>>
    /\ Select(IF cursor = NoCursor THEN Len(history)
              ELSE IF cursor = 0 THEN 0 ELSE cursor - 1)

ArrowUp ==
    /\ history # <<>>
    /\ Select(IF cursor = NoCursor THEN Len(history) - 1
              ELSE IF cursor = 0 THEN 0 ELSE cursor - 1)

ArrowDown ==
    /\ cursor # NoCursor
    /\ IF InRange(cursor + 1) THEN Select(cursor + 1)
       ELSE Deselect /\ UNCHANGED <<history, inflight, entered, thrown>>

Next ==
    \/ Type \/ EnterCommand \/ EnterClear \/ ArrowUp \/ ArrowDown
    \/ \E c \in 1..MaxCommands : Complete(c)

Spec == Init /\ [][Next]_vars

-----------------------------------------------------------------------------
(* What is promised                                                        *)

\* The arrow keys fail (TypeError on history[next]) only while the cursor is one
\* set before a CLEAR: entries that are cut off, commands answered out of order
\* and the ends of the history never make them fail.
OnlyClearThrows == [][thrown' /\ ~thrown => cleared]_vars

=============================================================================
