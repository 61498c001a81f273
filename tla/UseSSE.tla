------------------------------- MODULE UseSSE -------------------------------
(***************************************************************************)
(* The page's event stream (ui/src/hooks/useSSE.ts): one EventSource that  *)
(* is closed and replaced, after a growing delay, whenever it errors.      *)
(* Module LabSystem connects it to the backend.                            *)
(***************************************************************************)
EXTENDS Naturals

CONSTANT MaxBackoff  \* the longest delay in seconds: 30 in the code

VARIABLES serverUp, \* the backend can be reached
          broken,   \* the connection of the current EventSource was refused or lost
          es,       \* the current EventSource: "none", "connecting" or "open"
          live,     \* number of EventSources not closed
          timer,    \* setTimeout(connect, backoff) is pending
          backoff,  \* the delay of the next one, in seconds
          stopped   \* the effect was cleaned up

vars == <<serverUp, broken, es, live, timer, backoff, stopped>>

\* The stream and its timer have their shape: delays stay within 1 s and the cap.
TypeOK ==
    /\ serverUp \in BOOLEAN /\ broken \in BOOLEAN
    /\ es \in {"none", "connecting", "open"}
    /\ live \in Nat
    /\ timer \in BOOLEAN /\ stopped \in BOOLEAN
    /\ backoff \in 1..MaxBackoff
    /\ broken => es # "none"

\* connect() has run.
Init ==
    /\ serverUp \in BOOLEAN /\ broken = ~serverUp
    /\ es = "connecting" /\ live = 1
    /\ timer = FALSE /\ backoff = 1
    /\ stopped = FALSE

Lower(a, b) == IF a < b THEN a ELSE b

\* The backend, or the way to it, goes with every connection it has, or returns.
ServerFlips ==
    /\ serverUp' = ~serverUp
    /\ broken' = (broken \/ (serverUp /\ es # "none"))
    /\ UNCHANGED <<es, live, timer, backoff, stopped>>

\* onopen: the backoff starts over.
OnOpen ==
    /\ es = "connecting" /\ serverUp /\ ~broken
    /\ es' = "open"
    /\ backoff' = 1
    /\ UNCHANGED <<serverUp, broken, live, timer, stopped>>

\* An error: close, if it closes, and schedule, if it does, with a next delay.
Errs(closing, scheduling, next) ==
    /\ broken
    /\ es' = "none" /\ broken' = FALSE
    /\ live' = IF closing THEN live - 1 ELSE live
    /\ timer' = scheduling
    /\ backoff' = next
    /\ UNCHANGED <<serverUp, stopped>>

\* Mutants of OnError: no cap on the delay; the failed EventSource stays open;
\* only a stream that was open is retried.
OnErrorUncapped == Errs(TRUE, TRUE, 2 * backoff)
OnErrorLeaks    == Errs(FALSE, TRUE, Lower(2 * backoff, MaxBackoff))
OnErrorGivesUp  == Errs(TRUE, es = "open", Lower(2 * backoff, MaxBackoff))

\* onerror: refused, or the open stream broke.  Close, schedule, double.
OnError == Errs(TRUE, TRUE, Lower(2 * backoff, MaxBackoff))

\* The timer fires: connect() again; a cleanup would have cleared it.
Connect ==
    /\ timer
    /\ timer' = FALSE
    /\ IF stopped THEN UNCHANGED <<es, live, broken>>
       ELSE es' = "connecting" /\ live' = live + 1 /\ broken' = ~serverUp
    /\ UNCHANGED <<serverUp, backoff, stopped>>

\* The page is left: stopped, clearTimeout, close.
Cleanup ==
    /\ ~stopped
    /\ stopped' = TRUE
    /\ timer' = FALSE
    /\ es' = "none" /\ broken' = FALSE
    /\ live' = IF es = "none" THEN live ELSE live - 1
    /\ UNCHANGED <<serverUp, backoff>>

-----------------------------------------------------------------------------
(* What is promised                                                        *)

\* There is never a second stream: an EventSource that errs is closed before
\* another is made, so a page is not sent events twice and, once left, holds
\* neither a stream nor a timer.
AtMostOneStream ==
    /\ live = IF es = "none" THEN 0 ELSE 1
    /\ timer => es = "none"
    /\ stopped => es = "none" /\ ~timer

\* A page that is not left gets its stream back when the server stays up.
Reopens == <>[]serverUp => <>[](es = "open" \/ stopped)

=============================================================================
