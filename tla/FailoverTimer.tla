--------------------------- MODULE FailoverTimer ---------------------------
(***************************************************************************)
(* The failover timer of a lab page (ui/src/components/LabLayout.tsx, shown*)
(* by FaultPanel.tsx): what the page's event handler does to it.  Module   *)
(* LabSystem brings the events.                                            *)
(***************************************************************************)
EXTENDS Naturals

VARIABLES failover, \* null, startedAt set, or doneLabel set too
          clears    \* setTimeout(() => setFailover(null), 8000) not fired yet

vars == <<failover, clears>>

Shape == failover \in {"none", "running", "done"} /\ clears \in Nat

Init == failover = "none" /\ clears = 0

\* Any pod_deleted starts the timer afresh, the master's or not.
OnPodDeleted == failover' = "running" /\ UNCHANGED clears

Complete == IF failover = "none" THEN "none" ELSE "done"

\* Mutant of OnSwitch: only role_changed schedules the clear.
OnSwitchClearsOnRole(type) ==
    /\ failover' = Complete
    /\ clears' = IF type = "role_changed" THEN clears + 1 ELSE clears

\* A +switch-master sentinel_event and its role_changed both complete the timer
\* if there is one, and both schedule a clear, timer or no timer.
OnSwitch(type) ==
    /\ failover' = Complete
    /\ clears' = clears + 1

\* A scheduled clear fires, whatever the timer shows by now.
Clear ==
    /\ clears > 0
    /\ clears' = clears - 1
    /\ failover' = "none"

\* The page is left: its state goes, its scheduled clears will set nothing.
Leave == failover' = "none" /\ UNCHANGED clears

-----------------------------------------------------------------------------

\* A completed failover is never stuck on the page: it goes away in the end, or a
\* newer failover takes its place, even if clears of earlier switches fire early
\* and events are lost.
DoneIsCleared == failover = "done" ~> failover # "done"

=============================================================================
