---------------------------- MODULE UseTopology ----------------------------
(***************************************************************************)
(* The topology a lab page shows (ui/src/hooks/useTopology.ts).  A refresh *)
(* starts on mount, every 4 s and after every SSE event; nothing waits for *)
(* the one before or cancels it, so several requests are in flight, and    *)
(* their answers are applied in the order they come.  Module StandaloneLab *)
(* answers them.                                                           *)
(***************************************************************************)
EXTENDS Naturals

CONSTANTS Requests, \* requests that may be in flight together
          Null      \* no snapshot yet

VARIABLES req,     \* each request: idle, sent, failed, or served with an answer
          data,    \* the snapshot shown
          error,   \* an error is shown
          loading,
          mounted

vars == <<req, data, error, loading, mounted>>

Idle == [at |-> "idle", body |-> Null]

\* Requests and page have their shape: it is loading only until its first answer.
TypeOK(Bodies) ==
    /\ req \in [Requests -> [at : {"idle", "sent", "failed"}, body : {Null}]
                            \cup [at : {"served"}, body : Bodies]]
    /\ data \in Bodies \cup {Null}
    /\ error \in BOOLEAN /\ loading \in BOOLEAN /\ mounted \in BOOLEAN
    /\ loading => data = Null /\ ~error

\* The effect of the mount has started the first refresh.
Init ==
    /\ \E r \in Requests : req = [q \in Requests |-> IF q = r THEN [Idle EXCEPT !.at = "sent"] ELSE Idle]
    /\ data = Null /\ error = FALSE /\ loading = TRUE /\ mounted = TRUE

\* Mutant of Refresh: an error ends the polling.
RefreshUnlessFailed(r) ==
    /\ mounted /\ req[r] = Idle /\ ~error
    /\ req' = [req EXCEPT ![r].at = "sent"]
    /\ UNCHANGED <<data, error, loading, mounted>>

\* The interval ticks, or an SSE event arrives.
Refresh(r) ==
    /\ mounted /\ req[r] = Idle
    /\ req' = [req EXCEPT ![r].at = "sent"]
    /\ UNCHANGED <<data, error, loading, mounted>>

\* The backend answers r; the answer travels.
Serve(r, body) ==
    /\ req[r].at = "sent"
    /\ req' = [req EXCEPT ![r] = [at |-> "served", body |-> body]]
    /\ UNCHANGED <<data, error, loading, mounted>>

\* The request fails on its way, or the handler answers 500.
Fail(r) ==
    /\ req[r].at = "sent"
    /\ req' = [req EXCEPT ![r].at = "failed"]
    /\ UNCHANGED <<data, error, loading, mounted>>

\* setData, setError(null), setLoading(false); on an unmounted page, nothing.
Apply(r) ==
    /\ req[r].at = "served"
    /\ req' = [req EXCEPT ![r] = Idle]
    /\ IF mounted THEN data' = req[r].body /\ error' = FALSE /\ loading' = FALSE
       ELSE UNCHANGED <<data, error, loading>>
    /\ UNCHANGED mounted

\* catch: the error is shown beside the old snapshot.
ApplyError(r) ==
    /\ req[r].at = "failed"
    /\ req' = [req EXCEPT ![r] = Idle]
    /\ IF mounted THEN error' = TRUE /\ loading' = FALSE ELSE UNCHANGED <<error, loading>>
    /\ UNCHANGED <<data, mounted>>

\* The page is left: the interval is cleared.
Unmount ==
    /\ mounted
    /\ mounted' = FALSE
    /\ UNCHANGED <<req, data, error, loading>>

\* The steps of the page itself.
Page ==
    \/ Unmount
    \/ \E r \in Requests : Refresh(r) \/ Apply(r) \/ ApplyError(r)

=============================================================================
