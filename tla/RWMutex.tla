------------------------------ MODULE RWMutex ------------------------------
(***************************************************************************)
(* Go's sync.RWMutex, as events.Broadcaster relies on it.  A writer first  *)
(* takes the inner mutex and announces itself (`owner'), which turns every *)
(* later reader away, then waits for the readers already inside to leave.  *)
(* Its Unlock lets in every reader that was turned away meanwhile, before  *)
(* the next writer can announce: neither side starves the other.           *)
(***************************************************************************)

CONSTANT NoOwner

VARIABLES owner,    \* the goroutine that announced Lock, or NoOwner
          writing,  \* that goroutine holds the write lock
          readers,  \* goroutines that hold the read lock
          blocked   \* goroutines waiting inside RLock

mutexVars == <<owner, writing, readers, blocked>>

\* Writers among W own the lock, readers among R hold it or wait for it.
MutexType(W, R) ==
    /\ owner \in W \cup {NoOwner}
    /\ writing \in BOOLEAN
    /\ readers \in SUBSET R
    /\ blocked \in SUBSET R

MutexInit == owner = NoOwner /\ writing = FALSE /\ readers = {} /\ blocked = {}

Announce(w) ==
    /\ owner = NoOwner
    /\ owner' = w
    /\ UNCHANGED <<writing, readers, blocked>>

Acquire(w) ==
    /\ owner = w /\ ~writing /\ readers = {}
    /\ writing' = TRUE
    /\ UNCHANGED <<owner, readers, blocked>>

Unlock(w) ==
    /\ owner = w /\ writing
    /\ owner' = NoOwner
    /\ writing' = FALSE
    /\ readers' = readers \cup blocked
    /\ blocked' = {}

RLock(r) ==
    /\ IF owner = NoOwner
       THEN readers' = readers \cup {r} /\ UNCHANGED blocked
       ELSE blocked' = blocked \cup {r} /\ UNCHANGED readers
    /\ UNCHANGED <<owner, writing>>

RUnlock(r) ==
    /\ readers' = readers \ {r}
    /\ UNCHANGED <<owner, writing, blocked>>

=============================================================================
