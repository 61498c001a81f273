------------------------------ MODULE LabFeed ------------------------------
(***************************************************************************)
(* What the event hub promises to the pages of a lab, without locks,       *)
(* buffers or goroutines: a client that joins a lab's feed is handed, in   *)
(* publication order per publisher and at most once, some of the events    *)
(* published in that lab after it joined, and nothing once it left.        *)
(***************************************************************************)
EXTENDS Naturals, Sequences

CONSTANTS Labs, Publishers, PubLab, Sessions

VARIABLES published,  \* number of events of each publisher
          member,     \* "out", "in" or "left"
          lab,        \* the lab a client asks for
          horizon,    \* `published' when the client joined
          feed        \* what the client was handed

feedVars == <<published, member, lab, horizon, feed>>

Init ==
    /\ published = [p \in Publishers |-> 0]
    /\ member = [s \in Sessions |-> "out"]
    /\ lab \in [Sessions -> Labs]
    /\ horizon = [s \in Sessions |-> [p \in Publishers |-> 0]]
    /\ feed = [s \in Sessions |-> <<>>]

Emit(p) ==
    /\ published' = [published EXCEPT ![p] = @ + 1]
    /\ UNCHANGED <<member, lab, horizon, feed>>

Join(s) ==
    /\ member[s] = "out"
    /\ member' = [member EXCEPT ![s] = "in"]
    /\ horizon' = [horizon EXCEPT ![s] = published]
    /\ UNCHANGED <<published, lab, feed>>

\* Later than everything the client has of that publisher, so never twice.
Fresh(s, p, n) ==
    /\ horizon[s][p] < n /\ n <= published[p]
    /\ \A i \in DOMAIN feed[s] : feed[s][i].pub = p => feed[s][i].n < n

Deliver(s, p, n) ==
    /\ member[s] = "in"
    /\ PubLab[p] = lab[s]
    /\ Fresh(s, p, n)
    /\ feed' = [feed EXCEPT ![s] = Append(@, [pub |-> p, n |-> n])]
    /\ UNCHANGED <<published, member, lab, horizon>>

\* A client may also be turned away without having joined.
Leave(s) ==
    /\ member[s] # "left"
    /\ member' = [member EXCEPT ![s] = "left"]
    /\ UNCHANGED <<published, lab, horizon, feed>>

Next ==
    \/ \E p \in Publishers : Emit(p)
    \/ \E s \in Sessions :
          \/ Join(s) \/ Leave(s)
          \/ \E p \in Publishers : \E n \in 1..published[p] : Deliver(s, p, n)

Spec == Init /\ [][Next]_feedVars

=============================================================================
