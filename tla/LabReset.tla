------------------------------ MODULE LabReset ------------------------------
(***************************************************************************)
(* Reset and kill of one lab: the handlers of backend/internal/api/fault.go*)
(* with the helm and kubectl wrappers of backend/internal/k8s/helm.go, and *)
(* scripts/reset-lab.sh, which does the same from a shell.  Nothing makes  *)
(* two of them exclude each other: each runs its commands one after the    *)
(* other against the same release, volumes and pods.  The server may exit  *)
(* in the middle (cmd/server/main.go): its handlers end, the command one   *)
(* has started goes on without it.                                         *)
(***************************************************************************)
EXTENDS Naturals, FiniteSets

CONSTANTS Resets,   \* POST /api/<lab>/reset requests
          Scripts,  \* runs of reset-lab.sh
          Kills,    \* POST /api/<lab>/kill requests
          MaxExits, \* bound: exits of the server
          NoOne

ASSUME ResetAssumption == MaxExits \in Nat

Requests == Resets \cup Scripts \cup Kills

VARIABLES release,   \* helm's record: "none", "pending" or "deployed"
          installer, \* the request whose install is pending, or NoOne
          ready,     \* every pod of the release is ready
          volume,    \* what the PVCs hold: "none", "old" or "fresh" data
          pc,        \* where each request is
          ctxDone,   \* its client left, or its deadline passed
          server,    \* "up", "deaf", "draining" after a signal, or "down"
          exits,     \* exits so far
          lost,      \* requests whose handler ended with the server
          answer,    \* "ok", "error", "refused" (400), or "none" so far
          alone,     \* history: no other request ran since it started
          wiped      \* history: its PVC wipe succeeded

labVars == <<release, installer, ready, volume>>
reqVars == <<pc, ctxDone, answer, alone, wiped>>
srvVars == <<server, exits, lost>>
vars    == <<labVars, reqVars, srvVars>>

Step == {"start", "uninstall", "wipe", "sleep", "repo", "install", "wait",
         "reply", "delete", "done"}

\* The release, its volumes and the requests have their shape: pods are ready only
\* with a release and volumes to run on, whichever reset removes them.
TypeOK ==
    /\ release \in {"none", "pending", "deployed"}
    /\ installer \in Requests \cup {NoOne}
    /\ ready \in BOOLEAN
    /\ volume \in {"none", "old", "fresh"}
    /\ pc \in [Requests -> Step]
    /\ ctxDone \in [Requests -> BOOLEAN]
    /\ answer \in [Requests -> {"none", "ok", "error", "refused"}]
    /\ alone \in [Requests -> BOOLEAN]
    /\ wiped \in [Requests -> BOOLEAN]
    /\ server \in {"up", "deaf", "draining", "down"} /\ exits \in 0..MaxExits
    /\ lost \subseteq Resets \cup Kills
    /\ ready => release # "none" /\ volume # "none"

Active(r) == pc[r] \notin {"start", "done"}

\* A lab in use, one not installed yet, or one a killed install left pending.
Init ==
    /\ \/ release = "deployed" /\ ready = TRUE /\ volume = "old"
       \/ release = "pending" /\ ready = FALSE /\ volume = "old"
       \/ release = "none" /\ ready = FALSE /\ volume \in {"none", "old"}
    /\ installer = NoOne
    /\ pc = [r \in Requests |-> "start"]
    /\ ctxDone = [r \in Requests |-> FALSE]
    /\ answer = [r \in Requests |-> "none"]
    /\ alone = [r \in Requests |-> FALSE]
    /\ wiped = [r \in Requests |-> FALSE]
    /\ server = "up" /\ exits = 0 /\ lost = {}

-----------------------------------------------------------------------------

Goto(r, a, b) == pc[r] = a /\ pc' = [pc EXCEPT ![r] = b]

\* The command of step a has ended and the next step is b, if there still is a
\* handler to take it.
Proceed(r, a, b) == Goto(r, a, IF r \in lost THEN "done" ELSE b)

Finish(r, a, result) ==
    /\ Goto(r, a, "done")
    /\ answer' = IF r \in lost THEN answer ELSE [answer EXCEPT ![r] = result]

Others == <<ctxDone, alone, wiped, srvVars>>

\* Shutdown has closed the listener; the script needs no server.
Accepted(r) == r \in Scripts \/ server = "up"

\* Past the checks of the request, the first command begins.
Start(r) ==
    /\ Accepted(r)
    /\ Goto(r, "start", IF r \in Kills THEN "delete" ELSE "uninstall")
    /\ alone' = [q \in Requests |-> IF q = r THEN \A o \in Requests \ {r} : ~Active(o)
                                    ELSE alone[q] /\ ~Active(q)]
    /\ UNCHANGED <<labVars, ctxDone, answer, wiped, srvVars>>

\* Unknown lab, or a kill without a target: 400.
Reject(r) ==
    /\ r \notin Scripts /\ Accepted(r)
    /\ Finish(r, "start", "refused")
    /\ UNCHANGED <<labVars, Others>>

\* The client disconnects, or the 10 minutes (10 seconds for a kill) are over.
ContextDone(r) ==
    /\ r \notin Scripts \cup lost /\ Active(r) /\ ~ctxDone[r]
    /\ ctxDone' = [ctxDone EXCEPT ![r] = TRUE]
    /\ UNCHANGED <<labVars, pc, answer, alone, wiped, srvVars>>

\* helm uninstall removes the release and its pods; one that is not found is
\* as good as removed.
HelmUninstall(r) ==
    /\ ~ctxDone[r]
    /\ Proceed(r, "uninstall", "wipe")
    /\ release' = "none" /\ installer' = NoOne /\ ready' = FALSE
    /\ UNCHANGED <<volume, answer, Others>>

\* It fails, or is killed with the context, having removed the release or not.
\* The handler answers 500; the script goes on.
UninstallFails(r) ==
    /\ \/ UNCHANGED <<release, installer, ready>>
       \/ release' = "none" /\ installer' = NoOne /\ ready' = FALSE
    /\ IF r \in Scripts THEN Goto(r, "uninstall", "wipe") /\ UNCHANGED answer
       ELSE Finish(r, "uninstall", "error")
    /\ UNCHANGED <<volume, Others>>

\* Mutant of KubectlDeletePVCs: the volumes go at once, in use or not.
DeletePVCsInUse(r) ==
    /\ ~ctxDone[r]
    /\ Proceed(r, "wipe", "sleep")
    /\ volume' = "none"
    /\ wiped' = [wiped EXCEPT ![r] = TRUE]
    /\ UNCHANGED <<release, installer, ready, ctxDone, answer, alone, srvVars>>

\* kubectl delete pvc --all waits until no pod uses the volumes.
KubectlDeletePVCs(r) ==
    /\ ~ctxDone[r] /\ release = "none"
    /\ Proceed(r, "wipe", "sleep")
    /\ volume' = "none"
    /\ wiped' = [wiped EXCEPT ![r] = TRUE]
    /\ UNCHANGED <<release, installer, ready, ctxDone, answer, alone, srvVars>>

\* It fails or is killed, the volumes being removed or not.  Its error is
\* ignored, in the handler and in the script.
WipeFails(r) ==
    /\ Proceed(r, "wipe", "sleep")
    /\ UNCHANGED volume \/ (release = "none" /\ volume' = "none")
    /\ UNCHANGED <<release, installer, ready, answer, Others>>

\* time.Sleep(3 s), whatever became of the context.
Slept(r) ==
    /\ Goto(r, "sleep", IF r \in Scripts THEN "repo" ELSE "install")
    /\ UNCHANGED <<labVars, answer, Others>>

\* deploy-lab.sh: helm repo update and the namespace come before the install,
\* and end the script (set -e) when they fail.
RepoUpdate(r) ==
    /\ \/ Goto(r, "repo", "install") /\ UNCHANGED answer
       \/ Finish(r, "repo", "error")
    /\ UNCHANGED <<labVars, Others>>

\* helm upgrade --install applies the chart unless an operation is pending;
\* the StatefulSet claims the volumes there are, or fresh ones.
HelmInstall(r) ==
    /\ ~ctxDone[r] /\ release # "pending"
    /\ Goto(r, "install", "wait")
    /\ release' = "pending" /\ installer' = r
    /\ volume' = IF volume = "none" THEN "fresh" ELSE volume
    /\ UNCHANGED <<ready, answer, Others>>

\* Mutant of InstallReady: helm is called without --wait.
InstallNoWait(r) ==
    /\ ~ctxDone[r]
    /\ release = "pending" /\ installer = r
    /\ Proceed(r, "wait", "reply")
    /\ release' = "deployed" /\ installer' = NoOne
    /\ UNCHANGED <<ready, volume, answer, Others>>

\* --wait: every pod is ready and the record is still this installation's.
InstallReady(r) ==
    /\ ~ctxDone[r]
    /\ release = "pending" /\ installer = r /\ ready
    /\ Proceed(r, "wait", "reply")
    /\ release' = "deployed" /\ installer' = NoOne
    /\ UNCHANGED <<ready, volume, answer, Others>>

\* Mutant of InstallFails: the error of the install is ignored, as the wipe's is.
InstallFailureIgnored(r) ==
    /\ Finish(r, "install", "ok") \/ Finish(r, "wait", "ok")
    /\ UNCHANGED <<labVars, Others>>

\* An operation is pending, the 5 minutes or the context end, the release is
\* removed meanwhile: 500, and the record stays as it is.
InstallFails(r) ==
    /\ Finish(r, "install", "error") \/ Finish(r, "wait", "error")
    /\ UNCHANGED <<labVars, Others>>

\* c.JSON(200, ok), or the script's exit.
Reply(r) ==
    /\ Finish(r, "reply", "ok")
    /\ UNCHANGED <<labVars, Others>>

\* fault.Kill: the pod goes, 200; or the API server refuses, 500.
Kill(r) ==
    /\ ~ctxDone[r] /\ release # "none"
    /\ Finish(r, "delete", "ok")
    /\ ready' = FALSE
    /\ UNCHANGED <<release, installer, volume, Others>>

KillFails(r) ==
    /\ Finish(r, "delete", "error")
    /\ UNCHANGED <<labVars, Others>>

\* The pods of the release start, or restart, on their volumes.
PodsReady ==
    /\ release # "none" /\ volume # "none" /\ ~ready
    /\ ready' = TRUE
    /\ UNCHANGED <<release, installer, volume, reqVars, srvVars>>

-----------------------------------------------------------------------------
(* The server                                                              *)

\* SIGINT or SIGTERM: srv.Shutdown refuses new requests.
Signal ==
    /\ server \in {"up", "deaf"} /\ exits < MaxExits
    /\ server' = "draining"
    /\ UNCHANGED <<labVars, reqVars, exits, lost>>

\* The requests have ended or the 5 s are over: main returns, and with it every
\* handler.  A sleeping one and one about to reply leave nothing behind; helm,
\* kubectl or the deletion another has begun is still carried out, or fails.
Exit ==
    /\ server = "draining"
    /\ server' = "down" /\ exits' = exits + 1
    /\ lost' = lost \cup {r \in Resets \cup Kills : Active(r)}
    /\ pc' = [r \in Requests |-> IF r \in lost' /\ pc[r] \in {"sleep", "reply"} THEN "done"
                                 ELSE pc[r]]
    /\ UNCHANGED <<labVars, ctxDone, answer, alone, wiped>>

\* Somebody starts it again; it knows nothing of the requests before.  When it
\* cannot listen it logs that, and waits for a signal all the same.
Restart ==
    /\ server = "down"
    /\ server' \in {"up", "deaf"}
    /\ UNCHANGED <<labVars, reqVars, exits, lost>>

-----------------------------------------------------------------------------

Command(r) ==
    \/ HelmUninstall(r) \/ UninstallFails(r)
    \/ KubectlDeletePVCs(r) \/ WipeFails(r) \/ Slept(r) \/ RepoUpdate(r)
    \/ HelmInstall(r) \/ InstallReady(r) \/ InstallFails(r) \/ Reply(r)
    \/ Kill(r) \/ KillFails(r)

Next ==
    \/ \E r \in Requests : Start(r) \/ Reject(r) \/ ContextDone(r) \/ Command(r)
    \/ PodsReady \/ Signal \/ Exit \/ Restart

Spec == Init /\ [][Next]_vars

-----------------------------------------------------------------------------
(* What is promised                                                        *)

\* A reset that reports success and had the lab to itself leaves it installed
\* and ready, and on fresh volumes unless its wipe failed, whatever state an
\* earlier reset, killed half-way or cut off by an exit of the server, left behind.
OkAloneIsFresh ==
    \A r \in Requests \ Kills : pc[r] = "reply" /\ alone[r] =>
        /\ release = "deployed" /\ installer = NoOne /\ ready
        /\ wiped[r] => volume = "fresh"

\* When nothing is running and every reset that ran reported success, the lab is
\* installed, on fresh volumes if any of them wiped the old ones, however the
\* resets were interleaved: a lab left down has been reported to somebody, by an
\* error or by a connection that broke as the server exited.
LabDownIsReported ==
    LET ran == {r \in Requests \ Kills : answer[r] \in {"ok", "error"}} IN
    /\ ran # {} /\ \A r \in ran : answer[r] = "ok"
    /\ lost \subseteq Kills
    /\ \A r \in Requests : ~Active(r)
    => /\ release = "deployed" /\ volume # "none"
       /\ (\E r \in ran : wiped[r]) => volume = "fresh"

=============================================================================
