--------------------------- MODULE LabResetProofs ---------------------------
(***************************************************************************)
(* For any number of reset requests, scripts, kills and exits of the       *)
(* server: the lab keeps its shape, and a reset that had the lab to itself *)
(* and reports success leaves it ready, on fresh volumes if it wiped them. *)
(***************************************************************************)
EXTENDS LabReset, TLAPS

-----------------------------------------------------------------------------
(* Types                                                                   *)

\* Every command of a request keeps the shape: whatever removes the release or
\* the volumes leaves no ready pods behind.
LEMMA CommandTypeOK ==
    ASSUME TypeOK, NEW r \in Requests, Command(r) PROVE TypeOK'
<1> USE DEF TypeOK, Step, Goto, Proceed, Finish, Others, srvVars, labVars
<1>1. CASE HelmUninstall(r)
  BY <1>1 DEF HelmUninstall
<1>2. CASE UninstallFails(r)
  <2>1. /\ release' \in {"none", "pending", "deployed"} /\ installer' \in Requests \cup {NoOne}
        /\ ready' \in BOOLEAN /\ (ready' => release' # "none" /\ volume # "none")
    <3>1. CASE UNCHANGED <<release, installer, ready>>
      BY <3>1
    <3>2. CASE release' = "none" /\ installer' = NoOne /\ ready' = FALSE
      BY <3>2
    <3> QED
      BY <1>2, <3>1, <3>2 DEF UninstallFails
  <2>2. pc' \in [Requests -> Step] /\ answer' \in [Requests -> {"none", "ok", "error", "refused"}]
    <3>1. CASE r \in Scripts
      BY <1>2, <3>1 DEF UninstallFails
    <3>2. CASE r \notin Scripts
      BY <1>2, <3>2 DEF UninstallFails
    <3> QED
      BY <3>1, <3>2
  <2>3. UNCHANGED <<volume, ctxDone, alone, wiped, server, exits, lost>>
    BY <1>2 DEF UninstallFails
  <2> QED
    BY <2>1, <2>2, <2>3
<1>3. CASE KubectlDeletePVCs(r)
  BY <1>3 DEF KubectlDeletePVCs
<1>4. CASE WipeFails(r)
  BY <1>4 DEF WipeFails
<1>5. CASE Slept(r)
  BY <1>5 DEF Slept
<1>6. CASE RepoUpdate(r)
  BY <1>6 DEF RepoUpdate
<1>7. CASE HelmInstall(r)
  BY <1>7 DEF HelmInstall
<1>8. CASE InstallReady(r)
  BY <1>8 DEF InstallReady
<1>9. CASE InstallFails(r)
  BY <1>9 DEF InstallFails
<1>10. CASE Reply(r)
  BY <1>10 DEF Reply
<1>11. CASE Kill(r)
  BY <1>11 DEF Kill
<1>12. CASE KillFails(r)
  BY <1>12 DEF KillFails
<1> QED
  BY <1>1, <1>2, <1>3, <1>4, <1>5, <1>6, <1>7, <1>8, <1>9, <1>10, <1>11, <1>12
     DEF Command

\* So does what comes before the first command, and what ends its context.
LEMMA RequestTypeOK ==
    ASSUME TypeOK, NEW r \in Requests, Start(r) \/ Reject(r) \/ ContextDone(r)
    PROVE  TypeOK'
<1> USE DEF TypeOK, Step, Goto, Finish, Others, srvVars, labVars
<1>1. CASE Start(r)
  BY <1>1 DEF Start
<1>2. CASE Reject(r)
  BY <1>2 DEF Reject
<1>3. CASE ContextDone(r)
  BY <1>3 DEF ContextDone
<1> QED
  BY <1>1, <1>2, <1>3

\* The server exits only after a signal, which the bound has let through.
ExitsInv == server = "draining" => exits < MaxExits

\* The steps of the server keep the shape and the bound on its exits.
LEMMA ServerTypeOK ==
    ASSUME TypeOK, ExitsInv, Signal \/ Exit \/ Restart
    PROVE  TypeOK' /\ ExitsInv'
<1> USE ResetAssumption DEF TypeOK, ExitsInv, Step, labVars, reqVars
<1>1. CASE Signal
  BY <1>1 DEF Signal
<1>2. CASE Exit
  <2>1. lost' \subseteq Resets \cup Kills
    BY <1>2 DEF Exit
  <2>2. pc' \in [Requests -> Step]
    BY <1>2 DEF Exit
  <2>3. exits' \in 0..MaxExits /\ server' = "down"
    BY <1>2 DEF Exit
  <2> QED
    BY <1>2, <2>1, <2>2, <2>3 DEF Exit
<1>3. CASE Restart
  BY <1>3 DEF Restart
<1> QED
  BY <1>1, <1>2, <1>3

\* Only the steps of the server touch its state.
LEMMA ExitsElsewhere ==
    ASSUME ExitsInv,
           \/ PodsReady \/ UNCHANGED vars
           \/ \E r \in Requests : Start(r) \/ Reject(r) \/ ContextDone(r) \/ Command(r)
    PROVE  ExitsInv'
<1>1. UNCHANGED srvVars
  BY DEF vars, PodsReady, Start, Reject, ContextDone, Command, HelmUninstall, UninstallFails,
         KubectlDeletePVCs, WipeFails, Slept, RepoUpdate, HelmInstall, InstallReady,
         InstallFails, Reply, Kill, KillFails, Others, srvVars
<1> QED
  BY <1>1 DEF ExitsInv, srvVars

\* The release, its volumes, its pods and the requests keep their shape under
\* every interleaving of handleReset, handleKill and reset-lab.sh: pods are ready
\* only with a release and volumes under them.
THEOREM TypeCorrect == Spec => [](TypeOK /\ ExitsInv)
<1>1. Init => TypeOK /\ ExitsInv
  <2> SUFFICES ASSUME Init PROVE TypeOK /\ ExitsInv
    OBVIOUS
  <2>1. release \in {"none", "pending", "deployed"} /\ volume \in {"none", "old", "fresh"}
        /\ ready \in BOOLEAN /\ (ready => release # "none" /\ volume # "none")
    BY DEF Init
  <2>2. exits \in 0..MaxExits /\ server = "up" /\ lost \subseteq Resets \cup Kills
    BY ResetAssumption DEF Init
  <2>3. /\ pc \in [Requests -> Step] /\ answer \in [Requests -> {"none", "ok", "error", "refused"}]
        /\ ctxDone \in [Requests -> BOOLEAN]
        /\ alone \in [Requests -> BOOLEAN] /\ wiped \in [Requests -> BOOLEAN]
    BY DEF Init, Step
  <2> QED
    BY <2>1, <2>2, <2>3 DEF Init, TypeOK, ExitsInv
<1>2. TypeOK /\ ExitsInv /\ [Next]_vars => TypeOK' /\ ExitsInv'
  <2> SUFFICES ASSUME TypeOK, ExitsInv, [Next]_vars PROVE TypeOK' /\ ExitsInv'
    OBVIOUS
  <2>1. ASSUME NEW r \in Requests, Start(r) \/ Reject(r) \/ ContextDone(r) \/ Command(r)
        PROVE  TypeOK' /\ ExitsInv'
    BY <2>1, RequestTypeOK, CommandTypeOK, ExitsElsewhere
  <2>2. CASE PodsReady
    <3>1. TypeOK'
      BY <2>2 DEF PodsReady, TypeOK, reqVars, srvVars
    <3> QED
      BY <3>1, <2>2, ExitsElsewhere
  <2>3. CASE Signal \/ Exit \/ Restart
    BY <2>3, ServerTypeOK
  <2>4. CASE UNCHANGED vars
    <3>1. TypeOK'
      BY <2>4 DEF vars, labVars, reqVars, srvVars, TypeOK
    <3> QED
      BY <3>1, <2>4, ExitsElsewhere
  <2> QED
    BY <2>1, <2>2, <2>3, <2>4 DEF Next
<1> QED
  BY <1>1, <1>2, PTL DEF Spec

-----------------------------------------------------------------------------
(* A reset on its own                                                      *)

\* While a request that had the lab to itself runs, nothing else does.
AloneInv ==
    \A r \in Requests : alone[r] /\ Active(r) => \A o \in Requests \ {r} : ~Active(o)

\* What r, alone, has made of the lab by each of its steps.
Progress(r) ==
    /\ pc[r] \in {"start", "uninstall", "wipe"} => ~wiped[r]
    /\ alone[r] /\ wiped[r] /\ pc[r] \in {"sleep", "repo", "install"}
         => release = "none" /\ volume = "none"
    /\ alone[r] /\ pc[r] = "wait"
         => release = "pending" /\ installer = r /\ (wiped[r] => volume = "fresh")
    /\ alone[r] /\ pc[r] = "reply"
         => release = "deployed" /\ installer = NoOne /\ ready /\ (wiped[r] => volume = "fresh")

AllProgress == \A r \in Requests : Progress(r)

ResetInv == TypeOK /\ AloneInv /\ AllProgress

\* A step of r's own commands takes it from one line of Progress to the next.
LEMMA OwnProgress ==
    ASSUME ResetInv, NEW r \in Requests, Command(r)
    PROVE  Progress(r)'
<1> USE DEF ResetInv, AllProgress, TypeOK, Step, Progress, Goto, Proceed, Finish, Others, srvVars, labVars
<1>1. CASE HelmUninstall(r) \/ UninstallFails(r)
  BY <1>1 DEF HelmUninstall, UninstallFails
<1>2. CASE KubectlDeletePVCs(r)
  BY <1>2 DEF KubectlDeletePVCs
<1>3. CASE WipeFails(r)
  BY <1>3 DEF WipeFails
<1>4. CASE Slept(r) \/ RepoUpdate(r)
  BY <1>4 DEF Slept, RepoUpdate
<1>5. CASE HelmInstall(r)
  BY <1>5 DEF HelmInstall
<1>6. CASE InstallReady(r)
  BY <1>6 DEF InstallReady
<1>7. CASE InstallFails(r) \/ Reply(r)
  BY <1>7 DEF InstallFails, Reply
<1>8. CASE Kill(r) \/ KillFails(r)
  BY <1>8 DEF Kill, KillFails
<1> QED
  BY <1>1, <1>2, <1>3, <1>4, <1>5, <1>6, <1>7, <1>8 DEF Command

\* A command runs between a start and an end, and touches nobody else's place.
LEMMA CommandFrame ==
    ASSUME TypeOK, NEW r \in Requests, Command(r)
    PROVE  /\ Active(r)
           /\ alone' = alone
           /\ \A q \in Requests \ {r} : pc'[q] = pc[q] /\ wiped'[q] = wiped[q]
<1> USE DEF TypeOK, Active, Goto, Proceed, Finish, Others
<1>1. CASE HelmUninstall(r) \/ UninstallFails(r)
  BY <1>1 DEF HelmUninstall, UninstallFails
<1>2. CASE KubectlDeletePVCs(r)
  BY <1>2 DEF KubectlDeletePVCs
<1>3. CASE WipeFails(r) \/ Slept(r) \/ RepoUpdate(r)
  BY <1>3 DEF WipeFails, Slept, RepoUpdate
<1>4. CASE HelmInstall(r) \/ InstallReady(r) \/ InstallFails(r) \/ Reply(r)
  BY <1>4 DEF HelmInstall, InstallReady, InstallFails, Reply
<1>5. CASE Kill(r) \/ KillFails(r)
  BY <1>5 DEF Kill, KillFails
<1> QED
  BY <1>1, <1>2, <1>3, <1>4, <1>5 DEF Command

\* A command of r disturbs no other request that is alone: r runs.
LEMMA CommandProgress ==
    ASSUME ResetInv, NEW r \in Requests, Command(r)
    PROVE  AloneInv' /\ AllProgress'
<1>1. TypeOK /\ AloneInv
  BY DEF ResetInv
<1>2. /\ Active(r)
      /\ alone' = alone
      /\ \A q \in Requests \ {r} : pc'[q] = pc[q] /\ wiped'[q] = wiped[q]
  BY <1>1, CommandFrame
<1>3. AloneInv'
  BY <1>1, <1>2 DEF AloneInv, Active
<1>4. ASSUME NEW q \in Requests \ {r} PROVE Progress(q)'
  <2>1. ~(alone[q] /\ Active(q))
    BY <1>1, <1>2 DEF AloneInv
  <2>2. pc'[q] \in {"sleep", "repo", "install", "wait", "reply"} => ~alone'[q]
    BY <1>2, <2>1 DEF Active
  <2>3. pc'[q] \in {"start", "uninstall", "wipe"} => ~wiped'[q]
    BY <1>2 DEF ResetInv, AllProgress, Progress
  <2> QED
    BY <2>2, <2>3 DEF Progress
<1> QED
  BY <1>3, <1>4, OwnProgress DEF AllProgress

\* A request that starts ends the solitude of those that run.
LEMMA RequestProgress ==
    ASSUME ResetInv, NEW r \in Requests, Start(r) \/ Reject(r) \/ ContextDone(r)
    PROVE  AloneInv' /\ AllProgress'
<1> USE DEF ResetInv, AllProgress, TypeOK, Step, AloneInv, Active, Progress, labVars
<1>1. CASE Start(r)
  <2>1. /\ pc[r] = "start" /\ pc'[r] \in {"delete", "uninstall"}
        /\ \A q \in Requests \ {r} : pc'[q] = pc[q] /\ (alone'[q] <=> alone[q] /\ ~Active(q))
        /\ alone'[r] => \A o \in Requests \ {r} : ~Active(o)
        /\ wiped' = wiped
    BY <1>1 DEF Start, Goto
  <2> QED
    BY <2>1
<1>2. CASE Reject(r)
  BY <1>2 DEF Reject, Finish, Goto, Others
<1>3. CASE ContextDone(r)
  BY <1>3 DEF ContextDone
<1> QED
  BY <1>1, <1>2, <1>3

\* Pods that become ready, a signal and a restart take nothing back; an exit
\* only ends requests.
LEMMA QuietProgress ==
    ASSUME ResetInv, PodsReady \/ Signal \/ Exit \/ Restart \/ UNCHANGED vars
    PROVE  AloneInv' /\ AllProgress'
<1> USE DEF ResetInv, AllProgress, TypeOK, AloneInv, Active, Progress, labVars, reqVars
<1>1. CASE PodsReady
  BY <1>1 DEF PodsReady
<1>2. CASE Signal \/ Restart
  BY <1>2 DEF Signal, Restart
<1>3. CASE Exit
  <2>1. /\ \A q \in Requests : pc'[q] \in {pc[q], "done"}
        /\ UNCHANGED <<release, installer, ready, volume, alone, wiped>>
    BY <1>3 DEF Exit
  <2> QED
    BY <2>1
<1>4. CASE UNCHANGED vars
  BY <1>4 DEF vars
<1> QED
  BY <1>1, <1>2, <1>3, <1>4

\* A handleReset or a reset-lab.sh that reports success and had the lab to itself
\* leaves it installed and ready, and on fresh volumes if its wipe succeeded.
THEOREM ResetIsFresh == Spec => []OkAloneIsFresh
<1>1. Init => AloneInv /\ AllProgress
  BY DEF Init, AloneInv, AllProgress, Progress, Active
<1>2. TypeOK /\ AloneInv /\ AllProgress /\ [Next]_vars => AloneInv' /\ AllProgress'
  BY CommandProgress, RequestProgress, QuietProgress DEF Next, ResetInv
<1>3. AllProgress => OkAloneIsFresh
  BY DEF AllProgress, Progress, OkAloneIsFresh
<1> QED
  BY <1>1, <1>2, <1>3, TypeCorrect, PTL DEF Spec

-----------------------------------------------------------------------------
(* Several resets                                                          *)

Installers == Requests \ Kills

\* Kills delete pods, resets and scripts do everything else; each is answered once.
KindInv ==
    \A r \in Requests :
        /\ pc[r] # "done" => answer[r] = "none"
        /\ pc[r] = "delete" => r \in Kills
        /\ pc[r] \in {"uninstall", "wipe", "sleep", "repo", "install", "wait", "reply"}
             => r \in Installers

\* Once volumes have been wiped the old data is gone for good, and a release
\* always has volumes.
VolumeInv ==
    /\ volume = "old" => \A r \in Requests : ~wiped[r]
    /\ release # "none" => volume # "none"

\* q has still to bring the lab up, or somebody has been told that it did not.
Owing(q) ==
    \/ pc[q] \in {"wipe", "sleep", "repo", "install", "wait"}
    \/ answer[q] = "error"
    \/ q \in lost

\* No reset has touched the lab yet.
Untouched ==
    \A q \in Installers : pc[q] \in {"start", "uninstall", "done"} /\ answer[q] \notin {"ok", "error"}

DownInv == release = "deployed" \/ Untouched \/ \E q \in Installers : Owing(q)

ReportInv == TypeOK /\ KindInv /\ VolumeInv /\ DownInv

\* A command that leaves the lab down is followed by another of its request, or
\* ends it with an error.
LEMMA CommandReport ==
    ASSUME ReportInv, NEW r \in Requests, Command(r)
    PROVE  KindInv' /\ VolumeInv' /\ DownInv'
<1> USE DEF ReportInv, TypeOK, Step, Goto, Proceed, Finish, Others, srvVars, labVars
<1>1. KindInv'
  <2>1. /\ \A q \in Requests \ {r} : pc'[q] = pc[q] /\ answer'[q] = answer[q]
        /\ \/ pc'[r] = "done"
           \/ /\ pc[r] \in {"uninstall", "wipe", "sleep", "repo", "install", "wait", "reply"}
              /\ pc'[r] \in Step \ {"delete", "start"} /\ answer'[r] = answer[r]
    <3>1. CASE HelmUninstall(r) \/ UninstallFails(r)
      BY <3>1 DEF HelmUninstall, UninstallFails
    <3>2. CASE KubectlDeletePVCs(r) \/ WipeFails(r) \/ Slept(r) \/ RepoUpdate(r)
      BY <3>2 DEF KubectlDeletePVCs, WipeFails, Slept, RepoUpdate
    <3>3. CASE HelmInstall(r) \/ InstallReady(r) \/ InstallFails(r) \/ Reply(r)
      BY <3>3 DEF HelmInstall, InstallReady, InstallFails, Reply
    <3>4. CASE Kill(r) \/ KillFails(r)
      BY <3>4 DEF Kill, KillFails
    <3> QED
      BY <3>1, <3>2, <3>3, <3>4 DEF Command
  <2> QED
    BY <2>1 DEF KindInv
<1>2. VolumeInv'
  <2> USE DEF VolumeInv
  <2>1. CASE HelmUninstall(r) \/ UninstallFails(r)
    BY <2>1 DEF HelmUninstall, UninstallFails
  <2>2. CASE KubectlDeletePVCs(r)
    BY <2>2 DEF KubectlDeletePVCs
  <2>3. CASE WipeFails(r) \/ Slept(r) \/ RepoUpdate(r)
    BY <2>3 DEF WipeFails, Slept, RepoUpdate
  <2>4. CASE HelmInstall(r)
    BY <2>4 DEF HelmInstall
  <2>5. CASE InstallReady(r) \/ InstallFails(r) \/ Reply(r) \/ Kill(r) \/ KillFails(r)
    BY <2>5 DEF InstallReady, InstallFails, Reply, Kill, KillFails
  <2> QED
    BY <2>1, <2>2, <2>3, <2>4, <2>5 DEF Command
<1>3. DownInv'
  <2>1. \A q \in Requests \ {r} : pc'[q] = pc[q] /\ answer'[q] = answer[q]
    <3>1. CASE HelmUninstall(r) \/ UninstallFails(r)
      BY <3>1 DEF HelmUninstall, UninstallFails
    <3>2. CASE KubectlDeletePVCs(r) \/ WipeFails(r) \/ Slept(r) \/ RepoUpdate(r)
      BY <3>2 DEF KubectlDeletePVCs, WipeFails, Slept, RepoUpdate
    <3>3. CASE HelmInstall(r) \/ InstallReady(r) \/ InstallFails(r) \/ Reply(r)
      BY <3>3 DEF HelmInstall, InstallReady, InstallFails, Reply
    <3>4. CASE Kill(r) \/ KillFails(r)
      BY <3>4 DEF Kill, KillFails
    <3> QED
      BY <3>1, <3>2, <3>3, <3>4 DEF Command
  <2>2. lost' = lost
    BY DEF Command, HelmUninstall, UninstallFails, KubectlDeletePVCs, WipeFails, Slept, RepoUpdate,
           HelmInstall, InstallReady, InstallFails, Reply, Kill, KillFails
  <2>3. \A q \in Installers \ {r} : Owing(q) => Owing(q)'
    BY <2>1, <2>2 DEF Owing, Installers
  <2>4. CASE Kill(r) \/ KillFails(r)
    <3>1. r \in Kills /\ release' = release
      BY <2>4 DEF Kill, KillFails, KindInv
    <3> QED
      BY <2>1, <2>3, <3>1 DEF DownInv, Untouched, Installers
  <2>5. CASE InstallReady(r)
    BY <2>5 DEF InstallReady, DownInv
  <2>6. CASE Reply(r)
    <3>1. release' = release /\ ~Untouched /\ (Owing(r) => Owing(r)')
      BY <2>6, <2>2 DEF Reply, Untouched, KindInv, Owing
    <3> QED
      BY <2>3, <3>1 DEF DownInv
  <2>7. CASE \/ HelmUninstall(r) \/ UninstallFails(r) \/ KubectlDeletePVCs(r) \/ WipeFails(r)
             \/ Slept(r) \/ RepoUpdate(r) \/ HelmInstall(r) \/ InstallFails(r)
    <3>1. r \in Installers
      BY <2>7 DEF HelmUninstall, UninstallFails, KubectlDeletePVCs, WipeFails, Slept,
                  RepoUpdate, HelmInstall, InstallFails, KindInv
    <3>2. Owing(r)'
      <4>1. CASE HelmUninstall(r) \/ KubectlDeletePVCs(r) \/ WipeFails(r)
        BY <4>1 DEF HelmUninstall, KubectlDeletePVCs, WipeFails, Owing
      <4>2. CASE UninstallFails(r)
        BY <4>2 DEF UninstallFails, Owing
      <4>3. CASE Slept(r) \/ RepoUpdate(r) \/ HelmInstall(r)
        BY <4>3 DEF Slept, RepoUpdate, HelmInstall, Owing
      <4>4. CASE InstallFails(r)
        BY <4>4 DEF InstallFails, Owing
      <4> QED
        BY <2>7, <4>1, <4>2, <4>3, <4>4
    <3> QED
      BY <3>1, <3>2 DEF DownInv, Installers
  <2> QED
    BY <2>4, <2>5, <2>6, <2>7 DEF Command
<1> QED
  BY <1>1, <1>2, <1>3

\* A request that starts, is refused or loses its context changes nothing yet.
LEMMA RequestReport ==
    ASSUME ReportInv, NEW r \in Requests, Start(r) \/ Reject(r) \/ ContextDone(r)
    PROVE  KindInv' /\ VolumeInv' /\ DownInv'
<1> USE DEF ReportInv, TypeOK, Goto, Finish, Others, srvVars, labVars
<1>1. /\ \A q \in Requests \ {r} : pc'[q] = pc[q] /\ answer'[q] = answer[q]
      /\ UNCHANGED <<release, volume, wiped, lost>>
      /\ \/ /\ pc[r] = "start" /\ answer[r] = "none"
            /\ \/ pc'[r] = "delete" /\ answer'[r] = "none" /\ r \in Kills
               \/ pc'[r] = "uninstall" /\ answer'[r] = "none" /\ r \in Installers
               \/ pc'[r] = "done" /\ answer'[r] \in {"none", "refused"}
         \/ pc'[r] = pc[r] /\ answer'[r] = answer[r]
  <2>1. CASE Start(r)
    <3>1. /\ \A q \in Requests \ {r} : pc'[q] = pc[q]
          /\ UNCHANGED <<release, volume, wiped, lost, answer>>
          /\ pc[r] = "start" /\ pc'[r] = IF r \in Kills THEN "delete" ELSE "uninstall"
      BY <2>1 DEF Start
    <3> QED
      BY <3>1 DEF KindInv, Installers
  <2>2. CASE Reject(r)
    BY <2>2 DEF Reject, KindInv
  <2>3. CASE ContextDone(r)
    BY <2>3 DEF ContextDone
  <2> QED
    BY <2>1, <2>2, <2>3
<1>2. KindInv'
  BY <1>1 DEF KindInv, Installers
<1>3. VolumeInv'
  BY <1>1 DEF VolumeInv
<1>4. \A q \in Installers : Owing(q) => Owing(q)'
  BY <1>1 DEF Owing, Installers
<1>5. Untouched => Untouched'
  BY <1>1 DEF Untouched, Installers
<1> QED
  BY <1>1, <1>2, <1>3, <1>4, <1>5 DEF DownInv

\* Whoever is cut off by an exit of the server is lost, and counts as a report.
LEMMA QuietReport ==
    ASSUME ReportInv, PodsReady \/ Signal \/ Exit \/ Restart \/ UNCHANGED vars
    PROVE  KindInv' /\ VolumeInv' /\ DownInv'
<1> USE DEF ReportInv, TypeOK, labVars, reqVars, srvVars
<1>1. CASE PodsReady \/ Signal \/ Restart \/ UNCHANGED vars
  <2>1. UNCHANGED <<release, volume, pc, answer, wiped, lost>>
    BY <1>1 DEF PodsReady, Signal, Restart, vars
  <2> QED
    BY <2>1 DEF KindInv, VolumeInv, DownInv, Untouched, Owing, Installers
<1>2. CASE Exit
  <2>1. /\ UNCHANGED <<release, volume, answer, wiped>> /\ lost \subseteq lost'
        /\ \A q \in Requests : \/ pc'[q] = pc[q]
                               \/ pc'[q] = "done" /\ q \in lost'
    BY <1>2 DEF Exit
  <2>2. KindInv'
    BY <2>1 DEF KindInv, Installers
  <2>3. VolumeInv'
    BY <2>1 DEF VolumeInv
  <2>4. \A q \in Installers : Owing(q) => Owing(q)'
    BY <2>1 DEF Owing, Installers
  <2>5. Untouched => Untouched'
    BY <2>1 DEF Untouched, Installers
  <2> QED
    BY <2>1, <2>2, <2>3, <2>4, <2>5 DEF DownInv
<1> QED
  BY <1>1, <1>2

\* Once nothing runs, resets and scripts that all reported success leave the lab
\* installed, and on fresh volumes if one of them wiped the old ones: a lab left
\* down was answered with an error or with a connection cut off by an exit.
THEOREM DownIsReported == Spec => []LabDownIsReported
<1>1. Init => KindInv /\ VolumeInv /\ DownInv
  <2> SUFFICES ASSUME Init PROVE KindInv /\ VolumeInv /\ DownInv
    OBVIOUS
  <2>1. \A r \in Requests : pc[r] = "start" /\ answer[r] = "none" /\ ~wiped[r]
    BY DEF Init
  <2>2. VolumeInv
    BY <2>1 DEF Init, VolumeInv
  <2> QED
    BY <2>1, <2>2 DEF KindInv, DownInv, Untouched, Installers
<1>2. TypeOK /\ KindInv /\ VolumeInv /\ DownInv /\ [Next]_vars
        => KindInv' /\ VolumeInv' /\ DownInv'
  BY CommandReport, RequestReport, QuietReport DEF Next, ReportInv
<1>3. TypeOK /\ KindInv /\ VolumeInv /\ DownInv => LabDownIsReported
  <2> SUFFICES ASSUME TypeOK, VolumeInv, DownInv,
                      \E r \in Installers : answer[r] \in {"ok", "error"},
                      \A r \in Installers : answer[r] \in {"ok", "error"} => answer[r] = "ok",
                      lost \subseteq Kills,
                      \A r \in Requests : ~Active(r)
               PROVE  /\ release = "deployed" /\ volume # "none"
                      /\ (\E r \in Installers : wiped[r]) => volume = "fresh"
    BY DEF LabDownIsReported, Installers
  <2>1. \A q \in Installers : ~Owing(q)
    BY DEF Owing, Active, Installers
  <2>2. release = "deployed"
    BY <2>1 DEF DownInv, Untouched
  <2> QED
    BY <2>2 DEF VolumeInv, TypeOK, Installers
<1> QED
  BY <1>1, <1>2, <1>3, TypeCorrect, PTL DEF Spec

=============================================================================
