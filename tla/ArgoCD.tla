------------------------------- MODULE ArgoCD -------------------------------
(***************************************************************************)
(* The installation of ArgoCD and of its application (pkg/argocd, with     *)
(* CreateArgoCDRBAC of pkg/rbac).  main keeps the call of Run commented    *)
(* out; the module says what Run does where it is called.                  *)
(*                                                                         *)
(* Tickers and timeouts are channels: a value becomes ready at some time,  *)
(* a ticker holds at most one, and a select takes any that is ready.  How  *)
(* long a call takes is left open, so any of them may be ready at a select.*)
(***************************************************************************)
VARIABLES
    argocd,      \* the ArgoCD CR: "absent", "pending", or "running" (status.server)
    repoSecret,  \* the Secret with the credentials of the repository exists
    app,         \* the Application: "absent", "progressing", or "healthy" (and Synced)
    pc,          \* where Run is
    first,       \* createApplication was called before waitForTasks, not by it
    tick,        \* a value in ticker.C or checkTicker.C
    reinstall,   \* a value in deleteTicker.C
    expired,     \* a value in the channel of time.After
    cancelled    \* ctx is done

vars == <<argocd, repoSecret, app, pc, first, tick, reinstall, expired, cancelled>>

cluster == <<argocd, repoSecret, app>>
timers  == <<tick, reinstall, expired>>

\* "down": no process.
Steps == {"down", "config", "getArgoCD", "createArgoCD", "waitArgoCD", "checkArgoCD",
          "getApp", "rbac", "createApp", "waitTasks", "deleteApp", "checkTasks",
          "succeeded", "failed"}

Init ==
    /\ argocd \in {"absent", "pending", "running"}
    /\ repoSecret = FALSE
    /\ app = "absent"
    /\ pc = "down"
    /\ first = TRUE
    /\ tick = FALSE /\ reinstall = FALSE /\ expired = FALSE
    /\ cancelled = FALSE

-----------------------------------------------------------------------------

Goto(step) == pc' = step

\* A call that gets ctx: an error, or (unless ctx is done) success.
Succeeds == ~cancelled

\* A wait starts: new tickers and a new timeout.
NewTimers == tick' = FALSE /\ reinstall' = FALSE /\ expired' = FALSE

-----------------------------------------------------------------------------
(* Run *)

Start ==
    /\ pc = "down"
    /\ Goto("config")
    /\ first' = TRUE
    /\ cancelled' = FALSE
    /\ NewTimers
    /\ UNCHANGED cluster

LoadFromConfigMap ==
    /\ pc = "config"
    /\ \/ Succeeds /\ Goto("getArgoCD")
       \/ Goto("failed")
    /\ UNCHANGED <<cluster, first, timers, cancelled>>

\* argoDeployment: its calls get context.Background(), so they outlive ctx.
GetArgoCD ==
    /\ pc = "getArgoCD"
    /\ \/ argocd = "absent" /\ Goto("createArgoCD") /\ UNCHANGED timers
       \/ argocd # "absent" /\ Goto("waitArgoCD") /\ NewTimers
       \/ Goto("failed") /\ UNCHANGED timers
    /\ UNCHANGED <<cluster, first, cancelled>>

createDeployment ==
    /\ pc = "createArgoCD"
    /\ \/ argocd' = "pending" /\ Goto("waitArgoCD") /\ NewTimers
       \/ Goto("failed") /\ UNCHANGED <<argocd, timers>>
    /\ UNCHANGED <<repoSecret, app, first, cancelled>>

\* waitForDeployment: the ticker case of the select, and then its body.
waitForDeployment ==
    /\ pc = "waitArgoCD"
    /\ tick
    /\ tick' = FALSE
    /\ Goto("checkArgoCD")
    /\ UNCHANGED <<cluster, first, reinstall, expired, cancelled>>

CheckArgoCD ==
    /\ pc = "checkArgoCD"
    /\ \/ argocd = "running" /\ Goto("getApp")
       \/ Goto("waitArgoCD")     \* not running, or the Get failed
    /\ UNCHANGED <<cluster, first, timers, cancelled>>

\* argoApplication: an error of the Get counts as "not deployed".
getApplication ==
    /\ pc = "getApp"
    /\ \/ Succeeds /\ app # "absent" /\ Goto("waitTasks") /\ NewTimers
       \/ Goto("rbac") /\ UNCHANGED timers
    /\ UNCHANGED <<cluster, first, cancelled>>

\* createApplication returns an error: it ends argoApplication, and is only
\* logged in waitForTasks.
CreateFails ==
    /\ Goto(IF first THEN "failed" ELSE "waitTasks")
    /\ UNCHANGED <<first, timers>>

\* Mutant: the error is only logged.
CreateArgoCDRBACLogged ==
    /\ pc = "rbac"
    /\ \/ repoSecret' = TRUE /\ Goto("createApp")
       \/ repoSecret' = repoSecret /\ Goto("createApp")
    /\ UNCHANGED <<argocd, app, first, timers, cancelled>>

\* CreateArgoCDRBAC: AlreadyExists is fine.  A failed attempt changes nothing;
\* retry tries again until retryMaxElapsed or the end of ctx.
CreateArgoCDRBAC ==
    /\ pc = "rbac"
    /\ \/ /\ Succeeds
          /\ repoSecret' = TRUE
          /\ Goto("createApp")
          /\ UNCHANGED <<first, timers>>
       \/ CreateFails /\ UNCHANGED repoSecret
    /\ UNCHANGED <<argocd, app, cancelled>>

\* The Create at the end of createApplication; AlreadyExists is an error.
CreateApplication ==
    /\ pc = "createApp"
    /\ \/ /\ Succeeds /\ app = "absent"
          /\ app' = "progressing"
          /\ Goto("waitTasks")
          /\ first' = FALSE
          /\ IF first THEN NewTimers ELSE UNCHANGED timers
       \/ CreateFails /\ UNCHANGED app
    /\ UNCHANGED <<argocd, repoSecret, cancelled>>

\* waitForTasks: the ticker cases of the select.
waitForTasks ==
    /\ pc = "waitTasks"
    /\ \/ tick /\ tick' = FALSE /\ Goto("checkTasks") /\ UNCHANGED reinstall
       \/ reinstall /\ reinstall' = FALSE /\ Goto("deleteApp") /\ UNCHANGED tick
    /\ first' = FALSE
    /\ UNCHANGED <<cluster, expired, cancelled>>

\* Mutant: waitForTasks has no timeout.
GiveUpOnCancel ==
    /\ \/ pc = "waitArgoCD" /\ expired
       \/ pc = "waitTasks" /\ cancelled
    /\ Goto("failed")
    /\ UNCHANGED <<cluster, first, timers, cancelled>>

\* The other cases of both selects.  waitForDeployment has none for ctx.
GiveUp ==
    /\ \/ pc = "waitArgoCD" /\ expired
       \/ pc = "waitTasks" /\ (expired \/ cancelled)
    /\ Goto("failed")
    /\ UNCHANGED <<cluster, first, timers, cancelled>>

\* The Application is deleted, healthy or not, and made again.
DeleteApplication ==
    /\ pc = "deleteApp"
    /\ Goto("rbac")
    /\ \/ Succeeds /\ app' = "absent"
       \/ UNCHANGED app
    /\ UNCHANGED <<argocd, repoSecret, first, timers, cancelled>>

CheckTasks ==
    /\ pc = "checkTasks"
    /\ \/ Succeeds /\ app = "healthy" /\ Goto("succeeded")
       \/ Goto("waitTasks")      \* not Synced and Healthy, or the Get failed
    /\ UNCHANGED <<cluster, first, timers, cancelled>>

RunStep ==
    \/ LoadFromConfigMap \/ GetArgoCD \/ createDeployment \/ waitForDeployment
    \/ CheckArgoCD \/ getApplication \/ CreateArgoCDRBAC \/ CreateApplication
    \/ waitForTasks \/ GiveUp \/ DeleteApplication \/ CheckTasks

-----------------------------------------------------------------------------
(* The process and the cluster *)

Ended == {"down", "succeeded", "failed"}

\* A value arrives in a channel of the wait; a full ticker drops it.
TimerFires ==
    /\ pc \notin Ended
    /\ \/ tick' = TRUE /\ UNCHANGED <<reinstall, expired>>
       \/ reinstall' = TRUE /\ UNCHANGED <<tick, expired>>
       \/ expired' = TRUE /\ UNCHANGED <<tick, reinstall>>
    /\ UNCHANGED <<cluster, pc, first, cancelled>>

\* SIGTERM.
Cancel ==
    /\ pc # "down" /\ ~cancelled
    /\ cancelled' = TRUE
    /\ UNCHANGED <<cluster, pc, first, timers>>

\* The process ends, or is killed.  Another one may start.
ProcessEnds ==
    /\ pc # "down"
    /\ Goto("down")
    /\ UNCHANGED <<cluster, first, timers, cancelled>>

\* The GitOps operator starts the server, which may also fail.
ServerChanges ==
    /\ argocd # "absent"
    /\ argocd' \in {"pending", "running"}
    /\ UNCHANGED <<repoSecret, app, pc, first, timers, cancelled>>

\* ArgoCD syncs the Application, or it drifts.
ApplicationChanges ==
    /\ argocd = "running" /\ app # "absent"
    /\ app' \in {"progressing", "healthy"}
    /\ UNCHANGED <<argocd, repoSecret, pc, first, timers, cancelled>>

Next ==
    \/ Start \/ RunStep
    \/ TimerFires \/ Cancel \/ ProcessEnds \/ ServerChanges \/ ApplicationChanges

Spec == Init /\ [][Next]_vars

\* Run goes on, the timeout of a wait comes, and a select whose cases are ready
\* again and again picks each of them (the choice is uniform).
Fairness ==
    /\ WF_vars(RunStep)
    /\ WF_vars(TimerFires /\ expired')
    /\ SF_vars(GiveUp)

FairSpec == Spec /\ Fairness

-----------------------------------------------------------------------------
(* Properties *)

TypeOK ==
    /\ argocd \in {"absent", "pending", "running"}
    /\ repoSecret \in BOOLEAN
    /\ app \in {"absent", "progressing", "healthy"}
    /\ pc \in Steps
    /\ {first, tick, reinstall, expired, cancelled} \subseteq BOOLEAN

\* An Application always finds the credentials of its repository and the ArgoCD
\* instance that is to sync it, whichever calls failed, whenever processes
\* ended, and however often waitForTasks deleted it and made it again.
AppIsServed == app # "absent" => repoSecret /\ argocd # "absent"

\* Where Run is tells what it has installed.
Progress ==
    /\ pc \in {"waitArgoCD", "checkArgoCD", "getApp", "rbac", "createApp",
               "waitTasks", "deleteApp", "checkTasks"} => argocd # "absent"
    /\ pc = "createApp" => repoSecret

\* The inductive invariant.
IInv == TypeOK /\ AppIsServed /\ Progress

\* Run ends, since both waits have a timeout: it cannot keep the manager from
\* starting for ever.
RunEnds == pc \notin Ended ~> pc \in Ended
=============================================================================
