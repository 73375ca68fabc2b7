------------------------ MODULE DeploymentController ------------------------
(***************************************************************************)
(* The Deployment reconciler (internal/controller/deployment_controller.go)*)
(* running against an API server it reads through an informer cache.       *)
(*                                                                         *)
(* A reconcile is a sequence of steps, one per call that touches shared    *)
(* state: it reads its Deployment from the cache once, keeps that copy in  *)
(* `local`, writes ConsoleNotification, Job, PipelineRun or child CR on    *)
(* the API server, and ends with at most one write of its own Deployment,  *)
(* which the API server refuses when the copy is stale.  Reconciles of     *)
(* different Deployments interleave; the work queue keeps those of one     *)
(* Deployment apart.                                                       *)
(***************************************************************************)
EXTENDS Naturals, FiniteSets, DeploymentStatus

CONSTANTS
    Deployments,              \* keys (namespace/name) of Deployment CRs
    Banners,                  \* names of ConsoleNotifications
    Ansible,                  \* keys created with spec.ansible.ansiblePlaybook
    BrokenRepos,              \* keys whose repository lacks a readable
                              \*   pipeline.yaml, pipelinerun.yaml or parameters
    PostDeployment,           \* parent key -> key "<name>-post-deploy", for keys
                              \*   with spec.postDeployment.repoName
    BannerOf,                 \* key -> "<name>-status-banner" (no namespace)
    JobOf,                    \* key -> "<name>-ansible-runner"
    PipelineRunOf,            \* key -> metadata.name in its pipelinerun.yaml; NoRun
                              \*   when the file has metadata.generateName
    GeneratedNames,           \* key -> names the API server may then generate
    MaxConcurrentReconciles,
    Budgets                   \* bounds: how many creations, deletions and edits
                              \*   by users, transient faults, operator restarts and
                              \*   periodic resyncs a behaviour may have, as a
                              \*   set of alternatives

BudgetItems == {"create", "delete", "fault", "restart", "edit", "resync"}

\* The names that a PipelineRun made from the repository of d may get.
PipelineRunsOf(d) ==
    IF PipelineRunOf[d] = NoRun THEN GeneratedNames[d] ELSE {PipelineRunOf[d]}

ASSUME ConstantsAssumption ==
    /\ Deployments # {}
    /\ Ansible \subseteq Deployments
    /\ BrokenRepos \subseteq Deployments
    /\ DOMAIN PostDeployment \subseteq Deployments
    /\ \A d \in DOMAIN PostDeployment :
            PostDeployment[d] \in Deployments \ DOMAIN PostDeployment
    /\ BannerOf \in [Deployments -> Banners]
    /\ JobOf \in [Deployments -> Runs]
    /\ PipelineRunOf \in [Deployments -> Runs \cup {NoRun}]
    /\ GeneratedNames \in [Deployments -> SUBSET Runs]
    /\ \A d, e \in Deployments : JobOf[d] \notin PipelineRunsOf(e)
    /\ \A d, e \in Deployments : d # e => JobOf[d] # JobOf[e]
    \* A generated suffix is taken to meet no name of another key.
    /\ \A d, e \in Deployments :
          d # e /\ PipelineRunOf[d] = NoRun
              => PipelineRunsOf(d) \cap PipelineRunsOf(e) = {}
    /\ MaxConcurrentReconciles \in Nat \ {0}
    /\ Budgets \subseteq [BudgetItems -> Nat]

VARIABLES
    server,       \* server[d]: the Deployment object stored for key d
    cache,        \* cache[d]: the version of it in the informer cache
    watch,        \* watch[d]: later versions the watch has still to deliver
    runs,         \* runs[n]: the Job or PipelineRun stored under name n
    runCache,     \* runCache[n]: the same in the informer cache
    banner,       \* banner[b]: spec of ConsoleNotification b; {} when absent
    bannerCache,  \* bannerCache[b]: spec in the cache, and whether the version
                  \*   cached is the one stored
    queue,        \* work queue: keys due or waiting out a (re)queue delay
    pc,           \* pc[d]: the next step of the reconcile of d, or "idle"
    local,        \* local[d]: the Deployment object that reconcile works on
    todo,         \* todo[d]: the status it is about to write
    budget        \* what is left of the alternative of Budgets chosen

vars == <<server, cache, watch, runs, runCache, banner, bannerCache,
          queue, pc, local, todo, budget>>

objectVars  == <<server, cache, watch>>
runVars     == <<runs, runCache>>
bannerVars  == <<banner, bannerCache>>
workerVars  == <<queue, pc, local, todo>>

-----------------------------------------------------------------------------
(* Objects of the API server *)

\* An incarnation of a CR: the key and the UID Kubernetes gives each creation.
\* UID 0 is nobody.
Owners == [key : Deployments, uid : Nat]

\* A version of a Deployment object; `live` is FALSE when the key is free.
Objects ==
    [live      : BOOLEAN,
     uid       : Nat,
     rv        : Nat,          \* metadata.resourceVersion, per key
     deleting  : BOOLEAN,      \* metadata.deletionTimestamp is set
     finalizer : BOOLEAN,      \* metadata.finalizers has notificationFinalizer
     ansible   : BOOLEAN,      \* spec.ansible.ansiblePlaybook # ""
     owner     : Owners,       \* controller reference
     status    : Statuses]

Nobody(d) == [key |-> d, uid |-> 0]

NoObject(d) ==
    [live |-> FALSE, uid |-> 0, rv |-> 0, deleting |-> FALSE,
     finalizer |-> FALSE, ansible |-> FALSE, owner |-> Nobody(d),
     status |-> NoStatus]

\* "new": created, no condition yet.
RunStates == {"absent", "new", "running", "succeeded", "failed"}

RunObjects == [state : RunStates, owner : Owners]

NoRunObject == [state |-> "absent", owner |-> Nobody(CHOOSE d \in Deployments : TRUE)]

\* What a ConsoleNotification shows: the CR it names and that CR's phase.
BannerSpecs == [of : Deployments, phase : Phases]

Self(d, o) == [key |-> d, uid |-> o.uid]

\* The incarnation is still stored.
Exists(own) == server[own.key].live /\ server[own.key].uid = own.uid

Steps == {"idle", "deleteNotification", "removeFinalizer", "addFinalizer",
          "notification", "credentials", "clone", "job", "tekton",
          "saveStatus", "createChild", "savePostMessage"}

Init ==
    /\ server = [d \in Deployments |-> NoObject(d)]
    /\ cache = server
    /\ watch = [d \in Deployments |-> {}]
    /\ runs = [n \in Runs |-> NoRunObject]
    /\ runCache = runs
    /\ banner = [b \in Banners |-> {}]
    /\ bannerCache = [b \in Banners |-> [spec |-> {}, current |-> TRUE]]
    /\ queue = {}
    /\ pc = [d \in Deployments |-> "idle"]
    /\ local = server
    /\ todo = [d \in Deployments |-> NoStatus]
    /\ budget \in Budgets

-----------------------------------------------------------------------------
(* Bounded environment events *)

Spend(what) ==
    /\ budget[what] > 0
    /\ budget' = [budget EXCEPT ![what] = @ - 1]

\* A call fails without effect: a transient error of the API server, of Secrets
\* Manager, of GitHub, or of the console Route lookup.
Fault == Spend("fault")

NoFault == UNCHANGED budget

-----------------------------------------------------------------------------
(* The API server *)

\* Store o as the next version of d and hand it to the watch.
Store(d, o) ==
    LET stored == [o EXCEPT !.rv = server[d].rv + 1] IN
    /\ server' = [server EXCEPT ![d] = stored]
    /\ watch' = [watch EXCEPT ![d] = @ \cup {stored}]
    /\ UNCHANGED cache

Removed(d) == [NoObject(d) EXCEPT !.uid = server[d].uid]

NewObject(d, owner) ==
    [live |-> TRUE, uid |-> server[d].uid + 1, rv |-> server[d].rv,
     deleting |-> FALSE, finalizer |-> FALSE, ansible |-> d \in Ansible,
     owner |-> owner, status |-> NoStatus]

\* Optimistic concurrency: an update carries the resourceVersion of the copy it
\* was made from and is refused (Conflict, NotFound) unless that one is stored.
CanUpdate(d) == server[d].live /\ server[d].rv = local[d].rv

\* Update or Status().Update of d with o.  One that changes nothing stores no
\* new version.
Update(d, o) ==
    /\ CanUpdate(d)
    /\ IF o = server[d] THEN UNCHANGED objectVars ELSE Store(d, o)

\* A delete request: the object stays, marked, while it has a finalizer.
RequestDelete(d) ==
    /\ server[d].live
    /\ ~server[d].deleting
    /\ Store(d, IF server[d].finalizer
                  THEN [server[d] EXCEPT !.deleting = TRUE]
                  ELSE Removed(d))

\* Write banner b (as {} to delete it); the cached version is then outdated.
PutBanner(b, spec) ==
    /\ banner' = [banner EXCEPT ![b] = spec]
    /\ bannerCache' = [bannerCache EXCEPT ![b].current = @ /\ spec = banner[b]]

\* Create run n for the reconciled incarnation of d.
CreateRun(d, n) ==
    /\ runs' = [runs EXCEPT ![n] = [state |-> "new", owner |-> Self(d, local[d])]]
    /\ UNCHANGED runCache

-----------------------------------------------------------------------------
(* Control of a reconcile *)

Goto(d, step) ==
    /\ pc' = [pc EXCEPT ![d] = step]
    /\ UNCHANGED <<queue, local, todo>>

SaveStatus(d, st) ==
    /\ pc' = [pc EXCEPT ![d] = "saveStatus"]
    /\ todo' = [todo EXCEPT ![d] = st]
    /\ UNCHANGED <<queue, local>>

\* Return.  An error is requeued with a rate limit and RequeueAfter after 30 s;
\* without time, both put the key back in the queue.
Finish(d, requeue) ==
    /\ pc' = [pc EXCEPT ![d] = "idle"]
    /\ local' = [local EXCEPT ![d] = NoObject(d)]
    /\ todo' = [todo EXCEPT ![d] = NoStatus]
    /\ queue' = IF requeue THEN queue \cup {d} ELSE queue

Busy == {d \in Deployments : pc[d] # "idle"}

\* Mutant: the banner is reconciled without registering the finalizer first.
FirstStepUnregistered(o) ==
    CASE ~o.live                 -> "idle"
      [] o.live /\ o.deleting    -> "deleteNotification"
      [] o.live /\ ~o.deleting   -> "notification"

\* Where Reconcile goes with the cached object o.
FirstStep(o) ==
    CASE ~o.live                                 -> "idle"
      [] o.live /\ o.deleting /\ o.finalizer     -> "deleteNotification"
      [] o.live /\ o.deleting /\ ~o.finalizer    -> "idle"
      [] o.live /\ ~o.deleting /\ ~o.finalizer   -> "addFinalizer"
      [] o.live /\ ~o.deleting /\ o.finalizer    -> "notification"

\* Mutant: only "Succeeded" ends a deployment.
SecondStepRetriesFailed(d, o) ==
    CASE o.status.phase # "Succeeded" -> "credentials"
      [] /\ o.status.phase = "Succeeded"
         /\ d \in DOMAIN PostDeployment
         /\ o.status.message # "postDeployment"  -> "createChild"
      [] OTHER -> "idle"

\* Mutant: only "Failed" ends a deployment.
SecondStepRepeatsSuccess(d, o) ==
    IF o.status.phase # "Failed" THEN "credentials" ELSE "idle"

\* Mutant: any outcome starts the post-deployment.
SecondStepAnyOutcome(d, o) ==
    CASE o.status.phase \notin TerminalPhases -> "credentials"
      [] /\ o.status.phase \in TerminalPhases
         /\ d \in DOMAIN PostDeployment
         /\ o.status.message # "postDeployment"  -> "createChild"
      [] OTHER -> "idle"

\* Where Reconcile goes with o once the banner has been dealt with.
SecondStep(d, o) ==
    CASE o.status.phase \notin TerminalPhases -> "credentials"
      [] /\ o.status.phase = "Succeeded"
         /\ d \in DOMAIN PostDeployment
         /\ o.status.message # "postDeployment"  -> "createChild"
      [] OTHER -> "idle"

-----------------------------------------------------------------------------
(* Reconcile: one action per step, with its failures *)

\* A worker takes d from the queue and reads it from the cache.
Reconcile(d) ==
    /\ d \in queue
    /\ pc[d] = "idle"
    /\ Cardinality(Busy) < MaxConcurrentReconciles
    /\ queue' = queue \ {d}
    /\ pc' = [pc EXCEPT ![d] = FirstStep(cache[d])]
    /\ local' = [local EXCEPT ![d] = IF FirstStep(cache[d]) = "idle"
                                       THEN NoObject(d) ELSE cache[d]]
    /\ UNCHANGED <<todo, budget, objectVars, runVars, bannerVars>>

\* Loader.Load fails: an error, so d is queued again.
LoadFails(d) ==
    /\ d \in queue
    /\ pc[d] = "idle"
    /\ Fault
    /\ UNCHANGED <<objectVars, runVars, bannerVars, workerVars>>

\* A cached Get, and a Delete only when the cache has the banner.
DeleteConsoleNotification(d) ==
    /\ pc[d] = "deleteNotification"
    /\ UNCHANGED <<objectVars, runVars>>
    /\ \/ /\ NoFault
          /\ Goto(d, "removeFinalizer")
          /\ IF bannerCache[BannerOf[d]].spec = {}
               THEN UNCHANGED bannerVars
               ELSE PutBanner(BannerOf[d], {})
       \/ /\ bannerCache[BannerOf[d]].spec # {}
          /\ Fault
          /\ Finish(d, TRUE)
          /\ UNCHANGED bannerVars

\* Mutant: a failed update is logged and dropped.
RemoveFinalizerDropsError(d) ==
    /\ pc[d] = "removeFinalizer"
    /\ UNCHANGED <<runVars, bannerVars>>
    /\ Finish(d, FALSE)
    /\ \/ CanUpdate(d) /\ NoFault /\ Store(d, Removed(d))
       \/ /\ IF CanUpdate(d) THEN Fault ELSE NoFault
          /\ UNCHANGED objectVars

\* The last finalizer goes, and with it the object.
RemoveFinalizer(d) ==
    /\ pc[d] = "removeFinalizer"
    /\ UNCHANGED <<runVars, bannerVars>>
    /\ \/ /\ CanUpdate(d)
          /\ NoFault
          /\ Store(d, Removed(d))
          /\ Finish(d, FALSE)
       \/ /\ IF CanUpdate(d) THEN Fault ELSE NoFault
          /\ Finish(d, TRUE)
          /\ UNCHANGED objectVars

AddFinalizer(d) ==
    /\ pc[d] = "addFinalizer"
    /\ UNCHANGED <<runVars, bannerVars>>
    /\ \/ /\ NoFault
          /\ Update(d, [local[d] EXCEPT !.finalizer = TRUE])
          /\ Finish(d, FALSE)
       \/ /\ IF CanUpdate(d) THEN Fault ELSE NoFault
          /\ Finish(d, TRUE)
          /\ UNCHANGED objectVars

BuildNotification(d, o) == [of |-> d, phase |-> o.status.phase]

\* Whether Create or Update of the banner of d goes through: Create needs the
\* name to be free, Update the cached version to be the stored one.
NotificationAccepted(d) ==
    LET b == BannerOf[d] IN
    IF bannerCache[b].spec = {} THEN banner[b] = {} ELSE bannerCache[b].current

\* Its errors are logged and dropped.
ReconcileConsoleNotification(d) ==
    LET b       == BannerOf[d]
        desired == {BuildNotification(d, local[d])}
    IN
    /\ pc[d] = "notification"
    /\ UNCHANGED <<objectVars, runVars>>
    /\ IF SecondStep(d, local[d]) = "idle"
         THEN Finish(d, FALSE)
         ELSE Goto(d, SecondStep(d, local[d]))
    /\ \/ /\ NoFault
          /\ IF bannerCache[b].spec # desired /\ NotificationAccepted(d)
               THEN PutBanner(b, desired)
               ELSE UNCHANGED bannerVars
       \/ /\ Fault
          /\ UNCHANGED bannerVars

\* No retry: one error fails the Deployment.
GetGitHubPAT(d) ==
    /\ pc[d] = "credentials"
    /\ UNCHANGED <<objectVars, runVars, bannerVars>>
    /\ \/ NoFault /\ Goto(d, "clone")
       \/ Fault /\ SaveStatus(d, FailedStatus(local[d].status, "CredentialError"))

Clone(d) ==
    /\ pc[d] = "clone"
    /\ UNCHANGED <<objectVars, runVars, bannerVars>>
    /\ \/ NoFault /\ Goto(d, IF local[d].ansible THEN "job" ELSE "tekton")
       \/ Fault /\ SaveStatus(d, FailedStatus(local[d].status, "CloneError"))

\* reconcileJobResources creates the Job, or returns it when it has completed,
\* or an error when it has failed; updateJobStatus then sees a completed Job, a
\* fresh one without conditions, or none.
ReconcileJobResources(d) ==
    LET job == JobOf[d] IN
    /\ pc[d] = "job"
    /\ UNCHANGED <<objectVars, bannerVars>>
    /\ \/ /\ runCache[job].state = "absent"
          /\ runs[job].state = "absent"
          /\ NoFault
          /\ CreateRun(d, job)
          /\ SaveStatus(d, LaunchedStatus(local[d].status, job))
       \/ /\ runCache[job].state = "absent"
          /\ IF runs[job].state = "absent" THEN Fault ELSE NoFault
          /\ Finish(d, TRUE)
          /\ UNCHANGED runVars
       \/ /\ runCache[job].state = "succeeded"
          /\ NoFault
          /\ SaveStatus(d, ConditionStatus(local[d].status, "True", ""))
          /\ UNCHANGED runVars
       \/ /\ runCache[job].state \in {"failed", "new", "running"}
          /\ NoFault
          /\ Finish(d, TRUE)
          /\ UNCHANGED runVars

\* Mutant: the kind is not looked at.
CachedRunOfAnyKind(n) == IF n = NoRun THEN "absent" ELSE runCache[n].state

\* The PipelineRun of that name in the cache.  Job names are another kind.
CachedPipelineRun(n) ==
    IF \E d \in Deployments : n \in PipelineRunsOf(d) THEN runCache[n].state
                                                      ELSE "absent"

\* reconcileTektonResources tracks the PipelineRun that the status names:
\* NotFound is an error, no condition yet is nothing to report.  The category of
\* a failure is lost when the diagnostics collector has no clientset.
TrackPipelineRun(d) ==
    LET state == CachedPipelineRun(local[d].status.run) IN
    /\ pc[d] = "tekton"
    /\ local[d].status.run # NoRun
    /\ UNCHANGED <<objectVars, runVars, bannerVars>>
    /\ \/ /\ state \in {"absent", "new"}
          /\ NoFault
          /\ Finish(d, TRUE)
       \/ /\ state \notin {"absent", "new"}
          /\ NoFault
          /\ SaveStatus(d, ConditionStatus(local[d].status, ConditionOf(state),
                                           "StepFailed"))
       \/ /\ state = "failed"
          /\ Fault
          /\ SaveStatus(d, ConditionStatus(local[d].status, "False", ""))

\* Mutant: AlreadyExists is an error like any other.
LaunchPipelineRunRefusesExisting(d) ==
    /\ pc[d] = "tekton"
    /\ local[d].status.run = NoRun
    /\ UNCHANGED <<objectVars, bannerVars>>
    /\ \/ /\ d \notin BrokenRepos
          /\ NoFault
          /\ \E run \in PipelineRunsOf(d) :
                /\ runs[run].state = "absent"
                /\ CreateRun(d, run)
                /\ SaveStatus(d, LaunchedStatus(local[d].status, run))
       \/ /\ \/ d \in BrokenRepos
             \/ \A run \in PipelineRunsOf(d) : runs[run].state # "absent"
          /\ NoFault
          /\ Finish(d, TRUE)
          /\ UNCHANGED runVars

\* Launching: the PipelineRun gets the name in the file, or a generated one that
\* is free, and that name is recorded.  AlreadyExists is not an error, whoever
\* owns the PipelineRun; what is recorded then is the name in the file, or nothing
\* when a pool of generated names, which is a bound of the instance, is used up.
LaunchPipelineRun(d) ==
    /\ pc[d] = "tekton"
    /\ local[d].status.run = NoRun
    /\ UNCHANGED <<objectVars, bannerVars>>
    /\ \/ /\ d \notin BrokenRepos
          /\ NoFault
          /\ \E run \in PipelineRunsOf(d) :
                /\ runs[run].state = "absent"
                /\ CreateRun(d, run)
                /\ SaveStatus(d, LaunchedStatus(local[d].status, run))
       \/ /\ d \notin BrokenRepos
          /\ NoFault
          /\ \A run \in PipelineRunsOf(d) : runs[run].state # "absent"
          /\ SaveStatus(d, LaunchedStatus(local[d].status, PipelineRunOf[d]))
          /\ UNCHANGED runVars
       \/ /\ IF d \in BrokenRepos THEN NoFault ELSE Fault
          /\ Finish(d, TRUE)
          /\ UNCHANGED runVars

\* Mutant: RequeueAfter is forgotten.
WriteStatusNoRequeue(d) ==
    /\ pc[d] = "saveStatus"
    /\ UNCHANGED <<runVars, bannerVars>>
    /\ Finish(d, FALSE)
    /\ \/ /\ NoFault
          /\ Update(d, [local[d] EXCEPT !.status = todo[d]])
       \/ /\ IF CanUpdate(d) THEN Fault ELSE NoFault
          /\ UNCHANGED objectVars

\* The Status().Update that ends an active reconcile.  Whether or not it goes
\* through, d is looked at again.
WriteStatus(d) ==
    /\ pc[d] = "saveStatus"
    /\ UNCHANGED <<runVars, bannerVars>>
    /\ Finish(d, TRUE)
    /\ \/ /\ NoFault
          /\ Update(d, [local[d] EXCEPT !.status = todo[d]])
       \/ /\ IF CanUpdate(d) THEN Fault ELSE NoFault
          /\ UNCHANGED objectVars

\* Mutant: no controller reference.
CreateChildUnowned(d) ==
    LET child == PostDeployment[d] IN
    /\ pc[d] = "createChild"
    /\ UNCHANGED <<runVars, bannerVars>>
    /\ \/ /\ ~server[child].live
          /\ NoFault
          /\ Store(child, NewObject(child, Nobody(d)))
          /\ Goto(d, "savePostMessage")
       \/ /\ IF server[child].live THEN NoFault ELSE Fault
          /\ Finish(d, TRUE)
          /\ UNCHANGED objectVars

\* Mutant: an error is logged and dropped.
CreateChildDropsError(d) ==
    LET child == PostDeployment[d] IN
    /\ pc[d] = "createChild"
    /\ UNCHANGED <<runVars, bannerVars>>
    /\ \/ /\ ~server[child].live
          /\ NoFault
          /\ Store(child, NewObject(child, Self(d, local[d])))
          /\ Goto(d, "savePostMessage")
       \/ /\ IF server[child].live THEN NoFault ELSE Fault
          /\ Finish(d, FALSE)
          /\ UNCHANGED objectVars

\* AlreadyExists is an error here.
CreateChild(d) ==
    LET child == PostDeployment[d] IN
    /\ pc[d] = "createChild"
    /\ UNCHANGED <<runVars, bannerVars>>
    /\ \/ /\ ~server[child].live
          /\ NoFault
          /\ Store(child, NewObject(child, Self(d, local[d])))
          /\ Goto(d, "savePostMessage")
       \/ /\ IF server[child].live THEN NoFault ELSE Fault
          /\ Finish(d, TRUE)
          /\ UNCHANGED objectVars

\* Its error is logged and dropped: nothing is queued.
SavePostMessage(d) ==
    /\ pc[d] = "savePostMessage"
    /\ UNCHANGED <<runVars, bannerVars>>
    /\ Finish(d, FALSE)
    /\ \/ /\ NoFault
          /\ Update(d, [local[d] EXCEPT
                          !.status = PostDeploymentStatus(local[d].status)])
       \/ /\ IF CanUpdate(d) THEN Fault ELSE NoFault
          /\ UNCHANGED objectVars

ReconcileStep(d) ==
    \/ Reconcile(d)
    \/ DeleteConsoleNotification(d) \/ RemoveFinalizer(d) \/ AddFinalizer(d)
    \/ ReconcileConsoleNotification(d)
    \/ GetGitHubPAT(d) \/ Clone(d)
    \/ ReconcileJobResources(d) \/ TrackPipelineRun(d) \/ LaunchPipelineRun(d)
    \/ WriteStatus(d)
    \/ CreateChild(d) \/ SavePostMessage(d)

-----------------------------------------------------------------------------
(* The cluster around the operator *)

\* The watch delivers the next version of d, and its handler queues d.
DeliverEvent(d) ==
    \E v \in watch[d] :
        /\ \A w \in watch[d] : v.rv <= w.rv
        /\ cache' = [cache EXCEPT ![d] = v]
        /\ watch' = [watch EXCEPT ![d] = @ \ {v}]
        /\ queue' = queue \cup {d}
        /\ UNCHANGED <<server, pc, local, todo, runVars, bannerVars, budget>>

\* The informer's periodic resync queues what the cache has.
Resync(d) ==
    /\ cache[d].live
    /\ d \notin queue
    /\ Spend("resync")
    /\ queue' = queue \cup {d}
    /\ UNCHANGED <<pc, local, todo, objectVars, runVars, bannerVars>>

SyncRun(n) ==
    /\ runCache[n] # runs[n]
    /\ runCache' = [runCache EXCEPT ![n] = runs[n]]
    /\ UNCHANGED <<runs, objectVars, bannerVars, workerVars, budget>>

SyncBanner(b) ==
    /\ ~bannerCache[b].current
    /\ bannerCache' = [bannerCache EXCEPT ![b] =
                            [spec |-> banner[b], current |-> TRUE]]
    /\ UNCHANGED <<banner, objectVars, runVars, workerVars, budget>>

\* Users may also take the name of a child.
UserCreate(d) ==
    /\ ~server[d].live
    /\ Spend("create")
    /\ Store(d, NewObject(d, Nobody(d)))
    /\ UNCHANGED <<runVars, bannerVars, workerVars>>

UserDelete(d) ==
    /\ Spend("delete")
    /\ RequestDelete(d)
    /\ UNCHANGED <<runVars, bannerVars, workerVars>>

\* spec.ansible is not immutable.
UserEdit(d) ==
    /\ server[d].live
    /\ Spend("edit")
    /\ Store(d, [server[d] EXCEPT !.ansible = ~@])
    /\ UNCHANGED <<runVars, bannerVars, workerVars>>

\* Tekton or the Job controller moves a run.
RunProgress(n) ==
    /\ \E s \in RunStates :
          /\ \/ runs[n].state = "new"     /\ s = "running"
             \/ runs[n].state = "running" /\ s \in {"succeeded", "failed"}
          /\ runs' = [runs EXCEPT ![n].state = s]
    /\ UNCHANGED <<runCache, objectVars, bannerVars, workerVars, budget>>

\* Garbage collection of a run, and of a child CR, whose owner is gone.
CollectRun(n) ==
    /\ runs[n].state # "absent"
    /\ ~Exists(runs[n].owner)
    /\ runs' = [runs EXCEPT ![n] = NoRunObject]
    /\ UNCHANGED <<runCache, objectVars, bannerVars, workerVars, budget>>

CollectChild(d) ==
    /\ server[d].owner.uid # 0
    /\ ~Exists(server[d].owner)
    /\ RequestDelete(d)
    /\ UNCHANGED <<runVars, bannerVars, workerVars, budget>>

\* The manager process dies at any point and starts again: reconciles are lost,
\* the caches are filled by a list, and every listed CR is queued.
Restart ==
    /\ Spend("restart")
    /\ cache' = server
    /\ watch' = [d \in Deployments |-> {}]
    /\ runCache' = runs
    /\ bannerCache' = [b \in Banners |-> [spec |-> banner[b], current |-> TRUE]]
    /\ queue' = {d \in Deployments : server[d].live}
    /\ pc' = [d \in Deployments |-> "idle"]
    /\ local' = [d \in Deployments |-> NoObject(d)]
    /\ todo' = [d \in Deployments |-> NoStatus]
    /\ UNCHANGED <<server, runs, banner>>

ClusterStep ==
    \/ \E d \in Deployments :
          \/ DeliverEvent(d) \/ Resync(d)
          \/ UserCreate(d) \/ UserDelete(d) \/ UserEdit(d)
          \/ CollectChild(d)
          \/ LoadFails(d)
    \/ \E n \in Runs : SyncRun(n) \/ RunProgress(n) \/ CollectRun(n)
    \/ \E b \in Banners : SyncBanner(b)
    \/ Restart

Next ==
    \/ \E d \in Deployments : ReconcileStep(d)
    \/ ClusterStep

Spec == Init /\ [][Next]_vars

\* Workers, the watches and the garbage collector keep going: controller-runtime
\* never stops handing out queued keys, requeue delays end, watches deliver.
\* Nothing is assumed of users, of the runs or of faults and restarts.
Fairness ==
    /\ \A d \in Deployments : WF_vars(ReconcileStep(d))
    /\ WF_vars(\E d \in Deployments : DeliverEvent(d))
    /\ WF_vars(\E n \in Runs : SyncRun(n))
    /\ WF_vars(\E b \in Banners : SyncBanner(b))
    /\ WF_vars(\/ \E d \in Deployments : CollectChild(d)
               \/ \E n \in Runs : CollectRun(n))

FairSpec == Spec /\ Fairness

-----------------------------------------------------------------------------
(* Invariants *)

\* Every variable keeps the type of the API object or controller structure it
\* stands for.
TypeOK ==
    /\ server \in [Deployments -> Objects]
    /\ cache \in [Deployments -> Objects]
    /\ watch \in [Deployments -> SUBSET Objects]
    /\ runs \in [Runs -> RunObjects]
    /\ runCache \in [Runs -> RunObjects]
    /\ banner \in [Banners -> SUBSET BannerSpecs]
    /\ bannerCache \in [Banners -> [spec : SUBSET BannerSpecs, current : BOOLEAN]]
    /\ queue \subseteq Deployments
    /\ pc \in [Deployments -> Steps]
    /\ local \in [Deployments -> Objects]
    /\ todo \in [Deployments -> Statuses]
    /\ budget \in [BudgetItems -> Nat]

\* The cache trails the server, and the watch holds what is between the two up
\* to the version stored now.
CacheTrails(d) ==
    /\ cache[d].rv <= server[d].rv
    /\ cache[d].rv = server[d].rv => cache[d] = server[d]
    /\ cache[d] = server[d] \/ server[d] \in watch[d]
    /\ \A v \in watch[d] :
          /\ cache[d].rv < v.rv /\ v.rv <= server[d].rv
          /\ v.rv = server[d].rv => v = server[d]
          /\ \A w \in watch[d] : v.rv = w.rv => v = w

\* So does the copy a reconcile works on trail the cache.
CopyTrails(d) ==
    pc[d] # "idle" =>
        /\ local[d].rv <= cache[d].rv
        /\ local[d].rv = cache[d].rv => local[d] = cache[d]

\* Reading through the cache and writing with a resourceVersion is sound: no
\* event is lost, and a copy with the stored version's number is that version,
\* so an Update that is accepted overwrites nothing Reconcile has not read.
VersionsAgree == \A d \in Deployments : CacheTrails(d) /\ CopyTrails(d)

\* The versions of d that the operator can still act on.
Seen(d) ==
    {cache[d]} \cup watch[d] \cup (IF pc[d] = "idle" THEN {} ELSE {local[d]})

\* However stale the caches, a version that Reconcile would still create a
\* banner for (finalizer registered, not being deleted) belongs to the
\* incarnation stored now, which still has the finalizer.
FinalizerHolds ==
    \A d \in Deployments : \A v \in Seen(d) :
        v.live /\ v.finalizer /\ ~v.deleting =>
            server[d].live /\ server[d].finalizer /\ server[d].uid = v.uid

\* Reconcile has nothing left to do for o but keep its banner up to date.
Settled(o) ==
    ~o.live \/ (o.finalizer /\ ~o.deleting /\ o.status.phase \in TerminalPhases)

\* No lost wake-up: a Deployment that is new, in flight or being deleted is in
\* the work queue, in the hands of a worker, or about to be queued by an event,
\* although the early returns of Reconcile requeue nothing.
NoLostWakeup ==
    \A d \in Deployments :
        \/ Settled(server[d])
        \/ d \in queue \/ pc[d] # "idle" \/ watch[d] # {}

-----------------------------------------------------------------------------
(* What makes those invariants inductive *)

\* An object that is being deleted is one whose finalizer is still there.
DeletingIsHeld ==
    \A d \in Deployments : \A v \in Seen(d) \cup {server[d]} :
        v.live /\ v.deleting => v.finalizer

\* At each step, what the reconcile has learnt from the copy it works on.
StepKnows(d) ==
    LET o == local[d] IN
    /\ pc[d] # "idle" => o.live
    /\ pc[d] \in {"deleteNotification", "removeFinalizer"} => o.deleting
    /\ pc[d] = "addFinalizer" => ~o.deleting /\ ~o.finalizer
    /\ pc[d] \notin {"idle", "deleteNotification", "removeFinalizer", "addFinalizer"}
          => ~o.deleting /\ o.finalizer
    /\ pc[d] \in {"credentials", "clone", "job", "tekton", "saveStatus"}
          => o.status.phase \notin TerminalPhases
    /\ pc[d] \in {"createChild", "savePostMessage"}
          => o.status.phase = "Succeeded" /\ d \in DOMAIN PostDeployment
    /\ pc[d] = "saveStatus"
          => todo[d].phase \in {o.status.phase, "Running"} \cup TerminalPhases

\* An event that arrives during a reconcile queues the key again, and the last
\* reconcile of a key that is not queued left nothing to do.
Awake(d) ==
    d \notin queue =>
        /\ pc[d] # "idle" => local[d] = cache[d]
        /\ pc[d] = "idle" /\ watch[d] = {} => Settled(cache[d])

\* The inductive invariant.
IInv ==
    /\ TypeOK
    /\ VersionsAgree
    /\ FinalizerHolds
    /\ DeletingIsHeld
    /\ \A d \in Deployments : StepKnows(d) /\ Awake(d)

-----------------------------------------------------------------------------
(* Invariants of the outcome *)

\* failureCategory is "only populated when Phase is Failed", although a
\* condition Unknown leaves the category in place.
CategoryOnlyWhenFailed ==
    \A d \in Deployments :
        server[d].status.category # "" => server[d].status.phase = "Failed"

\* A post-deployment CR exists only for a parent incarnation that has reported
\* success, if that one still exists.
ChildOnlyAfterSuccess ==
    \A d \in Deployments :
        LET own == server[d].owner IN
        server[d].live /\ own.uid # 0 /\ Exists(own) =>
            server[own.key].status.phase = "Succeeded"

\* The keys whose PipelineRun may have the name of one of d.
Namesakes(d) ==
    {e \in Deployments : e = d \/ PipelineRunsOf(e) \cap PipelineRunsOf(d) # {}}

\* No incarnation of the key has ended.
FirstLife(d) == server[d].uid = IF server[d].live THEN 1 ELSE 0

\* The run n of d, or of a namesake that still exists, has ended so.
Ended(d, n, state) ==
    /\ runs[n].state = state
    /\ runs[n].owner.key \in Namesakes(d) /\ Exists(runs[n].owner)

\* The outcome st is that of such a run: the PipelineRun that st names or, for
\* success, the Job.  The other two categories are those of applyFailedStatus.
Backed(d, st) ==
    /\ st.phase = "Succeeded" =>
          \E n \in {JobOf[d]} \cup (PipelineRunsOf(d) \cap {st.run}) :
              Ended(d, n, "succeeded")
    /\ st.phase = "Failed" /\ st.category \notin {"CredentialError", "CloneError"} =>
          st.run \in PipelineRunsOf(d) /\ Ended(d, st.run, "failed")

\* A reported outcome is backed by a run that is still there, although the run is
\* found by name, in a cache, and may have been adopted.  (While no key of that
\* PipelineRun name was ever re-created: a later incarnation may adopt a run of an
\* earlier one that is not yet collected.)
OutcomeIsOwn ==
    \A d \in Deployments :
        server[d].live /\ (\A e \in Namesakes(d) : FirstLife(e)) =>
            Backed(d, server[d].status)

-----------------------------------------------------------------------------
(* Action properties and refinement *)

\* ReconcileConsoleNotification writes a banner only while the CR it names is
\* stored with the finalizer that will clean it up.
BannerNeedsFinalizer ==
    [][\A b \in Banners : \A spec \in banner'[b] \ banner[b] :
            server[spec.of].live /\ server[spec.of].finalizer]_vars

\* An incarnation that has reported success starts no further PipelineRun, however
\* old the version that a later reconcile reads, and whatever engine an edit has
\* chosen; nor does the first incarnation start a further Job.  (A later one does
\* when the Job whose success it reported was one of an earlier incarnation.)
NoRunAfterSuccess ==
    [][\A n \in Runs :
          LET own == runs'[n].owner IN
          /\ runs[n].state = "absent" /\ runs'[n].state = "new"
          /\ Exists(own)
          /\ own.uid = 1 \/ n # JobOf[own.key]
          => server[own.key].status.phase # "Succeeded"]_vars

Lifecycle == INSTANCE DeploymentLifecycle WITH
    life    <- [d \in Deployments |-> IF server[d].live THEN server[d].status.phase
                                                        ELSE "none"],
    leaving <- [d \in Deployments |-> server[d].live /\ server[d].deleting]

\* The controller implements the life cycle users see: phases go forward, an
\* outcome is final, and a CR whose deletion was requested reports nothing more.
ImplementsLifecycle == Lifecycle!Spec

-----------------------------------------------------------------------------
(* Liveness, under FairSpec *)

\* The finalizer never blocks a deletion for good.
DeletionCompletes ==
    \A d \in Deployments :
        server[d].live /\ server[d].deleting ~> ~server[d].live

\* The PipelineRun that the status names is there, unless the CR fails, is deleted
\* or uses Ansible.
RunIsThere(d) ==
    \/ ~server[d].live \/ server[d].deleting
    \/ server[d].status.phase \in TerminalPhases
    \/ server[d].ansible
    \/ \E n \in PipelineRunsOf(d) :
          server[d].status.run = n /\ runs[n].state # "absent"

\* A new Deployment whose repository is sound gets a run of the name it records,
\* although the creation may be done and its answer, or the status write that
\* records it, lost: the next reconcile adopts the run, or launches again.  (A
\* later incarnation, or one that shares the name, may record a run that is about
\* to be collected.)
RunIsRecorded ==
    \A d \in Deployments \ BrokenRepos :
        /\ server[d].live /\ server[d].status.phase = ""
        /\ FirstLife(d) /\ Namesakes(d) = {d}
        ~> RunIsThere(d)

\* The end of a recorded PipelineRun of its own is reported, unless the CR is
\* deleted or edited to use Ansible.
OutcomeIsReported ==
    \A d \in Deployments \ BrokenRepos :
        /\ server[d].live /\ ~server[d].ansible
        /\ \E n \in PipelineRunsOf(d) :
              /\ server[d].status.run = n
              /\ runs[n].state \in {"succeeded", "failed"}
              /\ runs[n].owner = Self(d, server[d])
        ~> \/ ~server[d].live \/ server[d].deleting \/ server[d].ansible
           \/ server[d].status.phase \in TerminalPhases

\* Success of a Deployment with spec.postDeployment leads to its child CR, which
\* users may then delete.
PostDeploymentStarts ==
    \A d \in DOMAIN PostDeployment :
        server[d].live /\ server[d].status.phase = "Succeeded" ~>
            \/ ~server[d].live \/ server[d].deleting
            \/ server[PostDeployment[d]].uid # 0

\* A child CR that the operator has created does not outlive the incarnation it
\* was created for, thanks to the controller reference: also when the parent is
\* deleted meanwhile, and the child in flight.  (Stated of first incarnations: users
\* may create a later CR of either name, which follows nobody.)
ChildFollowsParent ==
    \A d \in DOMAIN PostDeployment :
        LET child == server[PostDeployment[d]]
            Created == /\ pc[d] = "savePostMessage"
                       /\ local[d].uid = 1 /\ child.uid = 1
            Orphaned == /\ child.live /\ child.uid = 1
                        /\ ~(server[d].live /\ server[d].uid = 1)
        IN <>Created => <>[](~Orphaned)

-----------------------------------------------------------------------------
(* What the documentation says and the code does not do *)

\* "never re-runs a completed deployment": no run is started for a Deployment
\* that has reported its outcome.
NoRunAfterOutcome ==
    [][\A n \in Runs :
            runs[n].state = "absent" /\ runs'[n].state = "new" =>
                server[runs'[n].owner.key].status.phase \notin TerminalPhases]_vars

\* "If we already launched a PipelineRun, just track it": no incarnation starts a
\* second one beside it.  (Not so under generated names, when the status write that
\* records the first is lost or not yet read.)
NoSecondRun ==
    [][\A n \in Runs : \A m \in Runs \ {n} :
          LET own == runs'[n].owner IN
          /\ runs[n].state = "absent" /\ runs'[n].state = "new"
          /\ {m, n} \subseteq PipelineRunsOf(own.key)
          /\ runs[m].state # "absent"
          => runs[m].owner # own]_vars

\* "Creates Tekton Pipeline + PipelineRun": so it does for a CR that is created
\* again.  (Not so when it has adopted the run of the earlier incarnation, which is
\* then collected: the recorded name is looked up in vain on every reconcile.)
EveryLifeGetsARun ==
    \A d \in Deployments \ BrokenRepos :
        server[d].live /\ server[d].status.phase = "" ~> RunIsThere(d)

\* "resilient to transient Secrets Manager failures": a Deployment whose run
\* succeeds is not reported as failed on credentials.
SurvivesCredentialFault ==
    \A d \in Deployments :
        LET st == server[d].status IN
        st.run # NoRun /\ runs[st.run].state = "succeeded" =>
            st.category # "CredentialError"

\* "clean up the ConsoleNotification before allowing Kubernetes to delete the
\* CR", and "conflict updating ConsoleNotification, requeueing": when the operator
\* has come to rest, there is no banner of a CR that is gone, and a banner that
\* Update has reached (it no longer shows a CR that is starting) shows the phase.
BannerFollowsCR ==
    \A d \in Deployments :
        /\ d \notin queue /\ pc[d] = "idle" /\ watch[d] = {}
        /\ bannerCache[BannerOf[d]].current
        => \A spec \in banner[BannerOf[d]] :
              /\ server[spec.of].live
              /\ spec.phase # "" => spec = BuildNotification(d, server[d])

\* JobFailed "indicates a Kubernetes Job (Ansible runner) failed": the failure of
\* a recorded Job is reported, unless the CR is deleted.
JobFailureIsReported ==
    \A d \in Deployments :
        /\ server[d].live
        /\ server[d].status.run = JobOf[d]
        /\ runs[JobOf[d]].state = "failed"
        ~> \/ ~server[d].live \/ server[d].deleting
           \/ server[d].status.phase = "Failed"

=============================================================================
