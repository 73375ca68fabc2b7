# Verification of itz-deployer-operator

TLA+ models of the operator's controllers and of its start-up, the TLC
configurations that check them, and TLAPS proofs about them. Paths are relative
to the repository, which is referred to as `src/`.

## The system

The operator turns a `Deployment` custom resource (repository, release, engine)
into a Tekton PipelineRun or an Ansible Job, follows it, reports the outcome in
the CR's status and in an OpenShift console banner, and may chain a
post-deployment CR. A second controller measures how much of the cluster is
requested. Before either runs, the process prepares the cluster.

| Part | State it keeps | Operations | Talks to |
|---|---|---|---|
| Deployment controller, `internal/controller/deployment_controller.go` | none of its own: CR metadata and status on the API server, an informer cache, a work queue | `Reconcile`: finalizer, banner, credentials, clone, Job or PipelineRun, status, child CR | API server (through a cache), Secrets Manager, GitHub |
| Deployment status, `api/v1alpha1/deployment_types.go` | phase, message, run name, category, diagnostics, conditions | `applyFailedStatus`, `applyCondition`, recording a run, recording the child | written by the controller |
| Console notifications, same file | one cluster-scoped `ConsoleNotification` per CR name | create, update, delete | console; errors never reach the CR |
| Capacity controller, `internal/controller/capacity_controller.go` | peak ConfigMap, four gauges | poll: list nodes, list pods, load peak, save peak | API server (lists uncached, ConfigMap cached) |
| Pre-manager setup, `cmd/main.go`, `pkg/rbac`, `pkg/tasks`, `pkg/ibm`, `pkg/config` | role binding, Secret, service account, task objects | bind, fetch token, create Secret, mount, apply tasks, wait for the lease | API server (uncached), Secrets Manager, GitHub |
| Failure diagnostics, `internal/controller/deployment_diagnostics.go` | entries in the status | walk TaskRuns and steps, or the Job's pods | called by `applyCondition`; TaskRuns through a cache |
| Validating webhook, `api/v1alpha1/deployment_webhook.go` | none | validate create and update | the API server asks it about users' and the controller's writes |
| ArgoCD bootstrap, `pkg/argocd` | ArgoCD CR, repository Secret, Application | install, wait, reinstall | API server, Secrets Manager; its call (`cmd/main.go:261`) is commented out |

What is hard in it:

- `Reconcile` reads its CR from an informer cache and writes many calls later.
  Meanwhile users edit, delete and re-create the CR, runs end, the garbage
  collector works, and the process may die between any two calls.
- Progress after an early return depends on an event or a requeue that some
  other line must have produced. Runs and banners are not watched.
- Some errors are returned (and retried), some logged and dropped, some turned
  into the final phase `Failed`; which is which is spread over the file.
- Several objects are found by name only, in caches of different age.
- Start-up is not behind the leader lease: pods of a rollout overlap.
- The outcome of a run and its explanation come from three caches of different
  age, and what was collected is lost when the status update is refused.
- The webhook judges the controller's own updates like anybody's.
- The waits of the ArgoCD installation choose among timers that may all be ready.

What makes each part correct: for the controller, that it never overwrites what
it has not read, never forgets a CR, never leaves a CR stuck in deletion, and
shows a life cycle that only goes forward; for banners, that each belongs to a
CR that will clean it up and shows its phase; for a chain, that the child comes
after success and goes with its parent; for capacity, that the peak is a
durable high watermark and measuring never stops; for start-up, that whoever
serves finds the cluster prepared, exactly once; for diagnostics, that what is
stored did happen, is told once, is complete when nothing went wrong, and never
keeps the failure itself from being reported; for admission, that what was
accepted stays acceptable and nobody is locked out; for ArgoCD, that what is
installed can work and that installing ends. `PROJECT.json` lists the
hazards line by line, with the property that would catch each or the reason
there is none.

## The modules

| Module | Models |
|---|---|
| `DeploymentStatus` | the status subresource and its rewrites, as operators |
| `DeploymentController` | the controller and the cluster around it |
| `DeploymentLifecycle` | abstract specification: the life cycle a user sees |
| `Capacity` | the capacity controller, with its pure formulas as operators |
| `Bootstrap` | overlapping processes before and at leader election |
| `Diagnostics` | the failure of a PipelineRun on its way into the status; extends `DeploymentStatus` |
| `Admission` | the webhook's rules, and the writes of users and controller that pass through them |
| `ArgoCD` | the installation of ArgoCD and its Application |
| `MC...` | instances for TLC |
| `..._proofs` | theorems and their proofs |

### DeploymentController

State. `server[d]` is the CR stored under a key, with UID, resourceVersion,
deletion mark, finalizer, engine, owner and status; `cache[d]` and `watch[d]`
are the informer cache and the versions it has still to receive. `runs` and
`banner` are Jobs, PipelineRuns and ConsoleNotifications, with caches of their
own. A repository gives its PipelineRun a fixed name (`PipelineRunOf`) or lets the
API server generate one (`GeneratedNames`, a pool of names; `README.md:81` shows
such a name). Users may take any key, also the name of a child. `queue` is the
work queue. `pc[d]`, `local[d]`, `todo[d]` are the call a
reconcile is at, the object it works on and the status it is about to write.

A reconcile is one action per call that touches shared state:

| Action | Code |
|---|---|
| `Reconcile`, `LoadFails` | load configuration, cached read, dispatch (`FirstStep`, `SecondStep`) |
| `DeleteConsoleNotification`, `RemoveFinalizer`, `AddFinalizer` | finalizer handling |
| `ReconcileConsoleNotification` | the banner, errors dropped |
| `GetGitHubPAT`, `Clone` | credentials and repository, an error is final |
| `ReconcileJobResources` | Ansible: `reconcileJobResources` and `updateJobStatus` |
| `LaunchPipelineRun`, `TrackPipelineRun` | Tekton: `reconcileTektonResources` and `updatePipelineRunStatus` |
| `WriteStatus` | the `Status().Update` that ends an active reconcile |
| `CreateChild`, `SavePostMessage` | `reconcilePostDeployment` |

Two simplifications deserve a word. A requeue delay, whether a rate limit or 30
seconds, is membership in `queue`: without a clock, later means at any time. Since
`queue` is a set, a delayed requeue merges with an event that enqueues the same key
at once, where the code usually reconciles twice. No property of a passing run gets
easier by it, as there are only fewer reconciles to make up for what one missed; but
the second counterexample of `Banners` looks more lasting than it is (see below).
And a call that fails takes effect or not as a whole; one that took effect
although its answer was lost is covered by the restart that may follow it.

The API server, the watch, users, Tekton, the Job controller, the garbage
collector and the end of the process are actions too. They are external: only
what the code relies on is modelled. An `Update` succeeds only with the stored
resourceVersion; one that changes nothing stores no version; a delete marks an
object that has a finalizer and removes one that has none.

### Capacity

Ratios are fractions compared by cross-multiplication. JSON reproduces a float
exactly, so the ConfigMap holds what was written. `cmCache` and `cmWatch` are
the informer cache; `loadPeak` and `savePeak` are separate actions because both
read it. Nodes and pods may change between the two lists. `readLatest` and
`highest` are history variables for the properties.

### Bootstrap

Each process is a program counter through `main`. `Retry` leaves open how long
`backoff.Retry` goes on: it tries again or gives up, and giving up ends the
process. `config` says whether the operator's ConfigMap is there with all its keys:
while it is not, `LoadFromConfigMap` fails and the process exits and comes back,
until an administrator has repaired it (`EditConfig`). `mounts` counts how often the service account lists the Secret; it
also stands for the account's resourceVersion, since nothing else changes the
account in this model. The role binding's update names no resourceVersion and
is not refused.

### Diagnostics

A reconcile reads Deployment, PipelineRun and then one TaskRun after the other,
each from the informer cache of its kind, and every cache moves between two reads.
`at` and `step` are the loop variables of `collectTektonDiagnostics`, `obj` is the
copy it appends to. An entry is its component, child and step; texts, log tails
and hints decide nothing. Tekton is external: children are created in order, some
are CustomRuns, a TaskRun may fail without a failed step and succeed with one, and
a PipelineRun ends after its TaskRuns. `smooth` picks, at the start, the behaviours
in which no call fails and the PipelineRun cache is not ahead of the TaskRun cache:
only there can diagnostics be complete.

### Admission

A field of the spec is a sequence of characters, because the rules are about
characters: blanks, a few forbidden ones, prefixes, `..`, `@{`, and `.lock`
(`"lock"` is one character). Where the webhook trims, `Blank` does; where the
controller does not, `WantsChild` does not. The webhook may be registered before or
after a CR is stored; `vetted` remembers whether it has accepted a version. A
refused request is no step. The controller's finalizer updates and its creation of
the child are requests like any other; status updates bypass the webhook
(`config/webhook/manifests.yaml` names the resource, not its status). Creating the
child and saving the message that says so are two steps: `saving` is the version the
message was computed from, and the update is refused when that is no longer stored.
A user may create a CR under the child's name; the child is then left as it is.

### ArgoCD

`Run` as one action per call and one per case of its two selects. A ticker holds
one value and a timeout one; they become ready at any time, so any combination may
be ready at a select. `first` tells the two callers of `createApplication` apart: an
error ends the one and is logged by the other. Calls with the process's context
fail once it is cancelled; `argoDeployment` uses `context.Background()` and does not
notice. One process at a time is modelled: what the delete ticker of an overlapping
pod does to an Application another one waits for is not, nor does a property say that
a healthy Application is kept (the ticker removes it whether healthy or not).

## Runs

Passing:

| Run | Instance | States | Shows |
|---|---|---|---|
| `Lifecycle` | one CR; two incarnations, a fault and a restart, or a fault and two engine edits, or an engine edit and a resync | 2.8 M | `IInv`, `NoLostWakeup`, `CategoryOnlyWhenFailed`, `OutcomeIsOwn`, `BannerNeedsFinalizer`, `NoRunAfterSuccess`, refinement of `DeploymentLifecycle` |
| `Chain` | parent and child, a fault or a restart, fairness | 128 k | `ChildOnlyAfterSuccess`, `PostDeploymentStarts`, `ChildFollowsParent`, `DeletionCompletes`, `RunIsRecorded`, `OutcomeIsReported` |
| `Capacity` | worker, master, two pods, one fault, restart and manual edit, fairness | 408 k | `TypeOK`, `IInv`, `PublishedIsDurable`, `FallsOnlyWhenStale`, `LastingLoadIsRecorded` |
| `Bootstrap` | two processes, two task files, two faults, one crash, one rotation, one spoilt edit of the ConfigMap, fairness | 307 k | `IInv`, `MountedOnce`, `ServesPrepared`, `EventuallyServes` |
| `Diagnostics` | three children, the second a CustomRun, one step each; a fault, a foreign write or a restart, fairness | 462 k | `IInv`, `EntriesAreReal`, `ReportedOnce`, `Explained`, `ReportIsFinal`, `FailureIsStored` |
| `Admission` | parent and child, ten specs, three accepted requests of users, fairness | 613 k | `IInv`, `StoredIsValid`, `SourceAgrees`, `ChildAccepted`, `OwnUpdatesAccepted`, `OwnUpdatesGetThrough`, `ChildIsCreated` |
| `ArgoCD` | the whole module: it has no bounds | 2 k | `IInv`, `AppIsServed`, `RunEnds` |

Bounds. One CR is enough for what concerns one key, since keys share nothing but
the workers when names differ; two incarnations are what it takes for versions of
an old one to be read as the new one. One fault separates every single failing
call from the sequence around it, and a restart may follow it. `Budgets` is a set
of alternatives: a behaviour draws one, so that kinds of disturbance are combined
where they interact and not everywhere. Two edits turn the engine to Ansible and
back, so that a status names the Job while the PipelineRun is looked for.
`OutcomeIsOwn` is stated while no CR of the PipelineRun name in question was
re-created: a re-created CR adopts a run that garbage collection has not removed
(`LaunchPipelineRun`; see the hazard at `deployment_controller.go:472`), and that
run may then disappear. For the same reason `NoRunAfterSuccess` leaves the Job of
a later incarnation out. In `Chain` the child's repository has no readable
pipeline, so that it is retried for ever next to its parent, and must still be
deletable. It has fewer keys than workers, so that no property is about one
Deployment starving another; and users create one CR only, so that a parent deleted
and created again is left to theorem `ChildrenFollowSuccess`. `RunIsRecorded` is more
than the existence of a run: the status has to name it, so that whoever creates a run
and dies, or loses the answer or the status write, must be followed by a reconcile
that finds it (`README.md:28`). `EventuallyServes` asks that the ConfigMap stays
complete from some time on. `Diagnostics` has a child before and one after the CustomRun, so that a
failure is found behind one that is skipped; the proof covers any number of steps.
The specs of `Admission` lie on each side of every rule, and three requests are a
creation, an edit and a deletion, or a parent and a CR under the name of its child.
A post-deployment name of blanks passes the webhook and makes a child that is refused
for ever; `ChildAccepted` and `ChildIsCreated` leave such names out. In `Capacity`
one pod is dominated by its init container's CPU and the other by memory, so each resource can peak alone. Except
in `Capacity`, whose poll never ends, and `ArgoCD`, where a process can always
start again, the system may come to rest, so those runs do not look for deadlock;
the liveness properties say what must happen before it does.

Fairness. `FairSpec` of the controller assumes that workers keep taking queued
keys and finishing reconciles, watches deliver and the garbage collector collects:
controller-runtime and Kubernetes guarantee each. Nothing is assumed of users, of
runs, of faults or of restarts; faults and restarts are finite in number. Capacity
assumes the same of its queue and its watch, `Diagnostics` of the reconcile and the
three caches, `Admission` of the controller and its cache. Bootstrap assumes that
processes take steps and that the kubelet restarts them. `ArgoCD` assumes that the
process takes steps, that the timeout of a wait fires, and, strongly, that a select
which finds the timeout ready again and again takes it: Go chooses uniformly among
the ready cases.

Companions. Four configurations of `MCDeploymentController` accompany the theorems
and the hazards and are not among the runs of `PROJECT.json`:

| Configuration | Instance | Result |
|---|---|---|
| `Shared.cfg` | two CRs with one PipelineRun name and one banner name; a deletion or a fault | `OutcomeIsOwn` and `BannerNeedsFinalizer` hold in 3.7 M states |
| `Generated.cfg` | one CR whose PipelineRuns get generated names, two of them; a fault or a restart, fairness | the properties of `Lifecycle` (`TypeOK` in place of `IInv`), and `RunIsRecorded`, `OutcomeIsReported`, `DeletionCompletes`, hold in 489 k states |
| `SecondRun.cfg` | the same | `NoSecondRun` is violated: when the status write that records the first run is lost or not yet in the cache, the next reconcile creates another, although `deployment_controller.go:424` says "just track it". A fixed name excludes this, since `AlreadyExists` is accepted |
| `Recreated.cfg` | one CR, two incarnations, fairness | `EveryLifeGetsARun` is violated: the second incarnation adopts the run of the first, which is then collected, and the `Get` of line 427 fails on every reconcile from then on (`README.md:28`: "Creates Tekton Pipeline + PipelineRun") |

Disagreements between the code and what the repository says of it, each with a
counterexample:

| Run | Property | What happens |
|---|---|---|
| `Rerun` | `NoRunAfterOutcome` | The phase is checked on a cached version: after a reported failure the next reconcile may still launch a PipelineRun. `README.md:93`: "never re-runs a completed deployment". |
| `Credentials` | `SurvivesCredentialFault` | The controller's credential call has no retry and runs while a run is merely tracked; one error is final. `README.md:118`: backoff "wraps every secrets retrieval call". |
| `JobFailure` | `JobFailureIsReported` | A failed Job is returned as an error, so the code that reports `JobFailed` is not reached. `deployment_types.go:66`. |
| `Banners` | `BannerFollowsCR` | The banner to delete is looked up in the cache, which may not have it yet, and stays (`deployment_controller.go:103`). With no deletion in `NoFaults`, TLC shows a second case: a banner conflict says "requeueing" (`deployment_controller.go:696`) and is dropped. The reconcile that stores an outcome comes again after 30 seconds (line 133) or a backoff, and that run updates the banner before it looks at the phase, so a banner goes on showing Running only if its watch lags past that. |
| `CapacityPeak` | `PeakNeverFalls` | `savePeak` re-reads the ConfigMap and so passes the version check with a peak computed from an older one. `capacity_controller.go:32`. |

Mutants. Each property of a passing run comes with a mutated definition (marked
`Mutant` where it is defined) that a plausible slip in the code would correspond
to, and that violates the property.

## Proofs

TLAPS proves the following for all values of the constants, so for any number of
CRs, runs, banners, workers, processes, faults and restarts.

`DeploymentController_proofs`: `Invariance` (`IInv`), and from it `TypeCorrect`,
`VersionsAlwaysAgree`, `NeverForgotten`, `FinalizerAlwaysHolds`,
`BannersAreProtected` and `Implementation` (the controller implements
`DeploymentLifecycle`).

- Neither "no wake-up is lost" nor "outcomes are final" is inductive. Both need
  to know how stale a copy can be: `VersionsAgree` says that the watch holds
  what the cache lacks, that resourceVersions identify versions, and that a
  reconcile's copy trails the cache. From it, `AcceptedIsCurrent`: an accepted
  write was computed from the stored version. `StepKnows` says what each step
  has learnt from that copy, so an accepted status write comes from a phase that
  is not terminal and a CR that is not being deleted; that is the refinement.
- `Awake` is what makes `NoLostWakeup` inductive: if a key is not queued, its
  reconcile works on the cached version, since any delivery queues it again; a
  reconcile that returns without requeue therefore either stored a version, whose
  event will come, or leaves a settled CR.
- `FinalizerHolds` needs `DeletingIsHeld`: an incarnation ends only by removal of
  its finalizer, which only a reconcile of a version marked for deletion does,
  and no version after that one is unmarked.

The proof has one lemma per group of conjuncts (`ReconcileType`,
`ReconcileObjects`, `ReconcileKnows`, `ReconcileAwake`, and their counterparts for
the cluster's actions), each with one step per action. `ObjectStepIsSafe` reduces
the actions that write a CR to the few shapes such a write has. Assumptions:
`NoRunAssumption` and `ConstantsAssumption`, which only type the constants and
keep Job names apart from each other and from PipelineRun names; banner and
PipelineRun names may be shared, and PipelineRun names fixed or generated. Of two
PipelineRun names, fixed ones may coincide, and generated ones are of one CR.

`DeploymentOutcome_proofs`: `ChildrenFollowSuccess` (`ChildOnlyAfterSuccess`) and
`CategoriesAreHonest` (`CategoryOnlyWhenFailed`), both from `Invariance`. `NextWrites`
says that a step changes a stored CR in one of three ways (born, rewritten within an
incarnation, gone), and `NextSeen` that what the operator can act on was visible
before or is stored now. For the chain, the strengthening is that a version which
shows success shows it of the incarnation stored now, if its UID is that one
(`OutcomeSticks`), and that owners are never of a UID still to come. For the
category, every visible version and the status about to be written must be honest;
condition Unknown is harmless because a copy in flight has no category to leave.

`DeploymentRuns_proofs`: `RunsInvariant`, `OutcomesAreOwn` (`OutcomeIsOwn`) and
`SuccessStartsNothing` (`NoRunAfterSuccess`), from `Invariance` and the facts
about outcomes above. The operator finds runs by name and in a cache, so three
things are needed. A cached run whose owner exists is the stored one, since runs
are removed only after their owners, and a run that ended does not change
(`CacheShowsRuns`). A status names the Job of its CR or one of the names its
PipelineRuns may have, and the engine decides which of them a reconcile looks at (`RunNames`, `EngineKnown`): a Job's
name never passes for a PipelineRun. And once a success is stored, a copy from
before it that somebody may still read names a run, or is of the first
incarnation, whose Job is still there (`SuccessUses`): an accepted write was
computed from the stored version, and that one names the run the success came
from. A reconcile of such a copy thus finds the run and starts none. Nothing in
the argument needs names of PipelineRuns or banners to differ, so it covers CRs
that share them. With generated names it says nothing about how many runs a CR has
before its success (`SecondRun.cfg`). It does not extend to failures: a Deployment that failed on its
credentials has no run to name (run `Rerun`).

`Diagnostics_proofs`: `DiagnosticsInvariant`, `StoredEntriesAreReal`,
`StepsAreReportedOnce`, `FailuresAreExplained`, `ReportsAreFinal`. Why the stored
diagnostics are true although three caches lag: what has ended does not change any
more (`EndsAreFinal`), so a cache that shows a failure shows the truth. Why a step
is reported once: the walk starts from a copy without entries (`ActiveIsEmpty`:
entries come with an outcome), and goes forward (`EntriesBefore`). `WalkInv` and
`StepsInv` carry what has been collected from child to child and from step to
step. A report is final because the copy a reconcile works on is of a version
without outcome (`VersionsInv`): once an outcome is stored, that version is an
earlier one.

`Admission_proofs`: `AdmissionInvariant`, `AcceptedStaysValid`,
`CopyNamesTheSource`, `ChildrenAreAccepted`, `OwnUpdatesPass`. The controller's
copy is an earlier version of what is stored (`Versions`), so an accepted update
of it writes back the spec that is there; and repository and release are the same
in all vetted versions of an incarnation.

`ArgoCD_proofs`: `ArgoCDInvariant`, `ApplicationsAreServed`; `Progress` says what has been installed when `Run` is at a step.

`Capacity_proofs`: `Invariance`, `TypeCorrect`, `AlwaysDurable`,
`WatermarkWhenCurrent`, `MorePodsRequestMore`. The invariant says that every
readable version of the ConfigMap is within the highest stored peak, and that a
peak computed from the stored version covers it until it is saved (`SaveCovers`),
which is so because a later write by anybody else changes the state of the
ConfigMap to one without a peak. The order on fractions is proved transitive from
integer arithmetic. The sums over nodes, pods and containers are folds over finite
sets, which unfold by a recursive function on sets. Its equation comes from a
function that exists for every finite subset (`SumsExist`); as no induction
theorem of the library can be instantiated, that is shown with a smallest set for
which there is none (`SubsetMin`, from the smallest of a set of cardinalities).
From the equation, a total of quantities is a quantity (`TotalsAreQuantities`,
used by `TypeCorrect`), and more running pods never request less of a resource.
`ConstantsAssumption` types the constants and says that there are finitely many
nodes, pods and containers.

`Bootstrap_proofs`: `Invariance`, `NeverMountedTwice`, `AlwaysPrepared`.
`StepKnows` carries what a process has established from call to call; the
at-most-once mount needs that a process about to update has read zero mounts.

Only model-checked: all liveness properties (fairness and `ENABLED` are beyond the
provers). The safety properties of the passing runs are all stated by theorems; the
strengthenings that are not listed in a configuration (`RunsInv`, `VersionsInv`)
were model-checked on the same instances before they were proved.

## Not modelled

- Contents: manifests, merged parameters, commands, wording, colours, links,
  logs; they do not feed back into control.
- The Pipeline object created next to a PipelineRun.
- The `Ready`, `Progressing` and `Degraded` conditions: each rewrite of the phase
  sets all three accordingly.
- `collectAnsibleDiagnostics` with `mostRecentFailedPod`: no failed Job reaches them
  (run `JobFailure`).
- The webhook's warning about an absolute path, which refuses nothing.
- Starvation among more Deployments than there are workers.
- Overlapping processes in `ArgoCD`, whose only call is commented out.
- Flags, certificates and probes of `main`; the type declarations of `pkg/argocd`;
  generated code and test helpers: no state of their own.

## Plan

Done, in this order: status and controller with the abstract life cycle, their
runs and proofs; capacity; start-up; diagnostics; admission; ArgoCD; the theorems
about children and categories; shared names, the theorems about runs and outcomes,
the totals of the capacity controller, final reports.

Left, should the code come to depend on it:

1. Pipelines as objects, and task files with several documents.
2. Failed Jobs in the diagnostics, once the code lets one reach them.
3. What a CR that is re-created, or shares a name, may adopt, once it is decided.
4. Overlapping processes in `ArgoCD`, once its call is enabled.
