----------------------------- MODULE Diagnostics -----------------------------
(***************************************************************************)
(* Failure diagnostics (internal/controller/deployment_diagnostics.go): how *)
(* the failure of a PipelineRun becomes the diagnostics of a Deployment.    *)
(*                                                                         *)
(* A reconcile reads the Deployment and then the PipelineRun from their     *)
(* informer caches; when the run has failed it walks the childReferences,   *)
(* reading each TaskRun from a third cache and appending an entry for each  *)
(* step that failed, and writes the status once.  The caches move, the      *)
(* pipeline goes on and users write the Deployment between any two of these *)
(* calls.  Texts, log tails and hints, which decide nothing, are left out.  *)
(***************************************************************************)
EXTENDS Naturals, Sequences, DeploymentStatus

CONSTANTS
    NumTasks,     \* tasks of the pipeline, in the order their runs are created
    NumSteps,     \* steps of a task
    CustomRuns,   \* the tasks whose child is a CustomRun and not a TaskRun
    Budgets       \* bounds: how many failed calls, writes of the Deployment by
                  \*   others and operator restarts a behaviour may have, as a
                  \*   set of alternatives

BudgetItems == {"fault", "edit", "restart"}

Tasks == 1..NumTasks

StepsOf == 1..NumSteps

ASSUME DiagnosticsAssumption ==
    /\ NumTasks \in Nat
    /\ NumSteps \in Nat
    /\ CustomRuns \subseteq Tasks
    /\ Budgets \subseteq [BudgetItems -> Nat]

VARIABLES
    taskRuns,   \* taskRuns[t]: the TaskRun of task t
    taskCache,  \* taskCache[t]: the same in the informer cache
    pr,         \* the PipelineRun
    prCache,    \* the same in the informer cache
    server,     \* the Deployment: version, status and diagnostics
    cache,      \* the same in the informer cache
    pc,         \* the next step of the reconcile, or "idle"
    obj,        \* the copy of the Deployment that reconcile works on
    children,   \* childReferences of the PipelineRun it has read: 1..children
    at,         \* the child it looks at
    tr,         \* the TaskRun of that child it has read
    step,       \* the step of that TaskRun it looks at
    smooth,     \* whether, in this behaviour, no call fails and the PipelineRun
                \*   cache is never ahead of the TaskRun cache (they are filled by
                \*   two watches, so nothing makes it so)
    budget      \* what is left of the alternative of Budgets chosen

pipelineVars == <<taskRuns, pr>>
cacheVars    == <<taskCache, prCache, cache>>
workerVars   == <<pc, obj, children, at, tr, step>>
vars == <<pipelineVars, cacheVars, server, workerVars, smooth, budget>>

-----------------------------------------------------------------------------

\* state.terminated of a step: nil or exit code 0, or another exit code.
Exits == {"ok", "failed"}

\* Status of the condition Succeeded; "nil" when there is none.
Conditions == {"nil", "Unknown", "True", "False"}

TaskRunObjects == [exists : BOOLEAN, condition : Conditions, steps : [StepsOf -> Exits]]

NoTaskRun ==
    [exists |-> FALSE, condition |-> "nil", steps |-> [s \in StepsOf |-> "ok"]]

PipelineRunObjects == [condition : Conditions, children : 0..NumTasks]

\* A DiagnosticEntry: where it is from, the child and the step it is about
\* (0 when it is about none).
Entries == [component : {"Operator", "Tekton"}, task : 0..NumTasks, step : 0..NumSteps]

OperatorEntry == [component |-> "Operator", task |-> 0, step |-> 0]

StepEntry(t, s) == [component |-> "Tekton", task |-> t, step |-> s]

TaskRunEntry(t) == StepEntry(t, 0)

DeploymentObjects == [rv : Nat, status : Statuses, diagnostics : Seq(Entries)]

NewDeployment == [rv |-> 0, status |-> NoStatus, diagnostics |-> << >>]

Init ==
    /\ taskRuns = [t \in Tasks |-> NoTaskRun]
    /\ taskCache = taskRuns
    /\ pr = [condition |-> "nil", children |-> 0]
    /\ prCache = pr
    /\ server = NewDeployment
    /\ cache = NewDeployment
    /\ pc = "idle"
    /\ obj = NewDeployment
    /\ children = 0
    /\ at = 1
    /\ tr = NoTaskRun
    /\ step = 1
    /\ smooth \in BOOLEAN
    /\ budget \in Budgets

Spend(what) ==
    /\ budget[what] > 0
    /\ budget' = [budget EXCEPT ![what] = @ - 1]

Fault == ~smooth /\ Spend("fault")

NoFault == UNCHANGED budget

-----------------------------------------------------------------------------
(* The reconcile *)

\* The local variables of a reconcile that is over.
Forget ==
    /\ pc' = "idle"
    /\ obj' = NewDeployment
    /\ children' = 0
    /\ at' = 1
    /\ tr' = NoTaskRun
    /\ step' = 1

\* Write status st and the diagnostics next.
Save(st, diagnostics) ==
    /\ pc' = "saveStatus"
    /\ obj' = [obj EXCEPT !.status = st, !.diagnostics = diagnostics]
    /\ UNCHANGED <<children, at, tr, step>>

\* Only a Deployment that is active in the cache is looked at.
Reconcile ==
    /\ pc = "idle"
    /\ cache.status.phase \notin TerminalPhases
    /\ pc' = "getPipelineRun"
    /\ obj' = cache
    /\ UNCHANGED <<children, at, tr, step, pipelineVars, cacheVars, server,
                   smooth, budget>>

\* Credentials or clone fail: applyFailedStatus replaces the diagnostics.
CredentialsFail ==
    /\ pc = "getPipelineRun"
    /\ Fault
    /\ Save(FailedStatus(obj.status, "CredentialError"), <<OperatorEntry>>)
    /\ UNCHANGED <<pipelineVars, cacheVars, server, smooth>>

\* updatePipelineRunStatus and applyCondition up to the collector: a condition
\* True clears the diagnostics, Unknown keeps them, and on False the collector
\* starts, or gives up for want of a clientset and sets no category.
GetPipelineRun ==
    /\ pc = "getPipelineRun"
    /\ UNCHANGED <<pipelineVars, cacheVars, server, smooth>>
    /\ \/ /\ prCache.condition = "nil"
          /\ NoFault
          /\ Forget
       \/ /\ prCache.condition = "Unknown"
          /\ NoFault
          /\ Save(ConditionStatus(obj.status, "Unknown", ""), obj.diagnostics)
       \/ /\ prCache.condition = "True"
          /\ NoFault
          /\ Save(ConditionStatus(obj.status, "True", ""), << >>)
       \/ /\ prCache.condition = "False"
          /\ NoFault
          /\ pc' = "getTaskRun"
          /\ children' = prCache.children
          /\ UNCHANGED <<obj, at, tr, step>>
       \/ /\ prCache.condition = "False"
          /\ Fault
          /\ Save(ConditionStatus(obj.status, "False", obj.status.category),
                  Append(obj.diagnostics, OperatorEntry))

\* Mutant: every TaskRun is walked.
GetTaskRunOfAnyOutcome ==
    /\ pc = "getTaskRun"
    /\ at <= children
    /\ UNCHANGED <<obj, children, pipelineVars, cacheVars, server, smooth>>
    /\ \/ /\ IF taskCache[at].exists THEN Fault ELSE NoFault
          /\ at' = at + 1
          /\ UNCHANGED <<pc, tr, step>>
       \/ /\ taskCache[at].exists
          /\ NoFault
          /\ pc' = "walkSteps"
          /\ tr' = taskCache[at]
          /\ step' = 1
          /\ UNCHANGED at

\* Mutant: a child that cannot be read ends the reconcile with an error.
GetTaskRunOrReturn ==
    /\ pc = "getTaskRun"
    /\ at <= children
    /\ UNCHANGED <<pipelineVars, cacheVars, server, smooth>>
    /\ \/ /\ IF taskCache[at].exists THEN Fault ELSE NoFault
          /\ Forget
       \/ /\ taskCache[at].exists
          /\ NoFault
          /\ pc' = "walkSteps"
          /\ tr' = taskCache[at]
          /\ step' = 1
          /\ UNCHANGED <<at, obj, children>>

\* One round of the loop over childReferences, up to the loop over steps: a
\* child that the cache does not have, or whose read fails, is skipped, and so is
\* one that has not failed.
GetTaskRun ==
    /\ pc = "getTaskRun"
    /\ at <= children
    /\ UNCHANGED <<obj, children, pipelineVars, cacheVars, server, smooth>>
    /\ \/ /\ IF taskCache[at].exists THEN Fault ELSE NoFault
          /\ at' = at + 1
          /\ UNCHANGED <<pc, tr, step>>
       \/ /\ taskCache[at].exists
          /\ taskCache[at].condition # "False"
          /\ NoFault
          /\ at' = at + 1
          /\ UNCHANGED <<pc, tr, step>>
       \/ /\ taskCache[at].exists
          /\ taskCache[at].condition = "False"
          /\ NoFault
          /\ pc' = "walkSteps"
          /\ tr' = taskCache[at]
          /\ step' = 1
          /\ UNCHANGED at

\* One round of the loop over steps.  The log tail is fetched here; an error
\* leaves it empty and nothing else.
WalkStep ==
    /\ pc = "walkSteps"
    /\ step <= NumSteps
    /\ step' = step + 1
    /\ obj' = IF tr.steps[step] = "failed"
                THEN [obj EXCEPT !.diagnostics = Append(@, StepEntry(at, step))]
                ELSE obj
    /\ UNCHANGED <<pc, children, at, tr, pipelineVars, cacheVars, server, smooth,
                   budget>>

\* Mutant: no fallback.
EndTaskRunSilently ==
    /\ pc = "walkSteps"
    /\ step > NumSteps
    /\ pc' = "getTaskRun"
    /\ at' = at + 1
    /\ UNCHANGED <<obj, children, tr, step, pipelineVars, cacheVars, server,
                   smooth, budget>>

\* The fallback entry, only while there is no entry at all.
EndTaskRun ==
    /\ pc = "walkSteps"
    /\ step > NumSteps
    /\ pc' = "getTaskRun"
    /\ at' = at + 1
    /\ obj' = IF obj.diagnostics = << >>
                THEN [obj EXCEPT !.diagnostics = <<TaskRunEntry(at)>>]
                ELSE obj
    /\ UNCHANGED <<children, tr, step, pipelineVars, cacheVars, server, smooth,
                   budget>>

\* The category is StepFailed whatever was found.
EndWalk ==
    /\ pc = "getTaskRun"
    /\ at > children
    /\ Save(ConditionStatus(obj.status, "False", "StepFailed"), obj.diagnostics)
    /\ UNCHANGED <<pipelineVars, cacheVars, server, smooth, budget>>

\* Mutant: a refused update is tried again with what has been collected.
WriteStatusAgain ==
    /\ pc = "saveStatus"
    /\ UNCHANGED <<pipelineVars, cacheVars, smooth>>
    /\ \/ /\ obj.rv = server.rv
          /\ NoFault
          /\ server' = [obj EXCEPT !.rv = @ + 1]
          /\ Forget
       \/ /\ IF obj.rv = server.rv THEN Fault ELSE NoFault
          /\ pc' = "getPipelineRun"
          /\ obj' = [obj EXCEPT !.rv = server.rv]
          /\ at' = 1
          /\ UNCHANGED <<children, tr, step, server>>

\* Status().Update, refused when the copy is not the version stored.  What was
\* collected is then lost and the next reconcile collects again.
WriteStatus ==
    /\ pc = "saveStatus"
    /\ Forget
    /\ UNCHANGED <<pipelineVars, cacheVars, smooth>>
    /\ \/ /\ obj.rv = server.rv
          /\ NoFault
          /\ server' = IF obj = server THEN server ELSE [obj EXCEPT !.rv = @ + 1]
       \/ /\ IF obj.rv = server.rv THEN Fault ELSE NoFault
          /\ UNCHANGED server

ControllerStep ==
    \/ Reconcile \/ CredentialsFail \/ GetPipelineRun
    \/ GetTaskRun \/ WalkStep \/ EndTaskRun \/ EndWalk
    \/ WriteStatus

-----------------------------------------------------------------------------
(* Tekton, the caches and other writers *)

PipelineRunStarts ==
    /\ pr.condition = "nil"
    /\ pr' = [pr EXCEPT !.condition = "Unknown"]
    /\ UNCHANGED <<taskRuns, cacheVars, server, workerVars, smooth, budget>>

\* The next child is created and recorded in childReferences.
CreateTaskRun ==
    /\ pr.condition = "Unknown"
    /\ pr.children < NumTasks
    /\ pr' = [pr EXCEPT !.children = @ + 1]
    /\ taskRuns' = [t \in Tasks |->
                      IF t = pr.children + 1 /\ t \notin CustomRuns
                        THEN [NoTaskRun EXCEPT !.exists = TRUE, !.condition = "Unknown"]
                        ELSE taskRuns[t]]
    /\ UNCHANGED <<cacheVars, server, workerVars, smooth, budget>>

\* A TaskRun ends.  It may succeed although a step failed (onError: continue) and
\* fail although none did (a time-out, a pod that cannot start).
TaskRunEnds(t) ==
    /\ taskRuns[t].condition = "Unknown"
    /\ \E condition \in {"True", "False"}, steps \in [StepsOf -> Exits] :
          taskRuns' = [taskRuns EXCEPT
                         ![t] = [exists |-> TRUE, condition |-> condition, steps |-> steps]]
    /\ UNCHANGED <<pr, cacheVars, server, workerVars, smooth, budget>>

\* The PipelineRun ends once its TaskRuns have.
PipelineRunEnds ==
    /\ pr.condition = "Unknown"
    /\ \A t \in Tasks : taskRuns[t].condition # "Unknown"
    /\ \E condition \in {"True", "False"} : pr' = [pr EXCEPT !.condition = condition]
    /\ UNCHANGED <<taskRuns, cacheVars, server, workerVars, smooth, budget>>

SyncTaskRun(t) ==
    /\ taskCache[t] # taskRuns[t]
    /\ taskCache' = [taskCache EXCEPT ![t] = taskRuns[t]]
    /\ UNCHANGED <<prCache, cache, pipelineVars, server, workerVars, smooth, budget>>

SyncPipelineRun ==
    /\ prCache # pr
    /\ smooth => taskCache = taskRuns
    /\ prCache' = pr
    /\ UNCHANGED <<taskCache, cache, pipelineVars, server, workerVars, smooth, budget>>

SyncDeployment ==
    /\ cache # server
    /\ cache' = server
    /\ UNCHANGED <<taskCache, prCache, pipelineVars, server, workerVars, smooth, budget>>

\* Somebody else writes the Deployment, other than its status.
OtherWrite ==
    /\ Spend("edit")
    /\ server' = [server EXCEPT !.rv = @ + 1]
    /\ UNCHANGED <<pipelineVars, cacheVars, workerVars, smooth>>

\* The manager starts again, with caches filled by a list.
Restart ==
    /\ Spend("restart")
    /\ Forget
    /\ taskCache' = taskRuns
    /\ prCache' = pr
    /\ cache' = server
    /\ UNCHANGED <<pipelineVars, server, smooth>>

ClusterStep ==
    \/ PipelineRunStarts \/ CreateTaskRun \/ PipelineRunEnds
    \/ \E t \in Tasks : TaskRunEnds(t) \/ SyncTaskRun(t)
    \/ SyncPipelineRun \/ SyncDeployment \/ OtherWrite \/ Restart

Next == ControllerStep \/ ClusterStep

Spec == Init /\ [][Next]_vars

\* The operator and its watches keep going; nothing is assumed of the pipeline,
\* of other writers or of faults.
Fairness ==
    /\ WF_vars(ControllerStep)
    /\ \A t \in Tasks : WF_vars(SyncTaskRun(t))
    /\ WF_vars(SyncPipelineRun)
    /\ WF_vars(SyncDeployment)

FairSpec == Spec /\ Fairness

-----------------------------------------------------------------------------
(* Properties *)

\* Every variable keeps the type of the API object or local variable it stands
\* for.
TypeOK ==
    /\ taskRuns \in [Tasks -> TaskRunObjects]
    /\ taskCache \in [Tasks -> TaskRunObjects]
    /\ pr \in PipelineRunObjects
    /\ prCache \in PipelineRunObjects
    /\ server \in DeploymentObjects
    /\ cache \in DeploymentObjects
    /\ pc \in {"idle", "getPipelineRun", "getTaskRun", "walkSteps", "saveStatus"}
    /\ obj \in DeploymentObjects
    /\ children \in 0..NumTasks
    /\ at \in 1..(NumTasks + 1)
    /\ tr \in TaskRunObjects
    /\ step \in 1..(NumSteps + 1)
    /\ smooth \in BOOLEAN
    /\ budget \in [BudgetItems -> Nat]

FailedSteps(t) == {s \in StepsOf : taskRuns[t].steps[s] = "failed"}

\* Entry e is about a failure that did happen.
IsReal(e) ==
    e.component = "Tekton" =>
        /\ e.task \in Tasks
        /\ taskRuns[e.task].condition = "False"
        /\ IF e.step = 0 THEN FailedSteps(e.task) = {}
                         ELSE e.step \in FailedSteps(e.task)

Real(d) == \A i \in DOMAIN d : IsReal(d[i])

\* However far the caches lag, a stored entry tells of a TaskRun that has failed,
\* and of a step that did exit with a non-zero code in it (or of a TaskRun that
\* failed without one).
EntriesAreReal == Real(server.diagnostics)

Once(d) == \A i, j \in DOMAIN d : d[i] = d[j] => i = j

\* The collector appends, and a refused status update makes it walk again: still
\* no step is reported twice.
ReportedOnce == Once(server.diagnostics)

\* Diagnostics d tell of the failure of the TaskRun of t: of each of its failed
\* steps or, when there is none, at least of a child before it or of itself.
Tells(d, t) ==
    /\ \A s \in FailedSteps(t) : \E i \in DOMAIN d : d[i] = StepEntry(t, s)
    /\ FailedSteps(t) = {} => \E i \in DOMAIN d : d[i].task <= t

TellsUpTo(d, n) ==
    \A t \in 1..n : taskRuns[t].condition = "False" => Tells(d, t)

\* A pipeline's failure is explained: when no call failed and the TaskRun cache
\* was not behind, no TaskRun that failed is passed over, and a failure without a
\* failed step is at least preceded by an entry.
Explained ==
    smooth /\ server.status.phase = "Failed" => TellsUpTo(server.diagnostics, NumTasks)

\* Once a phase is terminal, the report stays: a reconcile that still works from
\* an older version, and may have collected more, or less, is refused.
ReportIsFinal ==
    [][server.status.phase \in TerminalPhases =>
          /\ server'.status = server.status
          /\ server'.diagnostics = server.diagnostics]_vars

\* Diagnostics are best-effort: whatever the collector meets, the failure of the
\* PipelineRun ends up in the phase.
FailureIsStored == pr.condition = "False" ~> server.status.phase = "Failed"

-----------------------------------------------------------------------------
(* What makes those invariants inductive *)

\* What has ended stays as it is, so a cache that shows an end shows the truth.
EndsAreFinal ==
    /\ \A t \in Tasks :
          /\ taskCache[t].condition = "False" => taskCache[t] = taskRuns[t]
          /\ taskRuns[t].condition # "nil" => taskRuns[t].exists /\ t <= pr.children
          /\ pr.condition = "False" => taskRuns[t].condition # "Unknown"
    /\ prCache.condition = "False" =>
          /\ prCache = pr
          /\ smooth => taskCache = taskRuns

\* Diagnostics come with an outcome.
ActiveIsEmpty(o) == o.status.phase \notin TerminalPhases => o.diagnostics = << >>

\* Where the walk is, entries are of the children and steps before.
EntriesBefore(d) ==
    \A i \in DOMAIN d :
        /\ d[i].component = "Tekton"
        /\ \/ d[i].task < at
           \/ pc = "walkSteps" /\ d[i].task = at /\ 0 < d[i].step /\ d[i].step < step

\* What the walk has collected so far.
WalkInv ==
    pc \in {"getTaskRun", "walkSteps"} =>
        /\ prCache.condition = "False" /\ children = prCache.children
        /\ at <= children + 1
        /\ Real(obj.diagnostics) /\ Once(obj.diagnostics)
        /\ EntriesBefore(obj.diagnostics)
        /\ smooth => TellsUpTo(obj.diagnostics, at - 1)

\* What it has collected of the TaskRun it looks at.
StepsInv ==
    pc = "walkSteps" =>
        /\ at <= children
        /\ tr = taskRuns[at] /\ tr.condition = "False"
        /\ \A s \in StepsOf : s < step /\ tr.steps[s] = "failed" =>
              \E i \in DOMAIN obj.diagnostics : obj.diagnostics[i] = StepEntry(at, s)

\* Status o may be stored.
Storable(o) ==
    /\ ActiveIsEmpty(o)
    /\ Real(o.diagnostics) /\ Once(o.diagnostics)
    /\ smooth /\ o.status.phase = "Failed" =>
          pr.condition = "False" /\ TellsUpTo(o.diagnostics, NumTasks)

\* The inductive invariant.
IInv ==
    /\ TypeOK
    /\ EndsAreFinal
    /\ ActiveIsEmpty(cache)
    /\ pc \in {"getPipelineRun", "getTaskRun", "walkSteps"}
          => obj.status.phase \notin TerminalPhases
    /\ pc \in {"idle", "getPipelineRun"} => at = 1
    /\ pc = "getPipelineRun" => obj.diagnostics = << >>
    /\ WalkInv
    /\ StepsInv
    /\ pc = "saveStatus" => Storable(obj)
    /\ Storable(server)

=============================================================================
