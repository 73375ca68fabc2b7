-------------------------- MODULE DeploymentStatus --------------------------
(***************************************************************************)
(* The status subresource of a Deployment CR (api/v1alpha1) and the four   *)
(* ways the controller rewrites it before Status().Update.                 *)
(*                                                                         *)
(* Every rewrite sets the Ready, Progressing and Degraded conditions       *)
(* together with the phase, so they are functions of the phase and are not *)
(* kept.  Texts are reduced to what the controller compares: whether the   *)
(* message is postDeploymentMessage.                                       *)
(***************************************************************************)
CONSTANTS
    Runs,   \* names of the Jobs and PipelineRuns of the cluster
    NoRun   \* status.pipelineRunName = ""

ASSUME NoRunAssumption == NoRun \notin Runs

Phases == {"", "Running", "Succeeded", "Failed"}

TerminalPhases == {"Succeeded", "Failed"}

Messages == {"", "progress", "completed", "failure", "postDeployment"}

\* The categories some code path assigns ("" when none was).  ConfigError and
\* Unknown are declared by the API and assigned nowhere.
FailureCategories ==
    {"", "CredentialError", "CloneError", "StepFailed", "JobFailed"}

Statuses ==
    [phase    : Phases,
     message  : Messages,
     run      : Runs \cup {NoRun},
     category : FailureCategories]

NoStatus == [phase |-> "", message |-> "", run |-> NoRun, category |-> ""]

-----------------------------------------------------------------------------

\* Mutant: phase and category swapped.
FailedStatusSwapped(st, category) ==
    [st EXCEPT !.phase = category, !.message = "failure", !.category = "Failed"]

\* applyFailedStatus, up to its Status().Update.
FailedStatus(st, category) ==
    [st EXCEPT !.phase = "Failed", !.message = "failure", !.category = category]

\* Mutant: a run that has started counts as done.
ConditionOfStarted(state) ==
    CASE state \in {"running", "succeeded"} -> "True"
      [] state = "failed" -> "False"

\* The condition of a PipelineRun or Job, as applyCondition receives it, from
\* the state of the run: Unknown, True or False.
ConditionOf(state) ==
    CASE state = "running"   -> "Unknown"
      [] state = "succeeded" -> "True"
      [] state = "failed"    -> "False"

\* applyCondition, up to its Status().Update.  On False it leaves the category
\* to the diagnostics collector, which assigns `category`.
ConditionStatus(st, condition, category) ==
    CASE condition = "True" ->
            [st EXCEPT !.phase = "Succeeded", !.message = "completed",
                       !.category = ""]
      [] condition = "False" ->
            [st EXCEPT !.phase = "Failed", !.message = "failure",
                       !.category = category]
      [] condition = "Unknown" ->
            [st EXCEPT !.phase = "Running", !.message = "progress"]

\* Recording the name of the Job or PipelineRun just created.
LaunchedStatus(st, run) == [st EXCEPT !.run = run]

\* reconcilePostDeployment, once the child CR is created.
PostDeploymentStatus(st) == [st EXCEPT !.message = "postDeployment"]
=============================================================================
