------------------------- MODULE Diagnostics_proofs -------------------------
(***************************************************************************)
(* For any number of tasks, steps, failed calls, foreign writes and        *)
(* restarts: stored entries are real, no step is reported twice, the       *)
(* failure of a smooth behaviour is explained, and a report is final.      *)
(***************************************************************************)
EXTENDS Diagnostics, TLAPS

-----------------------------------------------------------------------------
(* Statuses *)

\* The rewrites of the status used here, and the phases they lead to.
LEMMA Rewrites ==
    ASSUME NEW st \in Statuses
    PROVE  /\ FailedStatus(st, "CredentialError") \in Statuses
           /\ FailedStatus(st, "CredentialError").phase = "Failed"
           /\ ConditionStatus(st, "Unknown", "") \in Statuses
           /\ ConditionStatus(st, "Unknown", "").phase = "Running"
           /\ ConditionStatus(st, "True", "") \in Statuses
           /\ ConditionStatus(st, "True", "").phase = "Succeeded"
           /\ ConditionStatus(st, "False", "StepFailed") \in Statuses
           /\ ConditionStatus(st, "False", "StepFailed").phase = "Failed"
           /\ ConditionStatus(st, "False", st.category) \in Statuses
           /\ ConditionStatus(st, "False", st.category).phase = "Failed"
           /\ st.category \in FailureCategories
  BY DEF FailedStatus, ConditionStatus, Statuses, Phases, Messages, FailureCategories

LEMMA Constants ==
    /\ NumTasks \in Nat /\ NumSteps \in Nat
    /\ NoTaskRun \in TaskRunObjects
    /\ NewDeployment \in DeploymentObjects
    /\ OperatorEntry \in Entries
    /\ \A t \in Tasks : TaskRunEntry(t) \in Entries
    /\ \A t \in Tasks, s \in StepsOf : StepEntry(t, s) \in Entries
  <1>1. NewDeployment \in DeploymentObjects
    BY DEF NewDeployment, DeploymentObjects, NoStatus, Statuses, Phases, Messages,
           FailureCategories
  <1> QED BY <1>1, DiagnosticsAssumption
          DEF NoTaskRun, TaskRunObjects, Conditions, Exits, OperatorEntry, Entries,
              TaskRunEntry, StepEntry, Tasks, StepsOf

\* A Deployment with other diagnostics, or with the next version number.
LEMMA ObjectUpdates ==
    ASSUME NEW o \in DeploymentObjects, NEW d \in Seq(Entries)
    PROVE  /\ o.rv \in Nat /\ o.status \in Statuses /\ o.diagnostics \in Seq(Entries)
           /\ [o EXCEPT !.diagnostics = d] \in DeploymentObjects
           /\ [o EXCEPT !.diagnostics = d].diagnostics = d
           /\ [o EXCEPT !.diagnostics = d].status = o.status
           /\ [o EXCEPT !.rv = @ + 1] \in DeploymentObjects
           /\ [o EXCEPT !.rv = @ + 1].status = o.status
           /\ [o EXCEPT !.rv = @ + 1].diagnostics = o.diagnostics
  <1>1. o = [rv |-> o.rv, status |-> o.status, diagnostics |-> o.diagnostics]
    BY DEF DeploymentObjects
  <1>2. o.rv \in Nat /\ o.status \in Statuses /\ o.diagnostics \in Seq(Entries)
    BY DEF DeploymentObjects
  <1>3. [o EXCEPT !.diagnostics = d]
            = [rv |-> o.rv, status |-> o.status, diagnostics |-> d]
    BY <1>1
  <1>4. [o EXCEPT !.rv = @ + 1]
            = [rv |-> o.rv + 1, status |-> o.status, diagnostics |-> o.diagnostics]
    BY <1>1
  <1>5. o.rv + 1 \in Nat
    BY <1>2
  <1> QED BY <1>2, <1>3, <1>4, <1>5 DEF DeploymentObjects

-----------------------------------------------------------------------------
(* Type correctness *)

LEMMA TypeInit == Init => TypeOK
  BY Constants, DiagnosticsAssumption
     DEF Init, TypeOK, PipelineRunObjects, Conditions

LEMMA TypeForget == Forget => /\ pc' = "idle" /\ obj' \in DeploymentObjects
                              /\ children' \in 0..NumTasks
                              /\ at' \in 1..(NumTasks + 1)
                              /\ tr' \in TaskRunObjects
                              /\ step' \in 1..(NumSteps + 1)
  BY Constants DEF Forget

LEMMA TypeSave ==
    ASSUME TypeOK, NEW st \in Statuses, NEW d \in Seq(Entries), Save(st, d)
    PROVE  /\ pc' = "saveStatus" /\ obj' \in DeploymentObjects
           /\ children' \in 0..NumTasks
           /\ at' \in 1..(NumTasks + 1)
           /\ tr' \in TaskRunObjects
           /\ step' \in 1..(NumSteps + 1)
           /\ obj'.status = st /\ obj'.diagnostics = d
  BY DEF TypeOK, Save, DeploymentObjects

LEMMA TypeBudget ==
    ASSUME TypeOK,
           Fault \/ NoFault \/ Spend("edit") \/ Spend("restart")
    PROVE  budget' \in [BudgetItems -> Nat]
  BY DEF TypeOK, Fault, NoFault, Spend, BudgetItems

\* A step of the operator keeps the types.
LEMMA TypeController == TypeOK /\ StepsInv /\ ControllerStep => TypeOK'
  <1> SUFFICES ASSUME TypeOK, StepsInv, ControllerStep
               PROVE  TypeOK'
    OBVIOUS
  <1> USE DEF pipelineVars, cacheVars
  <1>o. /\ obj.status \in Statuses /\ obj.diagnostics \in Seq(Entries) /\ obj.rv \in Nat
        /\ Append(obj.diagnostics, OperatorEntry) \in Seq(Entries)
        /\ << >> \in Seq(Entries) /\ <<OperatorEntry>> \in Seq(Entries)
    BY Constants DEF TypeOK, DeploymentObjects
  <1>1. CASE Reconcile
    BY <1>1 DEF Reconcile, TypeOK
  <1>2. CASE CredentialsFail
    <2>1. FailedStatus(obj.status, "CredentialError") \in Statuses
      BY <1>o, Rewrites
    <2> QED BY <1>2, <1>o, <2>1, TypeSave, TypeBudget DEF CredentialsFail, TypeOK
  <1>3. CASE GetPipelineRun
    <2>1. /\ ConditionStatus(obj.status, "Unknown", "") \in Statuses
          /\ ConditionStatus(obj.status, "True", "") \in Statuses
          /\ ConditionStatus(obj.status, "False", obj.status.category) \in Statuses
      BY <1>o, Rewrites
    <2>2. budget' \in [BudgetItems -> Nat]
      BY <1>3, TypeBudget DEF GetPipelineRun
    <2>3. CASE Forget
      BY <1>3, <2>2, <2>3, TypeForget DEF GetPipelineRun, TypeOK
    <2>4. CASE Save(ConditionStatus(obj.status, "Unknown", ""), obj.diagnostics)
      BY <1>3, <1>o, <2>1, <2>2, <2>4, TypeSave DEF GetPipelineRun, TypeOK
    <2>5. CASE Save(ConditionStatus(obj.status, "True", ""), << >>)
      BY <1>3, <1>o, <2>1, <2>2, <2>5, TypeSave DEF GetPipelineRun, TypeOK
    <2>6. CASE Save(ConditionStatus(obj.status, "False", obj.status.category),
                    Append(obj.diagnostics, OperatorEntry))
      BY <1>3, <1>o, <2>1, <2>2, <2>6, TypeSave DEF GetPipelineRun, TypeOK
    <2>7. CASE /\ pc' = "getTaskRun"
               /\ children' = prCache.children
               /\ UNCHANGED <<obj, at, tr, step>>
      BY <1>3, <2>2, <2>7 DEF GetPipelineRun, TypeOK, PipelineRunObjects
    <2> QED BY <1>3, <2>3, <2>4, <2>5, <2>6, <2>7 DEF GetPipelineRun
  <1>4. CASE GetTaskRun
    <2>1. at \in Tasks /\ at + 1 \in 1..(NumTasks + 1)
      BY <1>4, Constants DEF GetTaskRun, TypeOK, Tasks
    <2>2. budget' \in [BudgetItems -> Nat]
      BY <1>4, TypeBudget DEF GetTaskRun
    <2>3. CASE at' = at + 1 /\ UNCHANGED <<pc, tr, step>>
      BY <1>4, <2>1, <2>2, <2>3 DEF GetTaskRun, TypeOK
    <2>4. CASE pc' = "walkSteps" /\ tr' = taskCache[at] /\ step' = 1 /\ UNCHANGED at
      BY <1>4, <2>1, <2>2, <2>4, Constants DEF GetTaskRun, TypeOK
    <2> QED BY <1>4, <2>3, <2>4 DEF GetTaskRun
  <1>5. CASE WalkStep
    <2>1. step \in StepsOf /\ step + 1 \in 1..(NumSteps + 1)
      BY <1>5, Constants DEF WalkStep, TypeOK, StepsOf
    <2>2. StepEntry(at, step) \in Entries
      BY <1>5, <2>1, Constants DEF WalkStep, StepsInv, TypeOK, Tasks
    <2>3. Append(obj.diagnostics, StepEntry(at, step)) \in Seq(Entries)
      BY <1>o, <2>2
    <2>4. obj' \in DeploymentObjects
      BY <1>5, <2>3, ObjectUpdates DEF WalkStep, TypeOK
    <2> QED BY <1>5, <2>1, <2>4 DEF WalkStep, TypeOK
  <1>6. CASE EndTaskRun
    <2>1. at \in Tasks /\ at + 1 \in 1..(NumTasks + 1)
      BY <1>6, Constants DEF EndTaskRun, StepsInv, TypeOK, Tasks
    <2>2. obj' \in DeploymentObjects
      <3>1. <<TaskRunEntry(at)>> \in Seq(Entries)
        BY <2>1, Constants
      <3> QED BY <1>6, <3>1, ObjectUpdates DEF EndTaskRun, TypeOK
    <2> QED BY <1>6, <2>1, <2>2 DEF EndTaskRun, TypeOK
  <1>7. CASE EndWalk
    <2>1. ConditionStatus(obj.status, "False", "StepFailed") \in Statuses
      BY <1>o, Rewrites
    <2> QED BY <1>7, <1>o, <2>1, TypeSave DEF EndWalk, TypeOK
  <1>8. CASE WriteStatus
    <2>1. [obj EXCEPT !.rv = @ + 1] \in DeploymentObjects
      BY <1>o, ObjectUpdates DEF TypeOK
    <2>2. server' \in DeploymentObjects
      BY <1>8, <2>1 DEF WriteStatus, TypeOK
    <2> QED BY <1>8, <2>2, TypeForget, TypeBudget DEF WriteStatus, TypeOK
  <1> QED BY <1>1, <1>2, <1>3, <1>4, <1>5, <1>6, <1>7, <1>8 DEF ControllerStep

\* So does a step of the cluster around it.
LEMMA TypeCluster == TypeOK /\ ClusterStep => TypeOK'
  <1> SUFFICES ASSUME TypeOK, ClusterStep
               PROVE  TypeOK'
    OBVIOUS
  <1> USE DEF pipelineVars, cacheVars, workerVars
  <1>1. CASE PipelineRunStarts \/ PipelineRunEnds
    BY <1>1 DEF PipelineRunStarts, PipelineRunEnds, TypeOK, PipelineRunObjects, Conditions
  <1>2. CASE CreateTaskRun
    <2>1. pr' \in PipelineRunObjects
      BY <1>2, Constants DEF CreateTaskRun, TypeOK, PipelineRunObjects
    <2>2. [NoTaskRun EXCEPT !.exists = TRUE, !.condition = "Unknown"] \in TaskRunObjects
      BY Constants DEF NoTaskRun, TaskRunObjects, Conditions
    <2>3. taskRuns' \in [Tasks -> TaskRunObjects]
      BY <1>2, <2>2 DEF CreateTaskRun, TypeOK
    <2> QED BY <1>2, <2>1, <2>3 DEF CreateTaskRun, TypeOK
  <1>3. ASSUME NEW t \in Tasks, TaskRunEnds(t)
        PROVE  TypeOK'
    BY <1>3 DEF TaskRunEnds, TypeOK, TaskRunObjects, Conditions
  <1>4. ASSUME NEW t \in Tasks, SyncTaskRun(t)
        PROVE  TypeOK'
    BY <1>4 DEF SyncTaskRun, TypeOK
  <1>5. CASE SyncPipelineRun \/ SyncDeployment
    BY <1>5 DEF SyncPipelineRun, SyncDeployment, TypeOK
  <1>6. CASE OtherWrite
    <2>1. server' \in DeploymentObjects
      <3>1. << >> \in Seq(Entries)
        OBVIOUS
      <3> QED BY <1>6, <3>1, ObjectUpdates DEF OtherWrite, TypeOK
    <2> QED BY <1>6, <2>1, TypeBudget DEF OtherWrite, TypeOK
  <1>7. CASE Restart
    BY <1>7, TypeForget, TypeBudget DEF Restart, TypeOK
  <1> QED BY <1>1, <1>2, <1>3, <1>4, <1>5, <1>6, <1>7 DEF ClusterStep

-----------------------------------------------------------------------------
(* What has ended stays as it is *)

\* A TaskRun that has failed does not change any more, and nothing of a failed
\* PipelineRun does.
LEMMA FailedIsFinal ==
    ASSUME TypeOK, EndsAreFinal, ClusterStep
    PROVE  /\ \A t \in Tasks : taskRuns[t].condition = "False" => taskRuns'[t] = taskRuns[t]
           /\ pr.condition = "False" => taskRuns' = taskRuns /\ pr' = pr
           /\ smooth' = smooth
  <1> USE DEF pipelineVars, cacheVars, workerVars
  <1>1. CASE PipelineRunStarts \/ PipelineRunEnds
    BY <1>1 DEF PipelineRunStarts, PipelineRunEnds
  <1>2. CASE CreateTaskRun
    <2>1. \A t \in Tasks : t <= pr.children => taskRuns'[t] = taskRuns[t]
      BY <1>2, Constants DEF CreateTaskRun, TypeOK, PipelineRunObjects, Tasks
    <2> QED BY <1>2, <2>1 DEF CreateTaskRun, EndsAreFinal
  <1>3. ASSUME NEW t \in Tasks, TaskRunEnds(t)
        PROVE  /\ \A u \in Tasks : taskRuns[u].condition = "False" => taskRuns'[u] = taskRuns[u]
               /\ pr.condition # "False"
               /\ smooth' = smooth
    BY <1>3 DEF TaskRunEnds, EndsAreFinal, TypeOK
  <1>4. ASSUME NEW t \in Tasks, SyncTaskRun(t)
        PROVE  UNCHANGED <<taskRuns, pr, smooth>>
    BY <1>4 DEF SyncTaskRun
  <1>5. CASE SyncPipelineRun \/ SyncDeployment \/ OtherWrite \/ Restart
    BY <1>5 DEF SyncPipelineRun, SyncDeployment, OtherWrite, Restart
  <1> QED BY <1>1, <1>2, <1>3, <1>4, <1>5 DEF ClusterStep

\* EndsAreFinal is kept by every step.
LEMMA EndsController == EndsAreFinal /\ ControllerStep => EndsAreFinal'
  <1> SUFFICES ASSUME EndsAreFinal, ControllerStep
               PROVE  EndsAreFinal'
    OBVIOUS
  <1>1. UNCHANGED <<taskRuns, taskCache, pr, prCache, smooth>>
    BY DEF ControllerStep, Reconcile, CredentialsFail, GetPipelineRun, GetTaskRun,
           WalkStep, EndTaskRun, EndWalk, WriteStatus, pipelineVars, cacheVars
  <1> QED BY <1>1 DEF EndsAreFinal

LEMMA EndsCluster == TypeOK /\ EndsAreFinal /\ ClusterStep => EndsAreFinal'
  <1> SUFFICES ASSUME TypeOK, EndsAreFinal, ClusterStep
               PROVE  EndsAreFinal'
    OBVIOUS
  <1> USE DEF pipelineVars, cacheVars, workerVars
  <1>f. /\ \A t \in Tasks : taskRuns[t].condition = "False" => taskRuns'[t] = taskRuns[t]
        /\ pr.condition = "False" => taskRuns' = taskRuns /\ pr' = pr
        /\ smooth' = smooth
    BY FailedIsFinal
  <1>1. CASE PipelineRunStarts \/ PipelineRunEnds
    <2>1. \A t \in Tasks : taskRuns[t].condition # "Unknown" \/ pr'.condition # "False"
      BY <1>1 DEF PipelineRunStarts, PipelineRunEnds, TypeOK, PipelineRunObjects
    <2>2. pr'.children = pr.children
      BY <1>1 DEF PipelineRunStarts, PipelineRunEnds, TypeOK, PipelineRunObjects
    <2> QED BY <1>1, <1>f, <2>1, <2>2
            DEF PipelineRunStarts, PipelineRunEnds, EndsAreFinal
  <1>2. CASE CreateTaskRun
    <2>1. /\ pr'.children = pr.children + 1 /\ pr'.condition = "Unknown"
          /\ pr.children \in Nat
      BY <1>2 DEF CreateTaskRun, TypeOK, PipelineRunObjects
    <2>2. \A t \in Tasks :
            taskRuns'[t].condition # "nil" => taskRuns'[t].exists /\ t <= pr'.children
      <3>1. \A t \in Tasks :
              \/ taskRuns'[t] = taskRuns[t]
              \/ t = pr.children + 1 /\ taskRuns'[t].exists
        BY <1>2 DEF CreateTaskRun, NoTaskRun
      <3> QED BY <2>1, <3>1 DEF EndsAreFinal, Tasks
    <2> QED BY <1>2, <1>f, <2>1, <2>2 DEF CreateTaskRun, EndsAreFinal
  <1>3. ASSUME NEW t \in Tasks, TaskRunEnds(t)
        PROVE  EndsAreFinal'
    <2>1. pr.condition # "False"
      BY <1>3 DEF TaskRunEnds, EndsAreFinal
    <2>2. /\ taskRuns'[t].exists
          /\ taskRuns[t].condition = "Unknown"
          /\ \A u \in Tasks \ {t} : taskRuns'[u] = taskRuns[u]
      BY <1>3 DEF TaskRunEnds, TypeOK
    <2>3. UNCHANGED <<taskCache, pr, prCache, smooth>>
      BY <1>3 DEF TaskRunEnds
    <2> QED BY <1>f, <2>1, <2>2, <2>3 DEF EndsAreFinal
  <1>4. ASSUME NEW t \in Tasks, SyncTaskRun(t)
        PROVE  EndsAreFinal'
    <2>1. /\ taskCache'[t] = taskRuns[t]
          /\ \A u \in Tasks \ {t} : taskCache'[u] = taskCache[u]
          /\ taskCache = taskRuns => taskCache' = taskRuns
      BY <1>4 DEF SyncTaskRun, TypeOK
    <2>2. UNCHANGED <<taskRuns, pr, prCache, smooth>>
      BY <1>4 DEF SyncTaskRun
    <2> QED BY <2>1, <2>2 DEF EndsAreFinal
  <1>5. CASE SyncPipelineRun
    BY <1>5 DEF SyncPipelineRun, EndsAreFinal
  <1>6. CASE SyncDeployment \/ OtherWrite
    BY <1>6 DEF SyncDeployment, OtherWrite, EndsAreFinal
  <1>7. CASE Restart
    BY <1>7 DEF Restart, EndsAreFinal
  <1> QED BY <1>1, <1>2, <1>3, <1>4, <1>5, <1>6, <1>7 DEF ClusterStep

\* What the diagnostics tell stays true.
LEMMA TruthLasts ==
    ASSUME TypeOK, EndsAreFinal, ClusterStep, NEW d \in Seq(Entries), Real(d)
    PROVE  Real(d)'
  <1> SUFFICES ASSUME NEW i \in DOMAIN d, d[i].component = "Tekton"
               PROVE  /\ d[i].task \in Tasks
                      /\ taskRuns'[d[i].task].condition = "False"
                      /\ IF d[i].step = 0 THEN FailedSteps(d[i].task)' = {}
                                          ELSE d[i].step \in FailedSteps(d[i].task)'
    BY DEF Real, IsReal
  <1>1. /\ d[i].task \in Tasks
        /\ taskRuns[d[i].task].condition = "False"
        /\ IF d[i].step = 0 THEN FailedSteps(d[i].task) = {}
                            ELSE d[i].step \in FailedSteps(d[i].task)
    BY DEF Real, IsReal
  <1>2. taskRuns'[d[i].task] = taskRuns[d[i].task]
    BY <1>1, FailedIsFinal
  <1> QED BY <1>1, <1>2 DEF FailedSteps

\* A status that may be stored may still be stored later.
LEMMA StorableLasts ==
    ASSUME TypeOK, EndsAreFinal, ClusterStep, NEW o \in DeploymentObjects, Storable(o)
    PROVE  Storable(o)'
  <1>1. o.diagnostics \in Seq(Entries)
    BY DEF DeploymentObjects
  <1>2. Real(o.diagnostics)'
    BY <1>1, TruthLasts DEF Storable
  <1>3. (smooth /\ o.status.phase = "Failed")'
            => pr'.condition = "False" /\ TellsUpTo(o.diagnostics, NumTasks)'
    BY FailedIsFinal DEF Storable, TellsUpTo, Tells, FailedSteps
  <1> QED BY <1>2, <1>3 DEF Storable, ActiveIsEmpty, Once

-----------------------------------------------------------------------------
(* Appending an entry *)

LEMMA AppendEntry ==
    ASSUME NEW d \in Seq(Entries), NEW e \in Entries
    PROVE  /\ Append(d, e) \in Seq(Entries)
           /\ Append(d, e) # << >>
           /\ \E i \in DOMAIN Append(d, e) : Append(d, e)[i] = e
           /\ \A i \in DOMAIN d : i \in DOMAIN Append(d, e) /\ Append(d, e)[i] = d[i]
           /\ \A i \in DOMAIN Append(d, e) :
                 \/ i \in DOMAIN d /\ Append(d, e)[i] = d[i]
                 \/ i = Len(d) + 1 /\ i \notin DOMAIN d /\ Append(d, e)[i] = e
  <1>1. /\ Len(d) \in Nat /\ DOMAIN d = 1..Len(d)
        /\ DOMAIN Append(d, e) = 1..(Len(d) + 1)
        /\ Append(d, e)[Len(d) + 1] = e
        /\ \A i \in 1..Len(d) : Append(d, e)[i] = d[i]
        /\ Append(d, e) \in Seq(Entries)
    OBVIOUS
  <1> QED BY <1>1

\* A real entry that is not there yet keeps the diagnostics real and without
\* repetition, and they tell no less.
LEMMA AppendKeeps ==
    ASSUME NEW d \in Seq(Entries), NEW e \in Entries,
           Real(d), Once(d), IsReal(e), \A i \in DOMAIN d : d[i] # e
    PROVE  Real(Append(d, e)) /\ Once(Append(d, e))
  BY AppendEntry DEF Real, Once

LEMMA AppendTells ==
    ASSUME NEW d \in Seq(Entries), NEW e \in Entries, NEW t, Tells(d, t)
    PROVE  Tells(Append(d, e), t)
  BY AppendEntry DEF Tells

-----------------------------------------------------------------------------
(* The inductive invariant *)

LEMMA InitIInv == Init => IInv
  <1> SUFFICES ASSUME Init
               PROVE  IInv
    OBVIOUS
  <1>1. TypeOK
    BY TypeInit
  <1>2. EndsAreFinal
    BY DEF Init, EndsAreFinal, NoTaskRun
  <1>3. ActiveIsEmpty(cache) /\ ActiveIsEmpty(server)
    BY DEF Init, ActiveIsEmpty, NewDeployment
  <1>4. Storable(server)
    <2>0. server.diagnostics = << >> /\ server.status.phase = ""
      BY DEF Init, NewDeployment, NoStatus
    <2>1. DOMAIN server.diagnostics = {}
      <3>1. DOMAIN << >> = {}
        OBVIOUS
      <3> QED BY <2>0, <3>1, Zenon
    <2>2. server.status.phase # "Failed"
      BY <2>0
    <2> QED BY <1>3, <2>1, <2>2 DEF Storable, Real, Once
  <1> QED BY <1>1, <1>2, <1>3, <1>4 DEF IInv, Init, WalkInv, StepsInv

\* A step of the cluster leaves a reconcile under way where it is, with what it
\* has collected.
LEMMA WorkerCluster ==
    ASSUME IInv, ClusterStep, UNCHANGED workerVars
    PROVE  /\ WalkInv' /\ StepsInv'
           /\ (pc = "saveStatus" => Storable(obj))'
  <1>d. obj.diagnostics \in Seq(Entries) /\ obj \in DeploymentObjects
    BY DEF IInv, TypeOK, DeploymentObjects
  <1>u. /\ pc' = pc /\ obj' = obj /\ children' = children /\ at' = at /\ tr' = tr
        /\ step' = step
    BY DEF workerVars
  <1>f. /\ pr.condition = "False" => taskRuns' = taskRuns /\ pr' = pr
        /\ smooth' = smooth
    BY FailedIsFinal DEF IInv
  <1>1. ASSUME pc \in {"getTaskRun", "walkSteps"}
        PROVE  UNCHANGED <<taskRuns, prCache, smooth>>
    <2>1. prCache.condition = "False" /\ prCache = pr
      BY <1>1 DEF IInv, WalkInv, EndsAreFinal
    <2>2. prCache' = prCache
      <3>1. CASE SyncPipelineRun
        BY <2>1, <3>1 DEF SyncPipelineRun
      <3>2. CASE Restart
        BY <1>u, <1>1, <3>2 DEF Restart, Forget
      <3>3. CASE ~SyncPipelineRun /\ ~Restart
        BY <3>3 DEF ClusterStep, PipelineRunStarts, CreateTaskRun, PipelineRunEnds,
           TaskRunEnds, SyncTaskRun, SyncDeployment, OtherWrite, cacheVars
      <3> QED BY <3>1, <3>2, <3>3
    <2> QED BY <1>f, <2>1, <2>2
  <1>2. WalkInv'
    BY <1>u, <1>1 DEF IInv, WalkInv, Real, IsReal, Once, EntriesBefore, TellsUpTo, Tells,
                      FailedSteps
  <1>3. StepsInv'
    BY <1>u, <1>1 DEF IInv, StepsInv
  <1>4. (pc = "saveStatus" => Storable(obj))'
    <2>1. ASSUME pc = "saveStatus"
          PROVE  Storable(obj)'
      <3>1. Storable(obj)
        BY <2>1 DEF IInv
      <3>2. \A o \in DeploymentObjects : Storable(o) => Storable(o)'
        BY StorableLasts DEF IInv
      <3> QED BY <1>d, <1>u, <3>1, <3>2
    <2> QED BY <1>u, <2>1
  <1> QED BY <1>2, <1>3, <1>4

\* A step of the cluster keeps the invariant.
LEMMA ClusterIInv == IInv /\ ClusterStep => IInv'
  <1> SUFFICES ASSUME IInv, ClusterStep
               PROVE  IInv'
    OBVIOUS
  <1>1. TypeOK' /\ EndsAreFinal'
    BY TypeCluster, EndsCluster DEF IInv
  <1>2. \A o \in DeploymentObjects : Storable(o) => Storable(o)'
    BY StorableLasts DEF IInv
  <1>3. Storable(server)' /\ ActiveIsEmpty(cache)'
    <2>1. CASE UNCHANGED server
      <3>1. Storable(server)'
        BY <1>2, <2>1 DEF IInv, TypeOK
      <3>2. cache' \in {cache, server}
        BY <2>1 DEF ClusterStep, PipelineRunStarts, CreateTaskRun, PipelineRunEnds,
           TaskRunEnds, SyncTaskRun, SyncPipelineRun, SyncDeployment, OtherWrite, Restart,
           cacheVars
      <3> QED BY <2>1, <3>1, <3>2 DEF IInv, Storable, ActiveIsEmpty
    <2>2. CASE OtherWrite
      <3>1. << >> \in Seq(Entries)
        OBVIOUS
      <3>2. server'.status = server.status /\ server'.diagnostics = server.diagnostics
        BY <2>2, <3>1, ObjectUpdates DEF OtherWrite, IInv, TypeOK
      <3>3. UNCHANGED <<taskRuns, pr, smooth, cache>>
        BY <2>2 DEF OtherWrite, pipelineVars, cacheVars
      <3> QED BY <3>2, <3>3 DEF IInv, Storable, ActiveIsEmpty, Real, IsReal, Once, TellsUpTo,
                                Tells, FailedSteps
    <2> QED BY <2>1, <2>2 DEF ClusterStep, PipelineRunStarts, CreateTaskRun, PipelineRunEnds,
           TaskRunEnds, SyncTaskRun, SyncPipelineRun, SyncDeployment, Restart
  <1>4. CASE UNCHANGED workerVars
    <2>1. pc' = pc /\ obj' = obj /\ at' = at
      BY <1>4 DEF workerVars
    <2> QED BY <1>1, <1>3, <1>4, <2>1, WorkerCluster DEF IInv
  <1>5. CASE Restart
    <2>1. pc' = "idle" /\ at' = 1
      BY <1>5 DEF Restart, Forget
    <2> QED BY <1>1, <1>3, <2>1 DEF IInv, WalkInv, StepsInv
  <1> QED BY <1>4, <1>5 DEF ClusterStep, PipelineRunStarts, CreateTaskRun, PipelineRunEnds,
           TaskRunEnds, SyncTaskRun, SyncPipelineRun, SyncDeployment, OtherWrite

\* What every step of the operator leaves alone.
LEMMA ControllerLeaves ==
    ControllerStep => UNCHANGED <<taskRuns, taskCache, pr, prCache, cache, smooth>>
  BY DEF ControllerStep, Reconcile, CredentialsFail, GetPipelineRun, GetTaskRun,
         WalkStep, EndTaskRun, EndWalk, WriteStatus, pipelineVars, cacheVars

\* The steps of the walk keep what it has collected.
LEMMA WalkSteps ==
    ASSUME IInv, GetTaskRun \/ WalkStep \/ EndTaskRun
    PROVE  /\ WalkInv' /\ StepsInv'
           /\ pc' \in {"getTaskRun", "walkSteps"}
           /\ obj'.status = obj.status
  <1>c. UNCHANGED <<taskRuns, taskCache, pr, prCache, smooth>>
    BY ControllerLeaves DEF ControllerStep
  <1>o. obj \in DeploymentObjects /\ obj.diagnostics \in Seq(Entries)
    BY DEF IInv, TypeOK, DeploymentObjects
  <1>w. /\ pc \in {"getTaskRun", "walkSteps"}
        /\ prCache.condition = "False" /\ children = prCache.children /\ at <= children + 1
        /\ Real(obj.diagnostics) /\ Once(obj.diagnostics)
        /\ EntriesBefore(obj.diagnostics)
        /\ smooth => taskCache = taskRuns /\ TellsUpTo(obj.diagnostics, at - 1)
    BY DEF IInv, WalkInv, EndsAreFinal, GetTaskRun, WalkStep, EndTaskRun
  <1>n. at \in Nat \ {0} /\ children \in 0..NumTasks /\ NumTasks \in Nat /\ NumSteps \in Nat
        /\ step \in Nat \ {0}
    BY Constants DEF IInv, TypeOK
  <1>e. \A i \in DOMAIN obj.diagnostics :
          /\ obj.diagnostics[i] \in Entries
          /\ obj.diagnostics[i].task \in Nat /\ obj.diagnostics[i].step \in Nat
    <2>1. \A i \in DOMAIN obj.diagnostics : obj.diagnostics[i] \in Entries
      BY <1>o
    <2> QED BY <1>n, <2>1 DEF Entries
  <1>1. CASE GetTaskRun
    <2>1. /\ pc = "getTaskRun" /\ at <= children /\ at \in Tasks /\ obj' = obj
          /\ children' = children
      BY <1>1, <1>n DEF GetTaskRun, Tasks
    <2>2. CASE pc' = "walkSteps" /\ tr' = taskCache[at] /\ step' = 1 /\ at' = at
                 /\ taskCache[at].condition = "False"
      <3>1. tr' = taskRuns[at] /\ tr'.condition = "False"
        BY <2>1, <2>2 DEF IInv, EndsAreFinal
      <3>2. EntriesBefore(obj.diagnostics)'
        BY <1>w, <2>1, <2>2 DEF EntriesBefore
      <3>3. StepsInv'
        BY <1>c, <2>1, <2>2, <3>1 DEF StepsInv, StepsOf
      <3>4. WalkInv'
        BY <1>w, <1>c, <2>1, <2>2, <3>2 DEF WalkInv, Real, IsReal, Once, TellsUpTo, Tells,
                                          FailedSteps
      <3> QED BY <2>1, <2>2, <3>3, <3>4
    <2>3. CASE /\ at' = at + 1 /\ pc' = pc
               /\ smooth => taskCache[at].condition # "False"
      <3>1. EntriesBefore(obj.diagnostics)'
        BY <1>w, <1>n, <1>e, <2>1, <2>3 DEF EntriesBefore
      <3>2. (smooth => TellsUpTo(obj.diagnostics, at - 1))'
        BY <1>w, <1>n, <1>c, <2>1, <2>3 DEF TellsUpTo, Tells, FailedSteps
      <3>3. WalkInv'
        BY <1>w, <1>n, <1>c, <2>1, <2>3, <3>1, <3>2 DEF WalkInv, Real, IsReal, Once, FailedSteps
      <3> QED BY <2>1, <2>3, <3>3 DEF StepsInv
    <2>4. smooth /\ ~taskCache[at].exists => taskCache[at].condition # "False"
      BY <1>w, <2>1 DEF IInv, EndsAreFinal
    <2>5. smooth => ~Fault
      BY DEF Fault
    <2> QED BY <1>1, <2>2, <2>3, <2>4, <2>5 DEF GetTaskRun
  <1>2. CASE WalkStep
    <2>1. /\ pc = "walkSteps" /\ pc' = pc /\ at' = at /\ tr' = tr /\ children' = children
          /\ step' = step + 1 /\ step \in StepsOf
      BY <1>2, <1>n DEF WalkStep, StepsOf
    <2>2. at \in Tasks /\ at <= children /\ tr = taskRuns[at] /\ tr.condition = "False"
      BY <1>n, <2>1 DEF IInv, StepsInv, Tasks
    <2>3. CASE tr.steps[step] # "failed"
      <3>1. obj' = obj
        BY <1>2, <2>3 DEF WalkStep
      <3>2. EntriesBefore(obj.diagnostics)'
        BY <1>w, <1>n, <1>e, <2>1, <3>1 DEF EntriesBefore
      <3>3. StepsInv'
        BY <1>n, <1>c, <2>1, <2>2, <2>3, <3>1 DEF IInv, StepsInv, StepsOf
      <3>4. WalkInv'
        BY <1>w, <1>c, <2>1, <3>1, <3>2 DEF WalkInv, Real, IsReal, Once, TellsUpTo, Tells,
                                           FailedSteps
      <3> QED BY <2>1, <3>1, <3>3, <3>4
    <2>4. CASE tr.steps[step] = "failed"
      <3> DEFINE d == obj.diagnostics
                 e == StepEntry(at, step)
      <3>1. e \in Entries /\ e.component = "Tekton" /\ e.task = at /\ e.step = step
        BY <2>1, <2>2, Constants DEF StepEntry
      <3>2. IsReal(e)
        BY <2>1, <2>2, <2>4, <3>1, <1>n DEF IsReal, FailedSteps
      <3>3. \A i \in DOMAIN d : d[i] # e
        BY <1>w, <1>n, <1>e, <3>1 DEF EntriesBefore
      <3>4. /\ Append(d, e) \in Seq(Entries)
            /\ Real(Append(d, e)) /\ Once(Append(d, e))
        BY <1>o, <1>w, <3>1, <3>2, <3>3, AppendEntry, AppendKeeps
      <3>5. obj'.diagnostics = Append(d, e) /\ obj'.status = obj.status
        BY <1>2, <1>o, <2>4, <3>4, ObjectUpdates DEF WalkStep
      <3>6. \A i \in DOMAIN Append(d, e) :
               \/ i \in DOMAIN d /\ Append(d, e)[i] = d[i]
               \/ Append(d, e)[i] = e
        BY <1>o, <3>1, AppendEntry
      <3>7. EntriesBefore(obj.diagnostics)'
        <4>1. \A i \in DOMAIN Append(d, e) :
                /\ Append(d, e)[i].component = "Tekton"
                /\ \/ Append(d, e)[i].task < at
                   \/ /\ Append(d, e)[i].task = at
                      /\ 0 < Append(d, e)[i].step /\ Append(d, e)[i].step < step + 1
          BY <1>w, <1>n, <1>e, <3>1, <3>6 DEF EntriesBefore
        <4> QED BY <2>1, <3>5, <4>1 DEF EntriesBefore
      <3>8. StepsInv'
        <4>1. \A s \in StepsOf : s < step + 1 /\ tr.steps[s] = "failed" =>
                \E i \in DOMAIN Append(d, e) : Append(d, e)[i] = StepEntry(at, s)
          <5> SUFFICES ASSUME NEW s \in StepsOf, s < step + 1, tr.steps[s] = "failed"
                       PROVE  \E i \in DOMAIN Append(d, e) : Append(d, e)[i] = StepEntry(at, s)
            OBVIOUS
          <5>1. CASE s = step
            BY <1>o, <3>1, <5>1, AppendEntry
          <5>2. CASE s < step
            <6>1. PICK i \in DOMAIN d : d[i] = StepEntry(at, s)
              BY <2>1, <5>2 DEF IInv, StepsInv
            <6> QED BY <1>o, <3>1, <6>1, AppendEntry
          <5> QED BY <1>n, <5>1, <5>2 DEF StepsOf
        <4> QED BY <1>c, <2>1, <2>2, <3>5, <4>1 DEF StepsInv
      <3>9. (smooth => TellsUpTo(obj.diagnostics, at - 1))'
        <4>1. smooth => TellsUpTo(Append(d, e), at - 1)
          BY <1>w, <1>o, <3>1, AppendTells DEF TellsUpTo
        <4> QED BY <1>c, <2>1, <3>5, <4>1 DEF TellsUpTo, Tells, FailedSteps
      <3>10. Real(obj.diagnostics)' /\ Once(obj.diagnostics)'
        <4>1. PICK a : a = Append(d, e)
          OBVIOUS
        <4>2. Real(a) /\ Once(a) /\ obj'.diagnostics = a
          BY <3>4, <3>5, <4>1
        <4>3. Real(obj.diagnostics)'
          BY <1>c, <4>2 DEF Real, IsReal, FailedSteps
        <4>4. Once(obj.diagnostics)'
          BY <4>2 DEF Once
        <4> QED BY <4>3, <4>4
      <3>11. WalkInv'
        BY <1>w, <1>c, <2>1, <3>7, <3>9, <3>10 DEF WalkInv
      <3> QED BY <2>1, <3>5, <3>8, <3>11
    <2> QED BY <2>3, <2>4
  <1>3. CASE EndTaskRun
    <2>1. /\ pc = "walkSteps" /\ pc' = "getTaskRun" /\ at' = at + 1 /\ children' = children
          /\ step > NumSteps
      BY <1>3 DEF EndTaskRun
    <2>2. at \in Tasks /\ at <= children /\ tr = taskRuns[at] /\ tr.condition = "False"
      BY <1>n, <2>1 DEF IInv, StepsInv, Tasks
    <2>3. \A s \in FailedSteps(at) :
            \E i \in DOMAIN obj.diagnostics : obj.diagnostics[i] = StepEntry(at, s)
      BY <1>n, <2>1, <2>2 DEF IInv, StepsInv, FailedSteps, StepsOf
    <2>4. CASE obj.diagnostics # << >>
      <3>1. obj' = obj
        BY <1>3, <2>4 DEF EndTaskRun
      <3>2. EntriesBefore(obj.diagnostics)'
        BY <1>w, <1>n, <1>e, <2>1, <3>1 DEF EntriesBefore
      <3>3. Tells(obj.diagnostics, at)
        <4>1. 1 \in DOMAIN obj.diagnostics
          BY <1>o, <2>4
        <4>2. obj.diagnostics[1].task <= at
          BY <1>w, <1>n, <1>e, <4>1 DEF EntriesBefore
        <4> QED BY <2>3, <4>1, <4>2 DEF Tells
      <3>4. (smooth => TellsUpTo(obj.diagnostics, at - 1))'
        BY <1>w, <1>n, <1>c, <2>1, <3>1, <3>3 DEF TellsUpTo, Tells, FailedSteps
      <3>5. WalkInv'
        BY <1>w, <1>n, <1>c, <2>1, <2>2, <3>1, <3>2, <3>4
           DEF WalkInv, Real, IsReal, Once, FailedSteps
      <3> QED BY <2>1, <3>1, <3>5 DEF StepsInv
    <2>5. CASE obj.diagnostics = << >>
      <3> DEFINE e == TaskRunEntry(at)
      <3>1. e \in Entries /\ e.component = "Tekton" /\ e.task = at /\ e.step = 0
        BY <2>2, Constants DEF TaskRunEntry, StepEntry
      <3>2. FailedSteps(at) = {}
        <4>1. DOMAIN obj.diagnostics = {}
          BY <2>5
        <4> QED BY <2>3, <4>1
      <3>3. IsReal(e)
        BY <2>2, <3>1, <3>2 DEF IsReal
      <3>4. <<e>> \in Seq(Entries) /\ DOMAIN <<e>> = {1} /\ <<e>>[1] = e
        BY <3>1
      <3>5. obj'.diagnostics = <<e>> /\ obj'.status = obj.status
        BY <1>3, <1>o, <2>5, <3>4, ObjectUpdates DEF EndTaskRun
      <3>6. EntriesBefore(obj.diagnostics)'
        BY <1>n, <2>1, <3>1, <3>4, <3>5 DEF EntriesBefore
      <3>7. Real(obj.diagnostics)' /\ Once(obj.diagnostics)'
        BY <1>c, <3>3, <3>4, <3>5 DEF Real, IsReal, Once, FailedSteps
      <3>8. (smooth => TellsUpTo(obj.diagnostics, at - 1))'
        <4>1. ASSUME smooth, NEW t \in 1..at, taskRuns[t].condition = "False"
              PROVE  Tells(<<e>>, t)
          <5>1. CASE t = at
            BY <1>n, <3>1, <3>2, <3>4, <5>1 DEF Tells
          <5>2. CASE t # at
            <6>1. Tells(obj.diagnostics, t)
              BY <1>w, <1>n, <4>1, <5>2 DEF TellsUpTo
            <6>2. DOMAIN obj.diagnostics = {}
              BY <2>5
            <6>3. FALSE
              BY <6>1, <6>2 DEF Tells
            <6> QED BY <6>3
          <5> QED BY <5>1, <5>2
        <4>2. at' - 1 = at
          BY <1>n, <2>1
        <4> QED BY <1>c, <3>5, <4>1, <4>2 DEF TellsUpTo, Tells, FailedSteps
      <3>9. WalkInv'
        BY <1>w, <1>n, <1>c, <2>1, <2>2, <3>6, <3>7, <3>8 DEF WalkInv
      <3> QED BY <2>1, <3>5, <3>9 DEF StepsInv
    <2> QED BY <2>4, <2>5
  <1> QED BY <1>1, <1>2, <1>3

\* A step of the operator keeps the invariant.
LEMMA ControllerIInv == IInv /\ ControllerStep => IInv'
  <1> SUFFICES ASSUME IInv, ControllerStep
               PROVE  IInv'
    OBVIOUS
  <1>1. TypeOK' /\ EndsAreFinal'
    BY TypeController, EndsController DEF IInv
  <1>c. UNCHANGED <<taskRuns, taskCache, pr, prCache, cache, smooth>>
    BY ControllerLeaves
  <1>s. \A o \in DeploymentObjects : Storable(o) => Storable(o)'
    BY <1>c DEF Storable, ActiveIsEmpty, Real, IsReal, Once, TellsUpTo, Tells, FailedSteps
  <1>2. ActiveIsEmpty(cache)'
    BY <1>c DEF IInv, ActiveIsEmpty
  <1>o. /\ obj \in DeploymentObjects /\ obj.diagnostics \in Seq(Entries)
        /\ obj.status \in Statuses
    BY DEF IInv, TypeOK, DeploymentObjects
  <1>e. /\ <<OperatorEntry>> \in Seq(Entries) /\ DOMAIN <<OperatorEntry>> = {1}
        /\ <<OperatorEntry>>[1] = OperatorEntry /\ OperatorEntry.component = "Operator"
        /\ << >> \in Seq(Entries) /\ DOMAIN << >> = {}
    BY Constants DEF OperatorEntry
  <1>op. Real(<<OperatorEntry>>) /\ Once(<<OperatorEntry>>)
    BY <1>e DEF Real, IsReal, Once
  <1>em. Real(<< >>) /\ Once(<< >>)
    BY <1>e DEF Real, Once
  <1>r. /\ FailedStatus(obj.status, "CredentialError") \in Statuses
        /\ FailedStatus(obj.status, "CredentialError").phase = "Failed"
        /\ ConditionStatus(obj.status, "Unknown", "") \in Statuses
        /\ ConditionStatus(obj.status, "Unknown", "").phase = "Running"
        /\ ConditionStatus(obj.status, "True", "") \in Statuses
        /\ ConditionStatus(obj.status, "True", "").phase = "Succeeded"
        /\ ConditionStatus(obj.status, "False", "StepFailed") \in Statuses
        /\ ConditionStatus(obj.status, "False", "StepFailed").phase = "Failed"
        /\ ConditionStatus(obj.status, "False", obj.status.category) \in Statuses
        /\ ConditionStatus(obj.status, "False", obj.status.category).phase = "Failed"
    BY <1>o, Rewrites
  <1>sv. ASSUME NEW st \in Statuses, NEW d \in Seq(Entries), Save(st, d)
         PROVE  pc' = "saveStatus" /\ obj'.status = st /\ obj'.diagnostics = d
    BY <1>sv, TypeSave DEF IInv
  <1>3. ASSUME UNCHANGED server
        PROVE  Storable(server)'
    BY <1>s, <1>3 DEF IInv, TypeOK
  <1>4. ASSUME UNCHANGED server, pc' = "saveStatus", Storable(obj)'
        PROVE  IInv'
    BY <1>1, <1>2, <1>3, <1>4 DEF IInv, WalkInv, StepsInv
  <1>5. ASSUME UNCHANGED server, pc' = "idle", at' = 1
        PROVE  IInv'
    BY <1>1, <1>2, <1>3, <1>5 DEF IInv, WalkInv, StepsInv
  <1>6. CASE Reconcile
    <2>1. /\ UNCHANGED server /\ pc' = "getPipelineRun"
          /\ obj'.status.phase \notin TerminalPhases /\ obj'.diagnostics = << >>
          /\ at' = 1
      BY <1>6 DEF Reconcile, IInv, ActiveIsEmpty
    <2> QED BY <1>1, <1>2, <1>3, <2>1 DEF IInv, WalkInv, StepsInv
  <1>7. CASE CredentialsFail
    <2>1. /\ UNCHANGED server /\ pc' = "saveStatus"
          /\ obj'.status = FailedStatus(obj.status, "CredentialError")
          /\ obj'.diagnostics = <<OperatorEntry>>
      BY <1>7, <1>e, <1>r, <1>sv DEF CredentialsFail
    <2>2. obj'.status.phase = "Failed" /\ ~smooth
      BY <1>7, <1>r, <2>1 DEF CredentialsFail, Fault
    <2>3. Storable(obj)'
      BY <1>c, <1>op, <2>1, <2>2
         DEF Storable, ActiveIsEmpty, TerminalPhases, Real, IsReal, Once, FailedSteps
    <2> QED BY <1>4, <2>1, <2>3
  <1>8. CASE GetPipelineRun
    <2>1. UNCHANGED server /\ obj.diagnostics = << >>
      BY <1>8 DEF GetPipelineRun, IInv
    <2>2. CASE Forget
      BY <1>5, <2>1, <2>2 DEF Forget
    <2>3. CASE Save(ConditionStatus(obj.status, "Unknown", ""), obj.diagnostics)
      <3>1. /\ pc' = "saveStatus" /\ obj'.diagnostics = << >>
            /\ obj'.status.phase = "Running"
        BY <1>o, <1>r, <1>sv, <2>1, <2>3
      <3>2. Storable(obj)'
        BY <1>em, <3>1 DEF Storable, ActiveIsEmpty, Real, IsReal, Once
      <3> QED BY <1>4, <2>1, <3>1, <3>2
    <2>4. CASE Save(ConditionStatus(obj.status, "True", ""), << >>)
      <3>1. /\ pc' = "saveStatus" /\ obj'.diagnostics = << >>
            /\ obj'.status.phase = "Succeeded"
        BY <1>e, <1>r, <1>sv, <2>4
      <3>2. Storable(obj)'
        BY <1>em, <3>1 DEF Storable, ActiveIsEmpty, Real, IsReal, Once
      <3> QED BY <1>4, <2>1, <3>1, <3>2
    <2>5. CASE /\ prCache.condition = "False" /\ pc' = "getTaskRun"
               /\ children' = prCache.children
               /\ UNCHANGED <<obj, at, tr, step>>
      <3>1. /\ at' = 1 /\ obj' = obj /\ obj.status.phase \notin TerminalPhases
            /\ prCache.children \in Nat
        BY <1>8, <2>5 DEF GetPipelineRun, IInv, TypeOK, PipelineRunObjects
      <3>2. /\ Real(obj.diagnostics)' /\ Once(obj.diagnostics)'
            /\ EntriesBefore(obj.diagnostics)'
        BY <1>e, <2>1, <3>1 DEF Real, Once, EntriesBefore
      <3>3. TellsUpTo(obj.diagnostics, at - 1)'
        BY <3>1 DEF TellsUpTo
      <3>4. WalkInv' /\ StepsInv'
        BY <1>c, <2>5, <3>1, <3>2, <3>3 DEF WalkInv, StepsInv
      <3> QED BY <1>1, <1>2, <1>3, <2>1, <2>5, <3>1, <3>4 DEF IInv
    <2>6. CASE /\ Fault
               /\ Save(ConditionStatus(obj.status, "False", obj.status.category),
                       Append(obj.diagnostics, OperatorEntry))
      <3>1. Append(obj.diagnostics, OperatorEntry) = <<OperatorEntry>>
        BY <2>1
      <3>2. /\ pc' = "saveStatus" /\ obj'.diagnostics = <<OperatorEntry>>
            /\ obj'.status.phase = "Failed"
        BY <1>e, <1>r, <1>sv, <2>6, <3>1
      <3>3. ~smooth
        BY <2>6 DEF Fault
      <3>4. Storable(obj)'
        BY <1>c, <1>op, <3>2, <3>3
           DEF Storable, ActiveIsEmpty, TerminalPhases, Real, IsReal, Once, FailedSteps
      <3> QED BY <1>4, <2>1, <3>2, <3>4
    <2> QED BY <1>8, <2>2, <2>3, <2>4, <2>5, <2>6 DEF GetPipelineRun
  <1>9. CASE GetTaskRun \/ WalkStep \/ EndTaskRun
    <2>1. UNCHANGED server /\ obj.status.phase \notin TerminalPhases
      BY <1>9 DEF GetTaskRun, WalkStep, EndTaskRun, IInv
    <2>2. /\ WalkInv' /\ StepsInv' /\ pc' \in {"getTaskRun", "walkSteps"}
          /\ obj'.status = obj.status
      BY <1>9, WalkSteps
    <2> QED BY <1>1, <1>2, <1>3, <2>1, <2>2 DEF IInv
  <1>10. CASE EndWalk
    <2>1. /\ UNCHANGED server /\ pc' = "saveStatus" /\ pc = "getTaskRun" /\ at > children
          /\ obj'.diagnostics = obj.diagnostics
          /\ obj'.status.phase = "Failed"
      BY <1>10, <1>o, <1>r, <1>sv DEF EndWalk
    <2>2. /\ Real(obj.diagnostics) /\ Once(obj.diagnostics) /\ prCache = pr
          /\ pr.condition = "False" /\ children = pr.children /\ at = children + 1
          /\ smooth => TellsUpTo(obj.diagnostics, at - 1)
      BY <2>1 DEF IInv, WalkInv, EndsAreFinal, TypeOK
    <2>3. smooth => TellsUpTo(obj.diagnostics, NumTasks)
      <3>1. \A t \in 1..NumTasks : taskRuns[t].condition = "False" => t \in 1..(at - 1)
        BY <2>2 DEF IInv, EndsAreFinal, TypeOK, PipelineRunObjects, Tasks
      <3> QED BY <2>2, <3>1 DEF TellsUpTo
    <2>4. Storable(obj)'
      BY <1>c, <2>1, <2>2, <2>3
         DEF Storable, ActiveIsEmpty, TerminalPhases, Real, IsReal, Once, FailedSteps,
             TellsUpTo, Tells
    <2> QED BY <1>4, <2>1, <2>4
  <1>11. CASE WriteStatus
    <2>1. pc' = "idle" /\ at' = 1 /\ Storable(obj)
      BY <1>11 DEF WriteStatus, Forget, IInv
    <2>2. CASE UNCHANGED server
      BY <1>5, <2>1, <2>2
    <2>3. CASE server' = [obj EXCEPT !.rv = @ + 1]
      <3>1. server'.status = obj.status /\ server'.diagnostics = obj.diagnostics
        BY <1>o, <1>e, <2>3, ObjectUpdates
      <3>2. Storable(server)'
        BY <1>c, <2>1, <3>1
           DEF Storable, ActiveIsEmpty, Real, IsReal, Once, TellsUpTo, Tells, FailedSteps
      <3> QED BY <1>1, <1>2, <2>1, <3>2 DEF IInv, WalkInv, StepsInv
    <2> QED BY <1>11, <2>2, <2>3 DEF WriteStatus
  <1> QED BY <1>6, <1>7, <1>8, <1>9, <1>10, <1>11 DEF ControllerStep

-----------------------------------------------------------------------------
(* Theorems *)

\* For any pipeline and any faults, what a walk has collected is true and without
\* repetition at every step of it.
THEOREM DiagnosticsInvariant == Spec => []IInv
  <1>1. IInv /\ [Next]_vars => IInv'
    <2> SUFFICES ASSUME IInv, [Next]_vars
                 PROVE  IInv'
      OBVIOUS
    <2>1. CASE Next
      BY <2>1, ControllerIInv, ClusterIInv DEF Next
    <2>2. CASE UNCHANGED vars
      <3> USE <2>2 DEF vars, pipelineVars, cacheVars, workerVars
      <3>1. TypeOK' /\ EndsAreFinal' /\ ActiveIsEmpty(cache)'
        BY DEF IInv, TypeOK, EndsAreFinal, ActiveIsEmpty
      <3>2. WalkInv' = WalkInv
        BY DEF WalkInv, EntriesBefore, Real, IsReal, Once, TellsUpTo, Tells, FailedSteps
      <3>3. StepsInv' = StepsInv
        BY DEF StepsInv
      <3>4. Storable(obj)' = Storable(obj) /\ Storable(server)' = Storable(server)
        BY DEF Storable, ActiveIsEmpty, Real, IsReal, Once, TellsUpTo, Tells, FailedSteps
      <3> QED BY <3>1, <3>2, <3>3, <3>4 DEF IInv
    <2> QED BY <2>1, <2>2
  <1> QED BY InitIInv, <1>1, PTL DEF Spec

\* For any pipeline, however the caches lag and updates are refused, the
\* collector stores no entry about a failure that did not happen.
THEOREM StoredEntriesAreReal == Spec => []EntriesAreReal
  <1>1. IInv => EntriesAreReal
    BY DEF IInv, Storable, EntriesAreReal
  <1> QED BY <1>1, DiagnosticsInvariant, PTL

\* For any number of refused updates and restarts, no step is reported twice.
THEOREM StepsAreReportedOnce == Spec => []ReportedOnce
  <1>1. IInv => ReportedOnce
    BY DEF IInv, Storable, ReportedOnce
  <1> QED BY <1>1, DiagnosticsInvariant, PTL

\* Without failed calls and with the TaskRun cache in step, every failed TaskRun
\* of any pipeline is accounted for.
THEOREM FailuresAreExplained == Spec => []Explained
  <1>1. IInv => Explained
    BY DEF IInv, Storable, Explained
  <1> QED BY <1>1, DiagnosticsInvariant, PTL

-----------------------------------------------------------------------------
(* A stored report is final *)

\* A version number stands for one version of the Deployment, and the copy a
\* reconcile works on is of no version that has an outcome.
VersionsInv ==
    /\ cache.rv <= server.rv
    /\ cache.rv = server.rv => cache = server
    /\ pc # "idle" =>
          /\ obj.rv <= server.rv
          /\ obj.rv = server.rv => server.status.phase \notin TerminalPhases

LEMMA VersionNumbers ==
    TypeOK => cache.rv \in Nat /\ server.rv \in Nat /\ obj.rv \in Nat
  BY DEF TypeOK, DeploymentObjects

\* The reconcile works on one version from the read of the cache to the write.
LEMMA CopyKeepsVersion ==
    ASSUME TypeOK,
           CredentialsFail \/ GetPipelineRun \/ GetTaskRun \/ WalkStep \/ EndTaskRun
             \/ EndWalk
    PROVE  /\ UNCHANGED <<server, cache>>
           /\ pc # "idle"
           /\ pc' # "idle" => obj'.rv = obj.rv
  <1> USE DEF cacheVars
  <1>s. ASSUME NEW st, NEW d, Save(st, d)
        PROVE  obj'.rv = obj.rv
    BY <1>s DEF Save, TypeOK, DeploymentObjects
  <1>1. CASE CredentialsFail
    BY <1>1, <1>s DEF CredentialsFail
  <1>2. CASE GetPipelineRun
    BY <1>2, <1>s DEF GetPipelineRun, Forget
  <1>3. CASE GetTaskRun
    BY <1>3 DEF GetTaskRun
  <1>4. CASE WalkStep \/ EndTaskRun
    <2>1. \A d : [obj EXCEPT !.diagnostics = d].rv = obj.rv
      BY DEF TypeOK, DeploymentObjects
    <2>2. obj' = obj \/ \E d : obj' = [obj EXCEPT !.diagnostics = d]
      BY <1>4 DEF WalkStep, EndTaskRun
    <2> QED BY <1>4, <2>1, <2>2 DEF WalkStep, EndTaskRun
  <1>5. CASE EndWalk
    BY <1>5, <1>s DEF EndWalk
  <1> QED BY <1>1, <1>2, <1>3, <1>4, <1>5

\* The write is refused unless the copy is of the version stored, and makes a new
\* version unless it changes nothing.
LEMMA WriteMakesVersion ==
    ASSUME TypeOK, WriteStatus
    PROVE  /\ pc = "saveStatus" /\ pc' = "idle" /\ cache' = cache
           /\ \/ server' = server
              \/ obj.rv = server.rv /\ server'.rv = server.rv + 1
  <1>1. [obj EXCEPT !.rv = @ + 1].rv = obj.rv + 1
    BY DEF TypeOK, DeploymentObjects
  <1> QED BY <1>1 DEF WriteStatus, Forget, cacheVars

LEMMA OtherWriteMakesVersion ==
    ASSUME TypeOK, OtherWrite
    PROVE  /\ server'.rv = server.rv + 1
           /\ server'.status = server.status /\ server'.diagnostics = server.diagnostics
           /\ UNCHANGED <<cache, pc, obj>>
  BY DEF OtherWrite, TypeOK, DeploymentObjects, cacheVars, workerVars

\* What steps of the cluster other than that leave alone.
LEMMA ClusterLeaves ==
    ASSUME ClusterStep, ~OtherWrite
    PROVE  /\ server' = server
           /\ \/ UNCHANGED <<cache, pc, obj>>
              \/ cache' = server /\ UNCHANGED <<pc, obj>>
              \/ cache' = server /\ pc' = "idle"
  BY DEF ClusterStep, PipelineRunStarts, CreateTaskRun, PipelineRunEnds, TaskRunEnds,
         SyncTaskRun, SyncPipelineRun, SyncDeployment, Restart, Forget, cacheVars,
         workerVars

LEMMA VersionsKept == IInv /\ VersionsInv /\ [Next]_vars => VersionsInv'
  <1> SUFFICES ASSUME IInv, VersionsInv, [Next]_vars
               PROVE  VersionsInv'
    OBVIOUS
  <1>n. TypeOK /\ cache.rv \in Nat /\ server.rv \in Nat /\ obj.rv \in Nat
    BY VersionNumbers DEF IInv
  <1>1. CASE Reconcile
    BY <1>1, <1>n DEF Reconcile, VersionsInv, cacheVars
  <1>2. CASE CredentialsFail \/ GetPipelineRun \/ GetTaskRun \/ WalkStep
               \/ EndTaskRun \/ EndWalk
    BY <1>2, <1>n, CopyKeepsVersion DEF VersionsInv
  <1>3. CASE WriteStatus
    BY <1>3, <1>n, WriteMakesVersion DEF VersionsInv
  <1>4. CASE OtherWrite
    BY <1>4, <1>n, OtherWriteMakesVersion DEF VersionsInv
  <1>5. CASE ClusterStep /\ ~OtherWrite
    BY <1>5, <1>n, ClusterLeaves DEF VersionsInv
  <1>6. CASE UNCHANGED vars
    BY <1>6 DEF vars, VersionsInv, cacheVars, workerVars
  <1> QED BY <1>1, <1>2, <1>3, <1>4, <1>5, <1>6 DEF Next, ControllerStep

\* For any pipeline, faults and foreign writes: once a status with an outcome is
\* stored, neither it nor its diagnostics are written again, although reconciles
\* go on from older versions.
THEOREM ReportsAreFinal == Spec => ReportIsFinal
  <1>1. Init => VersionsInv
    BY DEF Init, NewDeployment, VersionsInv
  <1>2. IInv /\ VersionsInv /\ [Next]_vars
          => [server.status.phase \in TerminalPhases =>
                /\ server'.status = server.status
                /\ server'.diagnostics = server.diagnostics]_vars
    <2> SUFFICES ASSUME IInv, VersionsInv, Next, server.status.phase \in TerminalPhases
                 PROVE  /\ server'.status = server.status
                        /\ server'.diagnostics = server.diagnostics
      OBVIOUS
    <2>n. TypeOK
      BY DEF IInv
    <2>1. CASE ControllerStep
      <3>1. CASE WriteStatus
        BY <2>n, <3>1, WriteMakesVersion DEF VersionsInv
      <3>2. CASE ~WriteStatus
        BY <2>1, <2>n, <3>2, CopyKeepsVersion DEF ControllerStep, Reconcile
      <3> QED BY <3>1, <3>2
    <2>2. CASE OtherWrite
      BY <2>n, <2>2, OtherWriteMakesVersion
    <2>3. CASE ClusterStep /\ ~OtherWrite
      BY <2>3, ClusterLeaves
    <2> QED BY <2>1, <2>2, <2>3 DEF Next
  <1> QED BY <1>1, <1>2, VersionsKept, DiagnosticsInvariant, PTL
          DEF Spec, ReportIsFinal

=============================================================================
