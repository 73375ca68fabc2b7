--------------------- MODULE DeploymentController_proofs ---------------------
(***************************************************************************)
(* Proofs about DeploymentController for every set of Deployments, every   *)
(* number of workers and every budget of faults, restarts, edits and       *)
(* resyncs.                                                                *)
(***************************************************************************)
EXTENDS DeploymentController, TLAPS

-----------------------------------------------------------------------------
(* Types *)

\* The names Jobs and PipelineRuns get, from the file or generated, are runs.
LEMMA RunNamesAreRuns ==
    \A d \in Deployments : JobOf[d] \in Runs /\ PipelineRunsOf(d) \subseteq Runs
  BY ConstantsAssumption DEF PipelineRunsOf

\* The rewrites of a status produce statuses.
LEMMA StatusTypes ==
    ASSUME NEW st \in Statuses, NEW category \in FailureCategories,
           NEW run \in Runs \cup {NoRun}, NEW state \in {"running", "succeeded", "failed"}
    PROVE  /\ FailedStatus(st, category) \in Statuses
           /\ ConditionStatus(st, ConditionOf(state), category) \in Statuses
           /\ ConditionStatus(st, "True", "") \in Statuses
           /\ ConditionStatus(st, "False", "") \in Statuses
           /\ LaunchedStatus(st, run) \in Statuses
           /\ PostDeploymentStatus(st) \in Statuses
  <1>1. ASSUME NEW c \in FailureCategories
        PROVE  /\ ConditionStatus(st, "True", c) \in Statuses
               /\ ConditionStatus(st, "False", c) \in Statuses
               /\ ConditionStatus(st, "Unknown", c) \in Statuses
    <2>1. /\ ConditionStatus(st, "True", c) =
                [st EXCEPT !.phase = "Succeeded", !.message = "completed", !.category = ""]
          /\ ConditionStatus(st, "False", c) =
                [st EXCEPT !.phase = "Failed", !.message = "failure", !.category = c]
          /\ ConditionStatus(st, "Unknown", c) =
                [st EXCEPT !.phase = "Running", !.message = "progress"]
      BY DEF ConditionStatus
    <2>2. /\ {"Succeeded", "Failed", "Running"} \subseteq Phases
          /\ {"completed", "failure", "progress"} \subseteq Messages
          /\ "" \in FailureCategories
      BY DEF Phases, Messages, FailureCategories
    <2> QED BY <1>1, <2>1, <2>2 DEF Statuses
  <1>2. ConditionOf(state) \in {"True", "False", "Unknown"} /\ "" \in FailureCategories
    BY DEF ConditionOf, FailureCategories
  <1>3. FailedStatus(st, category) \in Statuses
    BY DEF FailedStatus, Statuses, Phases, Messages
  <1>4. LaunchedStatus(st, run) \in Statuses /\ PostDeploymentStatus(st) \in Statuses
    BY DEF LaunchedStatus, PostDeploymentStatus, Statuses, Messages
  <1> QED BY <1>1, <1>2, <1>3, <1>4

\* So do the objects the API server is given.
LEMMA ObjectTypes ==
    ASSUME NEW d \in Deployments
    PROVE  /\ NoStatus \in Statuses
           /\ Nobody(d) \in Owners
           /\ NoObject(d) \in Objects
  <1>1. NoStatus \in Statuses
    BY DEF NoStatus, Statuses, Phases, Messages, FailureCategories
  <1>2. Nobody(d) \in Owners
    BY DEF Nobody, Owners
  <1>3. NoObject(d) \in Objects
    BY <1>1, <1>2 DEF NoObject, Objects
  <1> QED BY <1>1, <1>2, <1>3

\* A created object, and what remains of a removed one, are objects.
LEMMA NewObjectTypes ==
    ASSUME TypeOK, NEW d \in Deployments, NEW owner \in Owners
    PROVE  /\ Removed(d) \in Objects
           /\ NewObject(d, owner) \in Objects
           /\ \A e \in Deployments : Self(e, local[e]) \in Owners
  <1>1. server[d].uid \in Nat
    BY DEF TypeOK, Objects
  <1>2. Removed(d) \in Objects
    BY <1>1, ObjectTypes DEF Removed, Objects
  <1>3. server[d].rv \in Nat /\ (d \in Ansible) \in BOOLEAN
    BY DEF TypeOK, Objects
  <1>4. NewObject(d, owner) \in Objects
    BY <1>1, <1>3, ObjectTypes DEF NewObject, Objects
  <1>5. ASSUME NEW e \in Deployments
        PROVE  Self(e, local[e]) \in Owners
    BY DEF TypeOK, Objects, Self, Owners
  <1> QED BY <1>2, <1>4, <1>5

\* Storing an object keeps the types of server, cache and watch.
LEMMA StoreType ==
    ASSUME TypeOK, NEW d \in Deployments, NEW o \in Objects, Store(d, o)
    PROVE  /\ server' \in [Deployments -> Objects]
           /\ cache' \in [Deployments -> Objects]
           /\ watch' \in [Deployments -> SUBSET Objects]
  <1> DEFINE stored == [o EXCEPT !.rv = server[d].rv + 1]
  <1>0. server[d].rv + 1 \in Nat
    BY DEF TypeOK, Objects
  <1>1. stored \in Objects
    BY <1>0 DEF Objects
  <1>2. /\ server' = [server EXCEPT ![d] = stored]
        /\ watch' = [watch EXCEPT ![d] = @ \cup {stored}]
        /\ cache' = cache
    BY DEF Store
  <1> QED BY <1>1, <1>2 DEF TypeOK

\* So does an accepted Update.
LEMMA UpdateType ==
    ASSUME TypeOK, NEW d \in Deployments, NEW o \in Objects, Update(d, o)
    PROVE  /\ server' \in [Deployments -> Objects]
           /\ cache' \in [Deployments -> Objects]
           /\ watch' \in [Deployments -> SUBSET Objects]
  <1>1. CASE Store(d, o)
    BY <1>1, StoreType
  <1>2. CASE UNCHANGED objectVars
    BY <1>2 DEF TypeOK, objectVars
  <1> QED BY <1>1, <1>2 DEF Update

\* Moving to a step, preparing a status write and returning keep the types
\* of the worker state.
LEMMA ControlTypes ==
    ASSUME TypeOK, NEW d \in Deployments, NEW st \in Statuses, NEW step \in Steps,
           NEW requeue \in BOOLEAN,
           Goto(d, step) \/ SaveStatus(d, st) \/ Finish(d, requeue)
    PROVE  /\ queue' \subseteq Deployments
           /\ pc' \in [Deployments -> Steps]
           /\ local' \in [Deployments -> Objects]
           /\ todo' \in [Deployments -> Statuses]
  BY ObjectTypes DEF TypeOK, Goto, SaveStatus, Finish, Steps

\* Spending, or not spending, keeps the type of the budget.
LEMMA BudgetType ==
    ASSUME TypeOK, NEW what \in BudgetItems, Spend(what) \/ UNCHANGED budget
    PROVE  budget' \in [BudgetItems -> Nat]
  BY DEF TypeOK, Spend, BudgetItems

\* Writing a banner keeps its type, and that of its cache.
LEMMA BannerType ==
    ASSUME TypeOK, NEW b, NEW spec \in SUBSET BannerSpecs, PutBanner(b, spec)
    PROVE  /\ banner' \in [Banners -> SUBSET BannerSpecs]
           /\ bannerCache' \in [Banners -> [spec : SUBSET BannerSpecs, current : BOOLEAN]]
  <1> DEFINE C == [spec : SUBSET BannerSpecs, current : BOOLEAN]
             same == bannerCache[b].current /\ spec = banner[b]
             new == [bannerCache[b] EXCEPT !.current = same]
  <1>1. banner \in [Banners -> SUBSET BannerSpecs] /\ bannerCache \in [Banners -> C]
    BY DEF TypeOK
  <1>2. banner' = [banner EXCEPT ![b] = spec]
    BY DEF PutBanner
  <1>3. bannerCache' = [bannerCache EXCEPT ![b] = new]
    BY DEF PutBanner
  <1>4. same \in BOOLEAN
    OBVIOUS
  <1> HIDE DEF same
  <1>5. b \in Banners => new \in C
    BY <1>1, <1>4
  <1> HIDE DEF new, C
  <1>6. bannerCache' \in [Banners -> C]
    BY <1>1, <1>3, <1>5
  <1> QED BY <1>1, <1>2, <1>6 DEF C

\* A step of a reconcile keeps the types.
LEMMA ReconcileType ==
    ASSUME TypeOK, NEW d \in Deployments, StepKnows(d), ReconcileStep(d)
    PROVE  TypeOK'
  <1> USE ConstantsAssumption
  <1>0. /\ local[d] \in Objects /\ local[d].status \in Statuses
        /\ cache[d] \in Objects /\ todo[d] \in Statuses
    BY DEF TypeOK, Objects
  <1>s. /\ "idle" \in Steps /\ "removeFinalizer" \in Steps /\ "clone" \in Steps
        /\ "job" \in Steps /\ "tekton" \in Steps /\ "savePostMessage" \in Steps
        /\ "credentials" \in Steps /\ "createChild" \in Steps
    BY DEF Steps
  <1>c. /\ "" \in FailureCategories /\ "StepFailed" \in FailureCategories
        /\ "CredentialError" \in FailureCategories /\ "CloneError" \in FailureCategories
    BY DEF FailureCategories
  <1>b. "fault" \in BudgetItems
    BY DEF BudgetItems
  <1>1. CASE Reconcile(d)
    <2>1. FirstStep(cache[d]) \in Steps
      <3>1. /\ cache[d].live \in BOOLEAN /\ cache[d].deleting \in BOOLEAN
            /\ cache[d].finalizer \in BOOLEAN
        BY <1>0 DEF Objects
      <3> QED BY <3>1 DEF FirstStep, Steps
    <2>2. local' \in [Deployments -> Objects]
      <3>1. NoObject(d) \in Objects
        BY ObjectTypes
      <3> QED BY <1>1, <1>0, <3>1 DEF Reconcile, TypeOK
    <2>3. /\ pc' \in [Deployments -> Steps] /\ queue' \subseteq Deployments
      BY <1>1, <2>1 DEF Reconcile, TypeOK
    <2> QED BY <1>1, <2>2, <2>3
            DEF Reconcile, TypeOK, objectVars, runVars, bannerVars
  <1>2. CASE DeleteConsoleNotification(d)
    <2>1. budget' \in [BudgetItems -> Nat]
      BY <1>2, <1>b, BudgetType DEF DeleteConsoleNotification, Fault, NoFault
    <2>2. /\ banner' \in [Banners -> SUBSET BannerSpecs]
          /\ bannerCache' \in [Banners -> [spec : SUBSET BannerSpecs, current : BOOLEAN]]
      <3>1. CASE UNCHANGED bannerVars
        BY <3>1 DEF TypeOK, bannerVars
      <3>2. CASE PutBanner(BannerOf[d], {})
        BY <3>2, BannerType
      <3> QED BY <1>2, <3>1, <3>2 DEF DeleteConsoleNotification
    <2>3. Goto(d, "removeFinalizer") \/ Finish(d, TRUE)
      BY <1>2 DEF DeleteConsoleNotification
    <2>4. UNCHANGED <<objectVars, runVars>>
      BY <1>2 DEF DeleteConsoleNotification
    <2> QED BY <1>0, <1>s, <2>1, <2>2, <2>3, <2>4, ControlTypes
            DEF TypeOK, objectVars, runVars
  <1>3. CASE RemoveFinalizer(d)
    <2>1. budget' \in [BudgetItems -> Nat]
      BY <1>3, <1>b, BudgetType DEF RemoveFinalizer, Fault, NoFault
    <2>2. /\ server' \in [Deployments -> Objects]
          /\ cache' \in [Deployments -> Objects]
          /\ watch' \in [Deployments -> SUBSET Objects]
      <3>1. CASE Store(d, Removed(d))
        BY <3>1, ObjectTypes, NewObjectTypes, StoreType
      <3>2. CASE UNCHANGED objectVars
        BY <3>2 DEF TypeOK, objectVars
      <3> QED BY <1>3, <3>1, <3>2 DEF RemoveFinalizer
    <2>3. /\ queue' \subseteq Deployments
          /\ pc' \in [Deployments -> Steps]
          /\ local' \in [Deployments -> Objects]
          /\ todo' \in [Deployments -> Statuses]
      <3>1. Finish(d, TRUE) \/ Finish(d, FALSE)
        BY <1>3 DEF RemoveFinalizer
      <3> QED BY <3>1, <1>0, <1>s, ControlTypes
    <2>4. UNCHANGED <<runVars, bannerVars>>
      BY <1>3 DEF RemoveFinalizer
    <2> QED BY <2>1, <2>2, <2>3, <2>4 DEF TypeOK, runVars, bannerVars
  <1>4. CASE AddFinalizer(d)
    <2>1. budget' \in [BudgetItems -> Nat]
      BY <1>4, <1>b, BudgetType DEF AddFinalizer, Fault, NoFault
    <2>2. /\ server' \in [Deployments -> Objects]
          /\ cache' \in [Deployments -> Objects]
          /\ watch' \in [Deployments -> SUBSET Objects]
      <3>1. [local[d] EXCEPT !.finalizer = TRUE] \in Objects
        BY <1>0, StatusTypes, <1>c DEF Objects
      <3>2. CASE Update(d, [local[d] EXCEPT !.finalizer = TRUE])
        BY <3>1, <3>2, UpdateType
      <3>3. CASE UNCHANGED objectVars
        BY <3>3 DEF TypeOK, objectVars
      <3> QED BY <1>4, <3>2, <3>3 DEF AddFinalizer
    <2>3. /\ queue' \subseteq Deployments
          /\ pc' \in [Deployments -> Steps]
          /\ local' \in [Deployments -> Objects]
          /\ todo' \in [Deployments -> Statuses]
      <3>1. Finish(d, TRUE) \/ Finish(d, FALSE)
        BY <1>4 DEF AddFinalizer
      <3> QED BY <3>1, <1>0, <1>s, ControlTypes
    <2>4. UNCHANGED <<runVars, bannerVars>>
      BY <1>4 DEF AddFinalizer
    <2> QED BY <2>1, <2>2, <2>3, <2>4 DEF TypeOK, runVars, bannerVars
  <1>5. CASE ReconcileConsoleNotification(d)
    <2>1. budget' \in [BudgetItems -> Nat]
      BY <1>5, <1>b, BudgetType DEF ReconcileConsoleNotification, Fault, NoFault
    <2>2. /\ banner' \in [Banners -> SUBSET BannerSpecs]
          /\ bannerCache' \in [Banners -> [spec : SUBSET BannerSpecs, current : BOOLEAN]]
      <3>1. BuildNotification(d, local[d]) \in BannerSpecs
        BY <1>0 DEF BuildNotification, BannerSpecs, Statuses
      <3>2. CASE UNCHANGED bannerVars
        BY <3>2 DEF TypeOK, bannerVars
      <3>3. CASE PutBanner(BannerOf[d], {BuildNotification(d, local[d])})
        BY <3>1, <3>3, BannerType
      <3> QED BY <1>5, <3>2, <3>3 DEF ReconcileConsoleNotification
    <2>3. /\ queue' \subseteq Deployments
          /\ pc' \in [Deployments -> Steps]
          /\ local' \in [Deployments -> Objects]
          /\ todo' \in [Deployments -> Statuses]
      <3>1. SecondStep(d, local[d]) \in Steps
        BY <1>s DEF SecondStep
      <3>2. Finish(d, FALSE) \/ Goto(d, SecondStep(d, local[d]))
        BY <1>5 DEF ReconcileConsoleNotification
      <3> QED BY <3>1, <3>2, <1>0, ControlTypes
    <2>4. UNCHANGED <<objectVars, runVars>>
      BY <1>5 DEF ReconcileConsoleNotification
    <2> QED BY <2>1, <2>2, <2>3, <2>4 DEF TypeOK, objectVars, runVars
  <1>6. CASE GetGitHubPAT(d)
    <2>1. budget' \in [BudgetItems -> Nat]
      BY <1>6, <1>b, BudgetType DEF GetGitHubPAT, Fault, NoFault
    <2>2. /\ queue' \subseteq Deployments
          /\ pc' \in [Deployments -> Steps]
          /\ local' \in [Deployments -> Objects]
          /\ todo' \in [Deployments -> Statuses]
      <3>1. FailedStatus(local[d].status, "CredentialError") \in Statuses
        BY <1>0, <1>c, StatusTypes
      <3>2. \/ Goto(d, "clone")
            \/ SaveStatus(d, FailedStatus(local[d].status, "CredentialError"))
        BY <1>6 DEF GetGitHubPAT
      <3> QED BY <3>1, <3>2, <1>0, <1>s, ControlTypes
    <2>3. UNCHANGED <<objectVars, runVars, bannerVars>>
      BY <1>6 DEF GetGitHubPAT
    <2> QED BY <2>1, <2>2, <2>3 DEF TypeOK, objectVars, runVars, bannerVars
  <1>7. CASE Clone(d)
    <2>1. budget' \in [BudgetItems -> Nat]
      BY <1>7, <1>b, BudgetType DEF Clone, Fault, NoFault
    <2>2. /\ queue' \subseteq Deployments
          /\ pc' \in [Deployments -> Steps]
          /\ local' \in [Deployments -> Objects]
          /\ todo' \in [Deployments -> Statuses]
      <3>1. FailedStatus(local[d].status, "CloneError") \in Statuses
        BY <1>0, <1>c, StatusTypes
      <3>2. \/ Goto(d, "job")
            \/ Goto(d, "tekton")
            \/ SaveStatus(d, FailedStatus(local[d].status, "CloneError"))
        BY <1>7 DEF Clone
      <3> QED BY <3>1, <3>2, <1>0, <1>s, ControlTypes
    <2>3. UNCHANGED <<objectVars, runVars, bannerVars>>
      BY <1>7 DEF Clone
    <2> QED BY <2>1, <2>2, <2>3 DEF TypeOK, objectVars, runVars, bannerVars
  <1>8. CASE ReconcileJobResources(d)
    <2>1. budget' \in [BudgetItems -> Nat]
      BY <1>8, <1>b, BudgetType DEF ReconcileJobResources, Fault, NoFault
    <2>2. /\ runs' \in [Runs -> RunObjects]
          /\ runCache' \in [Runs -> RunObjects]
      <3>1. CASE UNCHANGED runVars
        BY <3>1 DEF TypeOK, runVars
      <3>2. CASE CreateRun(d, JobOf[d])
        <4>1. Self(d, local[d]) \in Owners
          BY <1>0 DEF Self, Owners, Objects
        <4> QED BY <3>2, <4>1 DEF TypeOK, CreateRun, RunObjects, RunStates
      <3> QED BY <1>8, <3>1, <3>2 DEF ReconcileJobResources
    <2>3. /\ queue' \subseteq Deployments
          /\ pc' \in [Deployments -> Steps]
          /\ local' \in [Deployments -> Objects]
          /\ todo' \in [Deployments -> Statuses]
      <3>1. LaunchedStatus(local[d].status, JobOf[d]) \in Statuses
        BY <1>0, <1>c, StatusTypes
      <3>2. ConditionStatus(local[d].status, "True", "") \in Statuses
        BY <1>0, <1>c, StatusTypes
      <3>3. \/ Finish(d, TRUE)
            \/ SaveStatus(d, LaunchedStatus(local[d].status, JobOf[d]))
            \/ SaveStatus(d, ConditionStatus(local[d].status, "True", ""))
        BY <1>8 DEF ReconcileJobResources
      <3> QED BY <3>1, <3>2, <3>3, <1>0, <1>s, ControlTypes
    <2>4. UNCHANGED <<objectVars, bannerVars>>
      BY <1>8 DEF ReconcileJobResources
    <2> QED BY <2>1, <2>2, <2>3, <2>4 DEF TypeOK, objectVars, bannerVars
  <1>9. CASE TrackPipelineRun(d)
    <2>1. budget' \in [BudgetItems -> Nat]
      BY <1>9, <1>b, BudgetType DEF TrackPipelineRun, Fault, NoFault
    <2>2. /\ queue' \subseteq Deployments
          /\ pc' \in [Deployments -> Steps]
          /\ local' \in [Deployments -> Objects]
          /\ todo' \in [Deployments -> Statuses]
      <3> DEFINE state == CachedPipelineRun(local[d].status.run)
                 told == ConditionStatus(local[d].status, ConditionOf(state), "StepFailed")
                 lost == ConditionStatus(local[d].status, "False", "")
      <3>1. state \in RunStates
        BY RunNamesAreRuns DEF CachedPipelineRun, TypeOK, RunObjects, RunStates
      <3>2. CASE state \in {"absent", "new"}
        <4>1. Finish(d, TRUE)
          BY <1>9, <3>2 DEF TrackPipelineRun
        <4> QED BY <4>1, <1>0, <1>s, ControlTypes
      <3>3. CASE state \notin {"absent", "new"}
        <4>1. told \in Statuses /\ lost \in Statuses
          BY <3>1, <3>3, <1>0, <1>c, StatusTypes DEF RunStates
        <4>2. SaveStatus(d, told) \/ SaveStatus(d, lost)
          BY <1>9, <3>3 DEF TrackPipelineRun
        <4> HIDE DEF told, lost
        <4> QED BY <4>1, <4>2, <1>s, ControlTypes
      <3> QED BY <3>2, <3>3
    <2>3. UNCHANGED <<objectVars, runVars, bannerVars>>
      BY <1>9 DEF TrackPipelineRun
    <2> QED BY <2>1, <2>2, <2>3 DEF TypeOK, objectVars, runVars, bannerVars
  <1>10. CASE LaunchPipelineRun(d)
    <2>1. budget' \in [BudgetItems -> Nat]
      BY <1>10, <1>b, BudgetType DEF LaunchPipelineRun, Fault, NoFault
    <2>2. /\ runs' \in [Runs -> RunObjects]
          /\ runCache' \in [Runs -> RunObjects]
      <3>1. CASE UNCHANGED runVars
        BY <3>1 DEF TypeOK, runVars
      <3>2. ASSUME NEW run \in PipelineRunsOf(d), CreateRun(d, run)
            PROVE  /\ runs' \in [Runs -> RunObjects]
                   /\ runCache' \in [Runs -> RunObjects]
        <4>1. Self(d, local[d]) \in Owners
          BY <1>0 DEF Self, Owners, Objects
        <4> QED BY <3>2, <4>1, RunNamesAreRuns
                DEF TypeOK, CreateRun, RunObjects, RunStates
      <3> QED BY <1>10, <3>1, <3>2 DEF LaunchPipelineRun
    <2>3. /\ queue' \subseteq Deployments
          /\ pc' \in [Deployments -> Steps]
          /\ local' \in [Deployments -> Objects]
          /\ todo' \in [Deployments -> Statuses]
      <3>1. ASSUME NEW run \in Runs \cup {NoRun}
            PROVE  LaunchedStatus(local[d].status, run) \in Statuses
        BY <1>0, <1>c, StatusTypes
      <3>2. \/ Finish(d, TRUE)
            \/ \E run \in Runs \cup {NoRun} :
                  SaveStatus(d, LaunchedStatus(local[d].status, run))
        BY <1>10, RunNamesAreRuns, ConstantsAssumption DEF LaunchPipelineRun
      <3> QED BY <3>1, <3>2, <1>0, <1>s, ControlTypes
    <2>4. UNCHANGED <<objectVars, bannerVars>>
      BY <1>10 DEF LaunchPipelineRun
    <2> QED BY <2>1, <2>2, <2>3, <2>4 DEF TypeOK, objectVars, bannerVars
  <1>11. CASE WriteStatus(d)
    <2>1. budget' \in [BudgetItems -> Nat]
      BY <1>11, <1>b, BudgetType DEF WriteStatus, Fault, NoFault
    <2>2. /\ server' \in [Deployments -> Objects]
          /\ cache' \in [Deployments -> Objects]
          /\ watch' \in [Deployments -> SUBSET Objects]
      <3>1. [local[d] EXCEPT !.status = todo[d]] \in Objects
        BY <1>0, StatusTypes, <1>c DEF Objects
      <3>2. CASE Update(d, [local[d] EXCEPT !.status = todo[d]])
        BY <3>1, <3>2, UpdateType
      <3>3. CASE UNCHANGED objectVars
        BY <3>3 DEF TypeOK, objectVars
      <3> QED BY <1>11, <3>2, <3>3 DEF WriteStatus
    <2>3. /\ queue' \subseteq Deployments
          /\ pc' \in [Deployments -> Steps]
          /\ local' \in [Deployments -> Objects]
          /\ todo' \in [Deployments -> Statuses]
      <3>1. Finish(d, TRUE)
        BY <1>11 DEF WriteStatus
      <3> QED BY <3>1, <1>0, <1>s, ControlTypes
    <2>4. UNCHANGED <<runVars, bannerVars>>
      BY <1>11 DEF WriteStatus
    <2> QED BY <2>1, <2>2, <2>3, <2>4 DEF TypeOK, runVars, bannerVars
  <1>12. CASE CreateChild(d)
    <2>1. budget' \in [BudgetItems -> Nat]
      BY <1>12, <1>b, BudgetType DEF CreateChild, Fault, NoFault
    <2>2. /\ server' \in [Deployments -> Objects]
          /\ cache' \in [Deployments -> Objects]
          /\ watch' \in [Deployments -> SUBSET Objects]
      <3> DEFINE child == PostDeployment[d]
      <3>1. child \in Deployments
        BY <1>12 DEF StepKnows, CreateChild
      <3>2. CASE Store(child, NewObject(child, Self(d, local[d])))
        <4>1. Self(d, local[d]) \in Owners
          BY <1>0 DEF Self, Owners, Objects
        <4>2. NewObject(child, Self(d, local[d])) \in Objects
          BY <3>1, <4>1, NewObjectTypes
        <4> QED BY <3>1, <3>2, <4>2, StoreType
      <3>3. CASE UNCHANGED objectVars
        BY <3>3 DEF TypeOK, objectVars
      <3> QED BY <1>12, <3>2, <3>3 DEF CreateChild
    <2>3. /\ queue' \subseteq Deployments
          /\ pc' \in [Deployments -> Steps]
          /\ local' \in [Deployments -> Objects]
          /\ todo' \in [Deployments -> Statuses]
      <3>1. Goto(d, "savePostMessage") \/ Finish(d, TRUE)
        BY <1>12 DEF CreateChild
      <3> QED BY <3>1, <1>0, <1>s, ControlTypes
    <2>4. UNCHANGED <<runVars, bannerVars>>
      BY <1>12 DEF CreateChild
    <2> QED BY <2>1, <2>2, <2>3, <2>4 DEF TypeOK, runVars, bannerVars
  <1>13. CASE SavePostMessage(d)
    <2>1. budget' \in [BudgetItems -> Nat]
      BY <1>13, <1>b, BudgetType DEF SavePostMessage, Fault, NoFault
    <2>2. /\ server' \in [Deployments -> Objects]
          /\ cache' \in [Deployments -> Objects]
          /\ watch' \in [Deployments -> SUBSET Objects]
      <3>1. [local[d] EXCEPT !.status = PostDeploymentStatus(local[d].status)] \in Objects
        BY <1>0, StatusTypes, <1>c DEF Objects
      <3>2. CASE Update(d, [local[d] EXCEPT !.status = PostDeploymentStatus(local[d].status)])
        BY <3>1, <3>2, UpdateType
      <3>3. CASE UNCHANGED objectVars
        BY <3>3 DEF TypeOK, objectVars
      <3> QED BY <1>13, <3>2, <3>3 DEF SavePostMessage
    <2>3. /\ queue' \subseteq Deployments
          /\ pc' \in [Deployments -> Steps]
          /\ local' \in [Deployments -> Objects]
          /\ todo' \in [Deployments -> Statuses]
      <3>1. Finish(d, FALSE)
        BY <1>13 DEF SavePostMessage
      <3> QED BY <3>1, <1>0, <1>s, ControlTypes
    <2>4. UNCHANGED <<runVars, bannerVars>>
      BY <1>13 DEF SavePostMessage
    <2> QED BY <2>1, <2>2, <2>3, <2>4 DEF TypeOK, runVars, bannerVars
  <1> QED BY <1>1, <1>2, <1>3, <1>4, <1>5, <1>6, <1>7, <1>8, <1>9, <1>10, <1>11,
             <1>12, <1>13 DEF ReconcileStep

\* A delete request stores the object with a mark, or its absence.
LEMMA RequestDeleteType ==
    ASSUME TypeOK, NEW d \in Deployments, RequestDelete(d)
    PROVE  /\ server' \in [Deployments -> Objects]
           /\ cache' \in [Deployments -> Objects]
           /\ watch' \in [Deployments -> SUBSET Objects]
  <1>0. server[d] \in Objects
    BY DEF TypeOK
  <1>1. [server[d] EXCEPT !.deleting = TRUE] \in Objects
    BY <1>0 DEF Objects
  <1>2. Removed(d) \in Objects
    BY ObjectTypes, NewObjectTypes
  <1>3. \/ Store(d, [server[d] EXCEPT !.deleting = TRUE])
        \/ Store(d, Removed(d))
    BY DEF RequestDelete
  <1> QED BY <1>1, <1>2, <1>3, StoreType

\* A step of the cluster keeps the types.
LEMMA ClusterType ==
    ASSUME TypeOK, ClusterStep
    PROVE  TypeOK'
  <1> USE ConstantsAssumption
  <1>1. ASSUME NEW d \in Deployments, DeliverEvent(d)
        PROVE  TypeOK'
    BY <1>1 DEF TypeOK, DeliverEvent, runVars, bannerVars
  <1>2. ASSUME NEW d \in Deployments, Resync(d)
        PROVE  TypeOK'
    BY <1>2, BudgetType
       DEF TypeOK, Resync, objectVars, runVars, bannerVars, BudgetItems
  <1>3. ASSUME NEW d \in Deployments, UserCreate(d)
        PROVE  TypeOK'
    <2>1. NewObject(d, Nobody(d)) \in Objects
      BY ObjectTypes, NewObjectTypes
    <2>2. /\ server' \in [Deployments -> Objects]
          /\ cache' \in [Deployments -> Objects]
          /\ watch' \in [Deployments -> SUBSET Objects]
      BY <1>3, <2>1, StoreType DEF UserCreate
    <2>3. budget' \in [BudgetItems -> Nat]
      BY <1>3, BudgetType DEF UserCreate, BudgetItems
    <2> QED BY <1>3, <2>2, <2>3
            DEF UserCreate, TypeOK, runVars, bannerVars, workerVars
  <1>4. ASSUME NEW d \in Deployments, UserDelete(d) \/ CollectChild(d)
        PROVE  TypeOK'
    <2>1. /\ server' \in [Deployments -> Objects]
          /\ cache' \in [Deployments -> Objects]
          /\ watch' \in [Deployments -> SUBSET Objects]
      BY <1>4, RequestDeleteType DEF UserDelete, CollectChild
    <2>2. budget' \in [BudgetItems -> Nat]
      BY <1>4, BudgetType DEF UserDelete, CollectChild, BudgetItems
    <2> QED BY <1>4, <2>1, <2>2 DEF UserDelete, CollectChild, TypeOK,
               runVars, bannerVars, workerVars
  <1>5. ASSUME NEW d \in Deployments, UserEdit(d)
        PROVE  TypeOK'
    <2>0. server[d] \in Objects
      BY DEF TypeOK
    <2>1. [server[d] EXCEPT !.ansible = ~@] \in Objects
      BY <2>0 DEF Objects
    <2>2. /\ server' \in [Deployments -> Objects]
          /\ cache' \in [Deployments -> Objects]
          /\ watch' \in [Deployments -> SUBSET Objects]
      BY <1>5, <2>1, StoreType DEF UserEdit
    <2>3. budget' \in [BudgetItems -> Nat]
      BY <1>5, BudgetType DEF UserEdit, BudgetItems
    <2> QED BY <1>5, <2>2, <2>3 DEF UserEdit, TypeOK, runVars, bannerVars, workerVars
  <1>6. ASSUME NEW d \in Deployments, LoadFails(d)
        PROVE  TypeOK'
    <2>1. budget' \in [BudgetItems -> Nat]
      BY <1>6, BudgetType DEF LoadFails, Fault, BudgetItems
    <2> QED BY <1>6, <2>1
            DEF LoadFails, TypeOK, objectVars, runVars, bannerVars, workerVars
  <1>7. ASSUME NEW n \in Runs, SyncRun(n) \/ RunProgress(n) \/ CollectRun(n)
        PROVE  TypeOK'
    <2>1. NoRunObject \in RunObjects
      <3>1. (CHOOSE d \in Deployments : TRUE) \in Deployments
        OBVIOUS
      <3> QED BY <3>1, ObjectTypes DEF NoRunObject, RunObjects, RunStates
    <2>2. CASE SyncRun(n)
      BY <2>2 DEF SyncRun, TypeOK, objectVars, bannerVars, workerVars
    <2>3. CASE RunProgress(n)
      <3>0. PICK s \in RunStates : runs' = [runs EXCEPT ![n].state = s]
        BY <2>3 DEF RunProgress
      <3>1. runs' \in [Runs -> RunObjects]
        <4>0. runs[n] \in RunObjects
          BY DEF TypeOK
        <4>1. [runs[n] EXCEPT !.state = s] \in RunObjects
          BY <4>0 DEF RunObjects
        <4> QED BY <3>0, <4>1 DEF TypeOK
      <3> QED BY <2>3, <3>1 DEF RunProgress, TypeOK, objectVars, bannerVars, workerVars
    <2>4. CASE CollectRun(n)
      BY <2>1, <2>4 DEF CollectRun, TypeOK, objectVars, bannerVars, workerVars
    <2> QED BY <1>7, <2>2, <2>3, <2>4
  <1>8. ASSUME NEW b \in Banners, SyncBanner(b)
        PROVE  TypeOK'
    BY <1>8 DEF SyncBanner, TypeOK, objectVars, runVars, workerVars
  <1>9. CASE Restart
    <2>1. \A d \in Deployments : NoObject(d) \in Objects
      BY ObjectTypes
    <2>2. NoStatus \in Statuses
      BY DEF NoStatus, Statuses, Phases, Messages, FailureCategories
    <2>3. budget' \in [BudgetItems -> Nat]
      BY <1>9, BudgetType DEF Restart, BudgetItems
    <2>4. local' \in [Deployments -> Objects] /\ todo' \in [Deployments -> Statuses]
      BY <1>9, <2>1, <2>2 DEF Restart
    <2> QED BY <1>9, <2>3, <2>4 DEF Restart, TypeOK, Steps
  <1> QED BY <1>1, <1>2, <1>3, <1>4, <1>5, <1>6, <1>7, <1>8, <1>9 DEF ClusterStep

-----------------------------------------------------------------------------
(* Versions *)

\* An accepted update was made from the version stored now, which the cache has
\* already delivered.
LEMMA AcceptedIsCurrent ==
    ASSUME TypeOK, VersionsAgree, NEW d \in Deployments, pc[d] # "idle", CanUpdate(d)
    PROVE  local[d] = server[d] /\ cache[d] = server[d] /\ watch[d] = {}
  <1>1. /\ local[d].rv \in Nat /\ cache[d].rv \in Nat /\ server[d].rv \in Nat
        /\ \A v \in watch[d] : v.rv \in Nat
    BY DEF TypeOK, Objects
  <1>2. /\ local[d].rv <= cache[d].rv /\ cache[d].rv <= server[d].rv
        /\ local[d].rv = cache[d].rv => local[d] = cache[d]
        /\ cache[d].rv = server[d].rv => cache[d] = server[d]
        /\ \A v \in watch[d] : cache[d].rv < v.rv /\ v.rv <= server[d].rv
    BY DEF VersionsAgree, CacheTrails, CopyTrails
  <1>3. local[d].rv = server[d].rv
    BY DEF CanUpdate
  <1> QED BY <1>1, <1>2, <1>3

\* A stored version is newer than all before it.
LEMMA StoreTrails ==
    ASSUME TypeOK, VersionsAgree, NEW d \in Deployments, NEW o \in Objects, Store(d, o)
    PROVE  \A e \in Deployments : CacheTrails(e)'
  <1> DEFINE stored == [o EXCEPT !.rv = server[d].rv + 1]
  <1>1. stored.rv = server[d].rv + 1
    BY DEF Objects
  <1>2. /\ server' = [server EXCEPT ![d] = stored]
        /\ watch' = [watch EXCEPT ![d] = @ \cup {stored}]
        /\ cache' = cache
    BY DEF Store
  <1> HIDE DEF stored
  <1> TAKE e \in Deployments
  <1>3. CacheTrails(e)
    BY DEF VersionsAgree
  <1>4. CASE e # d
    <2>1. server'[e] = server[e] /\ watch'[e] = watch[e] /\ cache'[e] = cache[e]
      BY <1>2, <1>4 DEF TypeOK
    <2> QED BY <1>3, <2>1 DEF CacheTrails
  <1>5. CASE e = d
    <2>1. server'[d] = stored /\ watch'[d] = watch[d] \cup {stored} /\ cache'[d] = cache[d]
      BY <1>2 DEF TypeOK
    <2>2. /\ cache[d].rv \in Nat /\ server[d].rv \in Nat
          /\ \A v \in watch[d] : v.rv \in Nat
      BY DEF TypeOK, Objects
    <2> QED BY <1>1, <1>3, <1>5, <2>1, <2>2 DEF CacheTrails
  <1> QED BY <1>4, <1>5

\* Delivering the oldest version of the watch.
LEMMA DeliverTrails ==
    ASSUME TypeOK, VersionsAgree, NEW d \in Deployments, DeliverEvent(d)
    PROVE  \A e \in Deployments : CacheTrails(e)' /\ CopyTrails(e)'
  <1>1. PICK v \in watch[d] :
            /\ \A w \in watch[d] : v.rv <= w.rv
            /\ cache' = [cache EXCEPT ![d] = v]
            /\ watch' = [watch EXCEPT ![d] = @ \ {v}]
            /\ UNCHANGED <<server, pc, local>>
    BY DEF DeliverEvent
  <1> TAKE e \in Deployments
  <1>2. CacheTrails(e) /\ CopyTrails(e)
    BY DEF VersionsAgree
  <1>3. CASE e # d
    <2>1. server'[e] = server[e] /\ watch'[e] = watch[e] /\ cache'[e] = cache[e]
      BY <1>1, <1>3 DEF TypeOK
    <2> QED BY <1>1, <1>2, <2>1 DEF CacheTrails, CopyTrails
  <1>4. CASE e = d
    <2>1. server'[d] = server[d] /\ watch'[d] = watch[d] \ {v} /\ cache'[d] = v
      BY <1>1 DEF TypeOK
    <2>2. /\ cache[d].rv \in Nat /\ server[d].rv \in Nat /\ local[d].rv \in Nat
          /\ \A w \in watch[d] : w.rv \in Nat
      BY DEF TypeOK, Objects
    <2>3. CacheTrails(d)'
      BY <1>1, <1>2, <1>4, <2>1, <2>2 DEF CacheTrails
    <2>4. CopyTrails(d)'
      BY <1>1, <1>2, <1>4, <2>1, <2>2 DEF CacheTrails, CopyTrails
    <2> QED BY <1>4, <2>3, <2>4
  <1> QED BY <1>3, <1>4

-----------------------------------------------------------------------------
(* Steps of a reconcile *)

\* The reconcile of d goes on with the copy it has, or returns; no other moves
\* and no key leaves the queue.
Moves(d) ==
    /\ \A e \in Deployments \ {d} :
          pc'[e] = pc[e] /\ local'[e] = local[e] /\ todo'[e] = todo[e]
    /\ pc'[d] = "idle" \/ (pc[d] # "idle" /\ local'[d] = local[d])
    /\ queue \subseteq queue'

\* Every way a reconcile goes on leaves the copies of the others alone.
LEMMA ControlMoves ==
    ASSUME TypeOK, NEW d \in Deployments, pc[d] # "idle",
           NEW step, NEW st, NEW requeue,
           Goto(d, step) \/ SaveStatus(d, st) \/ Finish(d, requeue)
    PROVE  Moves(d)
  BY DEF TypeOK, Goto, SaveStatus, Finish, Moves

\* What a Finish or a Goto leaves at d.
LEMMA FinishAt ==
    ASSUME TypeOK, NEW d \in Deployments, NEW requeue \in BOOLEAN, Finish(d, requeue)
    PROVE  pc'[d] = "idle" /\ (requeue => d \in queue')
  BY DEF TypeOK, Finish

\* A step that has an effect on one object only.
LEMMA StepMoves ==
    ASSUME TypeOK, NEW d \in Deployments, ReconcileStep(d), ~Reconcile(d)
    PROVE  pc[d] # "idle" /\ Moves(d)
  <1>1. CASE DeleteConsoleNotification(d)
    BY <1>1, ControlMoves DEF DeleteConsoleNotification
  <1>2. CASE RemoveFinalizer(d)
    BY <1>2, ControlMoves DEF RemoveFinalizer
  <1>3. CASE AddFinalizer(d)
    BY <1>3, ControlMoves DEF AddFinalizer
  <1>4. CASE ReconcileConsoleNotification(d)
    BY <1>4, ControlMoves DEF ReconcileConsoleNotification
  <1>5. CASE GetGitHubPAT(d) \/ Clone(d)
    BY <1>5, ControlMoves DEF GetGitHubPAT, Clone
  <1>6. CASE ReconcileJobResources(d)
    BY <1>6, ControlMoves DEF ReconcileJobResources
  <1>7. CASE TrackPipelineRun(d)
    BY <1>7, ControlMoves DEF TrackPipelineRun
  <1>8. CASE LaunchPipelineRun(d)
    BY <1>8, ControlMoves DEF LaunchPipelineRun
  <1>9. CASE WriteStatus(d) \/ SavePostMessage(d)
    BY <1>9, ControlMoves DEF WriteStatus, SavePostMessage
  <1>10. CASE CreateChild(d)
    BY <1>10, ControlMoves DEF CreateChild
  <1> QED BY <1>1, <1>2, <1>3, <1>4, <1>5, <1>6, <1>7, <1>8, <1>9, <1>10
          DEF ReconcileStep

\* Storing o for e breaks no promise made by a version someone still sees.
SafeStore(e, o) ==
    /\ Store(e, o)
    /\ o \in Objects
    /\ \/ o.live /\ o.finalizer /\ o.uid = server[e].uid
       \/ \A v \in Seen(e) : ~(v.live /\ v.finalizer /\ ~v.deleting)
    /\ o.live /\ o.deleting => o.finalizer

\* A safe store keeps the finalizer invariants, as long as no reconcile starts
\* or changes its copy in the same step.
LEMMA SafeStoreHolds ==
    ASSUME TypeOK, FinalizerHolds, DeletingIsHeld,
           NEW e \in Deployments, NEW o, SafeStore(e, o),
           \A d \in Deployments : pc'[d] # "idle" => pc[d] # "idle" /\ local'[d] = local[d]
    PROVE  FinalizerHolds' /\ DeletingIsHeld'
  <1> DEFINE stored == [o EXCEPT !.rv = server[e].rv + 1]
  <1>1. /\ stored.live = o.live /\ stored.finalizer = o.finalizer
        /\ stored.deleting = o.deleting /\ stored.uid = o.uid
    BY DEF SafeStore, Objects
  <1>2. /\ server' = [server EXCEPT ![e] = stored]
        /\ watch' = [watch EXCEPT ![e] = @ \cup {stored}]
        /\ cache' = cache
    BY DEF SafeStore, Store
  <1> HIDE DEF stored
  <1>3. ASSUME NEW d \in Deployments, d # e
        PROVE  Seen(d)' \subseteq Seen(d) /\ server'[d] = server[d]
    BY <1>2, <1>3 DEF TypeOK, Seen
  <1>4. Seen(e)' \subseteq Seen(e) \cup {stored} /\ server'[e] = stored
    BY <1>2 DEF TypeOK, Seen
  <1>5. FinalizerHolds'
    <2> SUFFICES ASSUME NEW d \in Deployments, NEW v \in Seen(d)',
                        v.live /\ v.finalizer /\ ~v.deleting
                 PROVE  server'[d].live /\ server'[d].finalizer /\ server'[d].uid = v.uid
      BY DEF FinalizerHolds
    <2>1. CASE d # e
      BY <1>3, <2>1 DEF FinalizerHolds
    <2>2. CASE d = e /\ v = stored
      BY <1>4, <2>2
    <2>3. CASE d = e /\ v \in Seen(e)
      BY <1>1, <1>4, <2>3 DEF FinalizerHolds, SafeStore
    <2> QED BY <1>4, <2>1, <2>2, <2>3
  <1>6. DeletingIsHeld'
    <2> SUFFICES ASSUME NEW d \in Deployments, NEW v \in Seen(d)' \cup {server'[d]},
                        v.live /\ v.deleting
                 PROVE  v.finalizer
      BY DEF DeletingIsHeld
    <2>1. CASE d # e
      BY <1>3, <2>1 DEF DeletingIsHeld
    <2>2. CASE d = e
      BY <1>1, <1>4, <2>2 DEF DeletingIsHeld, SafeStore
    <2> QED BY <2>1, <2>2
  <1> QED BY <1>5, <1>6

-----------------------------------------------------------------------------
(* The six things that ever happen to a stored Deployment *)

Creation(e) ==
    ~server[e].live /\ \E own \in Owners : Store(e, NewObject(e, own))

Registration(e) ==
    /\ server[e].live /\ ~server[e].deleting
    /\ Store(e, [server[e] EXCEPT !.finalizer = TRUE])

Edit(e) ==
    server[e].live /\ Store(e, [server[e] EXCEPT !.ansible = ~@])

\* A report goes forward: "" or "Running" to any phase, or no change of phase.
Report(e) ==
    /\ server[e].live /\ ~server[e].deleting /\ server[e].finalizer
    /\ \E st \in Statuses :
          /\ Store(e, [server[e] EXCEPT !.status = st])
          /\ \/ st.phase = server[e].status.phase
             \/ /\ server[e].status.phase \notin TerminalPhases
                /\ st.phase \in {"Running"} \cup TerminalPhases

Mark(e) ==
    /\ server[e].live /\ server[e].finalizer
    /\ Store(e, [server[e] EXCEPT !.deleting = TRUE])

\* A removal leaves nobody with a version to create a banner from.
Removal(e) ==
    /\ server[e].live
    /\ Store(e, Removed(e))
    /\ \A v \in Seen(e) : ~(v.live /\ v.finalizer /\ ~v.deleting)

ObjectStep(e) ==
    Creation(e) \/ Registration(e) \/ Edit(e) \/ Report(e) \/ Mark(e) \/ Removal(e)

\* Every kind of write that the operator, users and the garbage collector make
\* is a safe store.
LEMMA ObjectStepIsSafe ==
    ASSUME TypeOK, FinalizerHolds, DeletingIsHeld, NEW e \in Deployments, ObjectStep(e)
    PROVE  \E o : SafeStore(e, o)
  <1>0. server[e] \in Objects
    BY DEF TypeOK
  <1>1. \A v \in Seen(e) : v.live /\ v.finalizer /\ ~v.deleting =>
            server[e].live /\ server[e].finalizer
    BY DEF FinalizerHolds
  <1>2. server[e].live /\ server[e].deleting => server[e].finalizer
    BY DEF DeletingIsHeld
  <1>3. CASE Creation(e)
    <2>1. PICK own \in Owners : Store(e, NewObject(e, own))
      BY <1>3 DEF Creation
    <2>2. NewObject(e, own) \in Objects
      BY NewObjectTypes
    <2>3. ~NewObject(e, own).deleting
      BY DEF NewObject
    <2>4. SafeStore(e, NewObject(e, own))
      BY <1>1, <1>3, <2>1, <2>2, <2>3 DEF SafeStore, Creation
    <2> QED BY <2>4
  <1>4. CASE Registration(e)
    <2> DEFINE o == [server[e] EXCEPT !.finalizer = TRUE]
    <2>1. o \in Objects /\ o.live /\ o.finalizer /\ o.uid = server[e].uid
      BY <1>0, <1>4 DEF Objects, Registration
    <2>2. SafeStore(e, o)
      BY <1>4, <2>1 DEF SafeStore, Registration
    <2> QED BY <2>2
  <1>5. CASE Edit(e)
    <2> DEFINE o == [server[e] EXCEPT !.ansible = ~@]
    <2>1. /\ o \in Objects /\ o.live /\ o.uid = server[e].uid
          /\ o.finalizer = server[e].finalizer /\ o.deleting = server[e].deleting
      BY <1>0, <1>5 DEF Objects, Edit
    <2>2. Store(e, o)
      BY <1>5 DEF Edit
    <2>3. SafeStore(e, o)
      <3> HIDE DEF o
      <3> QED BY <1>1, <1>2, <1>5, <2>1, <2>2 DEF SafeStore, Edit
    <2> QED BY <2>3
  <1>6. CASE Report(e)
    <2>1. PICK st \in Statuses : Store(e, [server[e] EXCEPT !.status = st])
      BY <1>6 DEF Report
    <2> DEFINE o == [server[e] EXCEPT !.status = st]
    <2>2. o \in Objects /\ o.live /\ o.finalizer /\ o.uid = server[e].uid
      BY <1>0, <1>6 DEF Objects, Report
    <2>3. SafeStore(e, o)
      BY <2>1, <2>2 DEF SafeStore
    <2> QED BY <2>3
  <1>7. CASE Mark(e)
    <2> DEFINE o == [server[e] EXCEPT !.deleting = TRUE]
    <2>1. o \in Objects /\ o.live /\ o.finalizer /\ o.uid = server[e].uid
      BY <1>0, <1>7 DEF Objects, Mark
    <2>2. SafeStore(e, o)
      BY <1>7, <2>1 DEF SafeStore, Mark
    <2> QED BY <2>2
  <1>8. CASE Removal(e)
    <2>1. Removed(e) \in Objects
      BY ObjectTypes, NewObjectTypes
    <2>2. ~Removed(e).live
      BY DEF Removed, NoObject
    <2>3. SafeStore(e, Removed(e))
      BY <1>8, <2>1, <2>2 DEF SafeStore, Removal
    <2> QED BY <2>3
  <1> QED BY <1>3, <1>4, <1>5, <1>6, <1>7, <1>8 DEF ObjectStep

\* A delete request marks an object, or removes one nobody has a banner for.
LEMMA RequestDeleteIsObjectStep ==
    ASSUME TypeOK, FinalizerHolds, NEW e \in Deployments, RequestDelete(e)
    PROVE  ObjectStep(e)
  <1>1. CASE server[e].finalizer
    BY <1>1 DEF RequestDelete, ObjectStep, Mark
  <1>2. CASE ~server[e].finalizer
    BY <1>2 DEF RequestDelete, ObjectStep, Removal, FinalizerHolds
  <1> QED BY <1>1, <1>2

\* What the cluster does to the stored Deployments.
LEMMA ClusterObjects ==
    ASSUME TypeOK, FinalizerHolds, ClusterStep
    PROVE  \/ UNCHANGED objectVars
           \/ \E e \in Deployments : DeliverEvent(e)
           \/ Restart
           \/ /\ \E e \in Deployments : ObjectStep(e)
              /\ UNCHANGED workerVars
  <1>1. ASSUME NEW d \in Deployments, UserCreate(d)
        PROVE  ObjectStep(d) /\ UNCHANGED workerVars
    <2>1. Nobody(d) \in Owners
      BY ObjectTypes
    <2> QED BY <1>1, <2>1 DEF UserCreate, ObjectStep, Creation
  <1>2. ASSUME NEW d \in Deployments, UserDelete(d) \/ CollectChild(d)
        PROVE  ObjectStep(d) /\ UNCHANGED workerVars
    BY <1>2, RequestDeleteIsObjectStep DEF UserDelete, CollectChild
  <1>3. ASSUME NEW d \in Deployments, UserEdit(d)
        PROVE  ObjectStep(d) /\ UNCHANGED workerVars
    BY <1>3 DEF UserEdit, ObjectStep, Edit
  <1>4. ASSUME NEW d \in Deployments, Resync(d) \/ LoadFails(d)
        PROVE  UNCHANGED objectVars
    BY <1>4 DEF Resync, LoadFails
  <1>5. ASSUME NEW n \in Runs, SyncRun(n) \/ RunProgress(n) \/ CollectRun(n)
        PROVE  UNCHANGED objectVars
    BY <1>5 DEF SyncRun, RunProgress, CollectRun
  <1>6. ASSUME NEW b \in Banners, SyncBanner(b)
        PROVE  UNCHANGED objectVars
    BY <1>6 DEF SyncBanner
  <1> QED BY <1>1, <1>2, <1>3, <1>4, <1>5, <1>6 DEF ClusterStep

\* What a reconcile does to them.
LEMMA ReconcileObjects ==
    ASSUME IInv, NEW d \in Deployments, ReconcileStep(d)
    PROVE  UNCHANGED objectVars \/ \E e \in Deployments : ObjectStep(e)
  <1> USE ConstantsAssumption DEF IInv
  <1>0. local[d] \in Objects /\ todo[d] \in Statuses /\ StepKnows(d)
    BY DEF TypeOK
  <1>1. CASE RemoveFinalizer(d) /\ CanUpdate(d) /\ Store(d, Removed(d))
    <2>1. pc[d] = "removeFinalizer" /\ server[d].live
      BY <1>1 DEF RemoveFinalizer, CanUpdate
    <2>2. local[d] = server[d] /\ cache[d] = server[d] /\ watch[d] = {}
      BY <1>1, <2>1, AcceptedIsCurrent
    <2>3. Seen(d) = {local[d]} /\ local[d].deleting
      BY <1>0, <2>1, <2>2 DEF Seen, StepKnows
    <2> QED BY <1>1, <2>1, <2>3 DEF ObjectStep, Removal
  <1>2. CASE AddFinalizer(d) /\ Update(d, [local[d] EXCEPT !.finalizer = TRUE])
    <2>1. pc[d] = "addFinalizer" /\ CanUpdate(d)
      BY <1>2 DEF AddFinalizer, Update
    <2>2. local[d] = server[d] /\ server[d].live
      BY <2>1, AcceptedIsCurrent DEF CanUpdate
    <2>3. ~local[d].deleting
      BY <1>0, <2>1 DEF StepKnows
    <2> QED BY <1>2, <2>2, <2>3 DEF Update, ObjectStep, Registration
  <1>3. CASE WriteStatus(d) /\ Update(d, [local[d] EXCEPT !.status = todo[d]])
    <2>1. pc[d] = "saveStatus" /\ CanUpdate(d)
      BY <1>3 DEF WriteStatus, Update
    <2>2. local[d] = server[d] /\ server[d].live
      BY <2>1, AcceptedIsCurrent DEF CanUpdate
    <2>3. /\ ~local[d].deleting /\ local[d].finalizer
          /\ local[d].status.phase \notin TerminalPhases
          /\ todo[d].phase \in {local[d].status.phase, "Running"} \cup TerminalPhases
      BY <1>0, <2>1 DEF StepKnows
    <2>4. UNCHANGED objectVars \/ Store(d, [server[d] EXCEPT !.status = todo[d]])
      BY <1>3, <2>2 DEF Update
    <2> QED BY <1>0, <2>2, <2>3, <2>4 DEF ObjectStep, Report
  <1>4. CASE /\ SavePostMessage(d)
             /\ Update(d, [local[d] EXCEPT !.status = PostDeploymentStatus(local[d].status)])
    <2>1. pc[d] = "savePostMessage" /\ CanUpdate(d)
      BY <1>4 DEF SavePostMessage, Update
    <2>2. local[d] = server[d] /\ server[d].live
      BY <2>1, AcceptedIsCurrent DEF CanUpdate
    <2>3. ~local[d].deleting /\ local[d].finalizer
      BY <1>0, <2>1 DEF StepKnows
    <2> DEFINE st == PostDeploymentStatus(server[d].status)
    <2>4. st \in Statuses /\ st.phase = server[d].status.phase
      BY <1>0, <2>2 DEF Objects, Statuses, PostDeploymentStatus, Messages
    <2>5. UNCHANGED objectVars \/ Store(d, [server[d] EXCEPT !.status = st])
      BY <1>4, <2>2 DEF Update
    <2> HIDE DEF st
    <2> QED BY <2>2, <2>3, <2>4, <2>5 DEF ObjectStep, Report
  <1>5. CASE CreateChild(d)
    <2> DEFINE child == PostDeployment[d]
    <2>1. child \in Deployments
      BY <1>0, <1>5 DEF StepKnows, CreateChild
    <2>2. Self(d, local[d]) \in Owners
      BY <1>0 DEF Self, Owners, Objects
    <2>3. \/ UNCHANGED objectVars
          \/ ~server[child].live /\ Store(child, NewObject(child, Self(d, local[d])))
      BY <1>5 DEF CreateChild
    <2> QED BY <2>1, <2>2, <2>3 DEF ObjectStep, Creation
  <1>6. CASE \/ Reconcile(d) \/ DeleteConsoleNotification(d)
             \/ ReconcileConsoleNotification(d) \/ GetGitHubPAT(d) \/ Clone(d)
             \/ ReconcileJobResources(d) \/ TrackPipelineRun(d) \/ LaunchPipelineRun(d)
    BY <1>6 DEF Reconcile, DeleteConsoleNotification, ReconcileConsoleNotification,
                GetGitHubPAT, Clone, ReconcileJobResources, TrackPipelineRun,
                LaunchPipelineRun
  <1>7. CASE RemoveFinalizer(d) \/ AddFinalizer(d) \/ WriteStatus(d) \/ SavePostMessage(d)
    BY <1>1, <1>2, <1>3, <1>4, <1>7
       DEF RemoveFinalizer, AddFinalizer, WriteStatus, SavePostMessage
  <1> QED BY <1>5, <1>6, <1>7 DEF ReconcileStep

-----------------------------------------------------------------------------
(* What each step knows *)

\* The statuses a reconcile may be about to write.
LEMMA SavedPhase ==
    ASSUME NEW st \in Statuses, NEW category, NEW run, NEW state \in RunStates
    PROVE  /\ FailedStatus(st, category).phase \in TerminalPhases
           /\ state \notin {"absent", "new"} =>
                 ConditionStatus(st, ConditionOf(state), category).phase
                     \in {"Running"} \cup TerminalPhases
           /\ ConditionStatus(st, "True", "").phase \in TerminalPhases
           /\ ConditionStatus(st, "False", "").phase \in TerminalPhases
           /\ LaunchedStatus(st, run).phase = st.phase
  BY DEF FailedStatus, ConditionStatus, ConditionOf, LaunchedStatus, Statuses,
         TerminalPhases, RunStates

\* A step of Reconcile keeps what each reconcile has learnt.
LEMMA ReconcileKnows ==
    ASSUME IInv, NEW d \in Deployments, ReconcileStep(d)
    PROVE  \A e \in Deployments : StepKnows(e)'
  <1>t. TypeOK
    BY DEF IInv
  <1>0. /\ local[d] \in Objects /\ local[d].status \in Statuses
        /\ cache[d] \in Objects /\ todo[d] \in Statuses
    BY <1>t DEF TypeOK, Objects
  <1>k. StepKnows(d)
    BY DEF IInv
  <1>1. ASSUME NEW e \in Deployments, e # d
        PROVE  StepKnows(e)'
    <2>1. pc'[e] = pc[e] /\ local'[e] = local[e] /\ todo'[e] = todo[e]
      <3>1. CASE Reconcile(d)
        BY <1>t, <1>1, <3>1 DEF Reconcile, TypeOK
      <3>2. CASE ~Reconcile(d)
        BY <1>t, <1>1, <3>2, StepMoves DEF Moves
      <3> QED BY <3>1, <3>2
    <2>2. StepKnows(e)
      BY DEF IInv
    <2> QED BY <2>1, <2>2 DEF StepKnows
  <1> SUFFICES StepKnows(d)'
    BY <1>1
  <1>2. ASSUME Finish(d, TRUE) \/ Finish(d, FALSE)
        PROVE  StepKnows(d)'
    <2>1. pc'[d] = "idle"
      BY <1>t, <1>2, FinishAt
    <2> QED BY <2>1 DEF StepKnows
  <1>3. ASSUME NEW step, Goto(d, step)
        PROVE  pc'[d] = step /\ local'[d] = local[d]
    BY <1>t, <1>3 DEF Goto, TypeOK
  <1>4. ASSUME NEW st, SaveStatus(d, st)
        PROVE  pc'[d] = "saveStatus" /\ local'[d] = local[d] /\ todo'[d] = st
    BY <1>t, <1>4 DEF SaveStatus, TypeOK
  <1>5. ASSUME NEW st, SaveStatus(d, st),
               pc[d] \in {"credentials", "clone", "job", "tekton"},
               st.phase \in {local[d].status.phase, "Running"} \cup TerminalPhases
        PROVE  StepKnows(d)'
    BY <1>k, <1>4, <1>5 DEF StepKnows
  <1>6. CASE Reconcile(d)
    <2>1. pc'[d] = FirstStep(cache[d])
      BY <1>t, <1>6 DEF Reconcile, TypeOK
    <2>2. FirstStep(cache[d]) # "idle" => local'[d] = cache[d]
      BY <1>t, <1>6 DEF Reconcile, TypeOK
    <2>3. /\ cache[d].live \in BOOLEAN /\ cache[d].deleting \in BOOLEAN
          /\ cache[d].finalizer \in BOOLEAN
      BY <1>0 DEF Objects
    <2> QED BY <2>1, <2>2, <2>3 DEF FirstStep, StepKnows
  <1>7. CASE DeleteConsoleNotification(d)
    <2>1. pc[d] = "deleteNotification"
      BY <1>7 DEF DeleteConsoleNotification
    <2>2. CASE Goto(d, "removeFinalizer")
      BY <1>k, <1>3, <2>1, <2>2 DEF StepKnows
    <2> QED BY <1>2, <1>7, <2>2 DEF DeleteConsoleNotification
  <1>8. CASE RemoveFinalizer(d) \/ AddFinalizer(d) \/ WriteStatus(d) \/ SavePostMessage(d)
    BY <1>2, <1>8 DEF RemoveFinalizer, AddFinalizer, WriteStatus, SavePostMessage
  <1>9. CASE ReconcileConsoleNotification(d)
    <2>1. pc[d] = "notification"
      BY <1>9 DEF ReconcileConsoleNotification
    <2>2. CASE Goto(d, SecondStep(d, local[d])) /\ SecondStep(d, local[d]) # "idle"
      BY <1>k, <1>3, <2>1, <2>2 DEF SecondStep, StepKnows
    <2> QED BY <1>2, <1>9, <2>2 DEF ReconcileConsoleNotification
  <1>10. CASE GetGitHubPAT(d)
    <2>1. pc[d] = "credentials"
      BY <1>10 DEF GetGitHubPAT
    <2>2. CASE Goto(d, "clone")
      BY <1>k, <1>3, <2>1, <2>2 DEF StepKnows
    <2>3. CASE SaveStatus(d, FailedStatus(local[d].status, "CredentialError"))
      BY <1>0, <1>5, <2>1, <2>3, SavedPhase DEF RunStates
    <2> QED BY <1>10, <2>2, <2>3 DEF GetGitHubPAT
  <1>11. CASE Clone(d)
    <2>1. pc[d] = "clone"
      BY <1>11 DEF Clone
    <2>2. CASE Goto(d, "job") \/ Goto(d, "tekton")
      BY <1>k, <1>3, <2>1, <2>2 DEF StepKnows
    <2>3. CASE SaveStatus(d, FailedStatus(local[d].status, "CloneError"))
      BY <1>0, <1>5, <2>1, <2>3, SavedPhase DEF RunStates
    <2> QED BY <1>11, <2>2, <2>3 DEF Clone
  <1>12. CASE ReconcileJobResources(d)
    <2>1. pc[d] = "job"
      BY <1>12 DEF ReconcileJobResources
    <2>2. CASE SaveStatus(d, LaunchedStatus(local[d].status, JobOf[d]))
      BY <1>0, <1>5, <2>1, <2>2, SavedPhase DEF RunStates
    <2>3. CASE SaveStatus(d, ConditionStatus(local[d].status, "True", ""))
      BY <1>0, <1>5, <2>1, <2>3, SavedPhase DEF RunStates
    <2> QED BY <1>2, <1>12, <2>2, <2>3 DEF ReconcileJobResources
  <1>13. CASE TrackPipelineRun(d)
    <2> DEFINE state == CachedPipelineRun(local[d].status.run)
               told == ConditionStatus(local[d].status, ConditionOf(state), "StepFailed")
               lost == ConditionStatus(local[d].status, "False", "")
    <2>1. pc[d] = "tekton"
      BY <1>13 DEF TrackPipelineRun
    <2>2. state \in RunStates
      BY <1>t, RunNamesAreRuns DEF CachedPipelineRun, TypeOK, RunObjects, RunStates
    <2>3. CASE SaveStatus(d, told) /\ state \notin {"absent", "new"}
      <3>1. told.phase \in {"Running"} \cup TerminalPhases
        BY <1>0, <2>2, <2>3, SavedPhase
      <3> QED BY <1>5, <2>1, <2>3, <3>1
    <2>4. CASE SaveStatus(d, lost)
      <3>1. lost.phase \in TerminalPhases
        BY <1>0, <2>2, SavedPhase
      <3> QED BY <1>5, <2>1, <2>4, <3>1
    <2> QED BY <1>2, <1>13, <2>3, <2>4 DEF TrackPipelineRun
  <1>14. CASE LaunchPipelineRun(d)
    <2>1. pc[d] = "tekton"
      BY <1>14 DEF LaunchPipelineRun
    <2>2. ASSUME NEW run, SaveStatus(d, LaunchedStatus(local[d].status, run))
          PROVE  StepKnows(d)'
      BY <1>0, <1>5, <2>1, <2>2, SavedPhase DEF RunStates
    <2> QED BY <1>2, <1>14, <2>2 DEF LaunchPipelineRun
  <1>15. CASE CreateChild(d)
    <2>1. pc[d] = "createChild"
      BY <1>15 DEF CreateChild
    <2>2. CASE Goto(d, "savePostMessage")
      BY <1>k, <1>3, <2>1, <2>2 DEF StepKnows
    <2> QED BY <1>2, <1>15, <2>2 DEF CreateChild
  <1> QED BY <1>6, <1>7, <1>8, <1>9, <1>10, <1>11, <1>12, <1>13, <1>14, <1>15
          DEF ReconcileStep

-----------------------------------------------------------------------------
(* Wake-ups *)

\* A store puts an event into the watch and leaves the cache alone.
LEMMA StoreWatch ==
    ASSUME TypeOK, NEW d \in Deployments, NEW o, Store(d, o)
    PROVE  /\ watch'[d] # {} /\ cache' = cache
           /\ \A e \in Deployments : watch[e] \subseteq watch'[e]
  BY DEF TypeOK, Store

\* No write of an object takes an event out of the watch.
LEMMA ObjectStepWatch ==
    ASSUME TypeOK, NEW d \in Deployments, ObjectStep(d)
    PROVE  cache' = cache /\ \A e \in Deployments : watch[e] \subseteq watch'[e]
  BY StoreWatch DEF ObjectStep, Creation, Registration, Edit, Report, Mark, Removal

\* A reconcile that returns and requeues nothing has stored a new version, whose
\* event is to come, or had nothing to do.
LEMMA ReturnIsSettled ==
    ASSUME IInv, NEW d \in Deployments, ReconcileStep(d), ~Reconcile(d),
           pc'[d] = "idle", d \notin queue', watch'[d] = {}
    PROVE  Settled(local[d])
  <1>t. TypeOK /\ VersionsAgree
    BY DEF IInv
  <1>k. StepKnows(d)
    BY DEF IInv
  <1>1. ~Finish(d, TRUE)
    BY <1>t, FinishAt
  <1>2. ASSUME NEW step, Goto(d, step), step # "idle"
        PROVE  FALSE
    BY <1>t, <1>2 DEF Goto, TypeOK
  <1>3. ASSUME NEW st, SaveStatus(d, st)
        PROVE  FALSE
    BY <1>t, <1>3 DEF SaveStatus, TypeOK
  <1>4. ASSUME NEW o, Store(d, o)
        PROVE  FALSE
    BY <1>t, <1>4, StoreWatch
  <1>5. CASE RemoveFinalizer(d)
    BY <1>1, <1>4, <1>5 DEF RemoveFinalizer
  <1>6. CASE AddFinalizer(d)
    <2>1. pc[d] = "addFinalizer" /\ Update(d, [local[d] EXCEPT !.finalizer = TRUE])
      BY <1>1, <1>6 DEF AddFinalizer
    <2>2. local[d] = server[d] /\ local[d] \in Objects
      BY <1>t, <2>1, AcceptedIsCurrent DEF Update, TypeOK
    <2>3. ~local[d].finalizer
      BY <1>k, <2>1 DEF StepKnows
    <2>4. [local[d] EXCEPT !.finalizer = TRUE] # server[d]
      BY <2>2, <2>3 DEF Objects
    <2> QED BY <1>4, <2>1, <2>4 DEF Update
  <1>7. CASE ReconcileConsoleNotification(d)
    <2>1. pc[d] = "notification"
      BY <1>7 DEF ReconcileConsoleNotification
    <2>2. SecondStep(d, local[d]) = "idle"
      BY <1>2, <1>7 DEF ReconcileConsoleNotification
    <2>3. local[d].status.phase \in TerminalPhases
      BY <2>2 DEF SecondStep
    <2> QED BY <1>k, <2>1, <2>3 DEF StepKnows, Settled
  <1>8. CASE SavePostMessage(d)
    BY <1>k, <1>8 DEF SavePostMessage, StepKnows, Settled, TerminalPhases
  <1>9. CASE DeleteConsoleNotification(d) \/ CreateChild(d)
    BY <1>1, <1>2, <1>9 DEF DeleteConsoleNotification, CreateChild
  <1>10. CASE GetGitHubPAT(d) \/ Clone(d)
    <2>1. \/ \E st : SaveStatus(d, st)
          \/ Goto(d, "clone") \/ Goto(d, "job") \/ Goto(d, "tekton")
      BY <1>10 DEF GetGitHubPAT, Clone
    <2> QED BY <1>2, <1>3, <2>1
  <1>11. CASE ReconcileJobResources(d) \/ TrackPipelineRun(d) \/ LaunchPipelineRun(d)
    <2>1. Finish(d, TRUE) \/ \E st : SaveStatus(d, st)
      BY <1>11 DEF ReconcileJobResources, TrackPipelineRun, LaunchPipelineRun
    <2> QED BY <1>1, <1>3, <2>1
  <1>12. CASE WriteStatus(d)
    BY <1>1, <1>12 DEF WriteStatus
  <1> QED BY <1>5, <1>6, <1>7, <1>8, <1>9, <1>10, <1>11, <1>12 DEF ReconcileStep

\* A step of Reconcile loses no wake-up.
LEMMA ReconcileAwake ==
    ASSUME IInv, NEW d \in Deployments, ReconcileStep(d)
    PROVE  \A e \in Deployments : Awake(e)'
  <1> TAKE e \in Deployments
  <1>t. TypeOK
    BY DEF IInv
  <1>a. Awake(e)
    BY DEF IInv
  <1>1. CASE Reconcile(d) /\ e # d
    <2>1. /\ pc'[e] = pc[e] /\ local'[e] = local[e] /\ (e \in queue => e \in queue')
          /\ cache' = cache /\ watch' = watch
      BY <1>t, <1>1 DEF Reconcile, TypeOK, objectVars
    <2> QED BY <1>a, <2>1 DEF Awake
  <1>2. CASE Reconcile(d) /\ e = d
    <2>1. /\ pc'[d] = FirstStep(cache[d]) /\ cache' = cache
          /\ FirstStep(cache[d]) # "idle" => local'[d] = cache[d]
      BY <1>t, <1>2 DEF Reconcile, TypeOK, objectVars
    <2>2. /\ cache[d].live \in BOOLEAN /\ cache[d].deleting \in BOOLEAN
          /\ cache[d].finalizer \in BOOLEAN
      BY <1>t DEF TypeOK, Objects
    <2>3. cache[d].live /\ cache[d].deleting => cache[d].finalizer
      BY DEF IInv, DeletingIsHeld, Seen
    <2>4. FirstStep(cache[d]) = "idle" => ~cache[d].live
      BY <2>2, <2>3 DEF FirstStep
    <2> QED BY <1>2, <2>1, <2>4 DEF Awake, Settled
  <1>3. CASE ~Reconcile(d)
    <2>1. pc[d] # "idle" /\ Moves(d)
      BY <1>t, <1>3, StepMoves
    <2>2. cache' = cache /\ \A x \in Deployments : watch[x] \subseteq watch'[x]
      <3>1. CASE UNCHANGED objectVars
        BY <3>1 DEF objectVars
      <3>2. CASE \E x \in Deployments : ObjectStep(x)
        BY <1>t, <3>2, ObjectStepWatch
      <3> QED BY <3>1, <3>2, ReconcileObjects
    <2>3. CASE e # d
      <3>1. /\ pc'[e] = pc[e] /\ local'[e] = local[e] /\ (e \in queue => e \in queue')
            /\ watch'[e] = {} => watch[e] = {}
        BY <2>1, <2>2, <2>3 DEF Moves
      <3> QED BY <1>a, <2>2, <3>1 DEF Awake
    <2>4. CASE e = d
      <3>1. /\ pc'[d] = "idle" \/ local'[d] = local[d]
            /\ d \in queue => d \in queue'
        BY <2>1 DEF Moves
      <3>2. d \notin queue' => local[d] = cache[d]
        BY <1>a, <2>1, <2>4, <3>1 DEF Awake
      <3>3. d \notin queue' /\ pc'[d] = "idle" /\ watch'[d] = {} => Settled(local[d])
        BY <1>3, ReturnIsSettled
      <3> QED BY <2>2, <2>4, <3>1, <3>2, <3>3 DEF Awake, Settled
    <2> QED BY <2>3, <2>4
  <1> QED BY <1>1, <1>2, <1>3

-----------------------------------------------------------------------------
(* The inductive invariant *)

\* The initial state satisfies the inductive invariant.
LEMMA InitInv == Init => IInv
  <1> SUFFICES ASSUME Init PROVE IInv
    OBVIOUS
  <1> USE ConstantsAssumption
  <1>1. \A d \in Deployments :
            /\ server[d] = NoObject(d) /\ cache[d] = NoObject(d) /\ local[d] = NoObject(d)
            /\ watch[d] = {} /\ pc[d] = "idle" /\ NoObject(d).rv = 0
            /\ ~NoObject(d).live
    BY DEF Init, NoObject
  <1>2. TypeOK
    <2>1. \A d \in Deployments : NoObject(d) \in Objects
      BY ObjectTypes
    <2>2. NoStatus \in Statuses
      BY DEF NoStatus, Statuses, Phases, Messages, FailureCategories
    <2>3. NoRunObject \in RunObjects
      <3>1. (CHOOSE d \in Deployments : TRUE) \in Deployments
        OBVIOUS
      <3> QED BY <3>1, ObjectTypes DEF NoRunObject, RunObjects, RunStates
    <2> QED BY <2>1, <2>2, <2>3 DEF Init, TypeOK, Steps
  <1>3. VersionsAgree
    BY <1>1 DEF VersionsAgree, CacheTrails, CopyTrails
  <1>4. FinalizerHolds /\ DeletingIsHeld
    BY <1>1 DEF FinalizerHolds, DeletingIsHeld, Seen
  <1>5. ASSUME NEW d \in Deployments
        PROVE  StepKnows(d) /\ Awake(d)
    BY <1>1 DEF StepKnows, Awake, Settled
  <1> QED BY <1>2, <1>3, <1>4, <1>5 DEF IInv

\* Nothing of it but types and budgets is touched by a step that leaves the
\* Deployments and the workers alone.
LEMMA FrameInv ==
    ASSUME IInv, TypeOK', UNCHANGED <<objectVars, pc, local, todo>>, queue \subseteq queue'
    PROVE  IInv'
  <1>1. VersionsAgree'
    BY DEF IInv, VersionsAgree, CacheTrails, CopyTrails, objectVars
  <1>2. FinalizerHolds' /\ DeletingIsHeld'
    BY DEF IInv, FinalizerHolds, DeletingIsHeld, Seen, objectVars
  <1>3. ASSUME NEW d \in Deployments
        PROVE  StepKnows(d)' /\ Awake(d)'
    <2>1. StepKnows(d) /\ Awake(d)
      BY DEF IInv
    <2> QED BY <2>1 DEF StepKnows, Awake, Settled, objectVars
  <1> QED BY <1>1, <1>2, <1>3 DEF IInv

\* A step of Reconcile keeps the inductive invariant.
LEMMA ReconcileInv ==
    ASSUME IInv, NEW d \in Deployments, ReconcileStep(d)
    PROVE  IInv'
  <1>t. TypeOK /\ VersionsAgree /\ FinalizerHolds /\ DeletingIsHeld /\ StepKnows(d)
    BY DEF IInv
  <1>1. TypeOK'
    BY <1>t, ReconcileType
  <1>2. \A e \in Deployments : StepKnows(e)' /\ Awake(e)'
    BY ReconcileKnows, ReconcileAwake
  <1>3. CASE Reconcile(d)
    <2>1. /\ UNCHANGED objectVars
          /\ \A e \in Deployments \ {d} : pc'[e] = pc[e] /\ local'[e] = local[e]
          /\ pc'[d] # "idle" => local'[d] = cache[d]
      BY <1>t, <1>3 DEF Reconcile, TypeOK
    <2>2. VersionsAgree'
      <3> SUFFICES ASSUME NEW e \in Deployments
                   PROVE  CacheTrails(e)' /\ CopyTrails(e)'
        BY DEF VersionsAgree
      <3>1. CacheTrails(e) /\ CopyTrails(e) /\ cache[e].rv \in Nat
        BY <1>t DEF VersionsAgree, TypeOK, Objects
      <3>2. CacheTrails(e)'
        BY <2>1, <3>1 DEF CacheTrails, objectVars
      <3>3. CopyTrails(e)'
        BY <2>1, <3>1 DEF CopyTrails, objectVars
      <3> QED BY <3>2, <3>3
    <2>3. \A e \in Deployments : Seen(e)' \subseteq Seen(e)
      BY <2>1 DEF Seen, objectVars
    <2>4. FinalizerHolds' /\ DeletingIsHeld'
      BY <1>t, <2>1, <2>3 DEF FinalizerHolds, DeletingIsHeld, objectVars
    <2> QED BY <1>1, <1>2, <2>2, <2>4 DEF IInv
  <1>4. CASE ~Reconcile(d)
    <2>1. pc[d] # "idle" /\ Moves(d)
      BY <1>t, <1>4, StepMoves
    <2>2. \A e \in Deployments : pc'[e] # "idle" => pc[e] # "idle" /\ local'[e] = local[e]
      BY <2>1 DEF Moves
    <2>3. UNCHANGED objectVars \/ \E e \in Deployments : ObjectStep(e)
      BY ReconcileObjects
    <2>4. CASE UNCHANGED objectVars
      <3>1. VersionsAgree'
        BY <1>t, <2>2, <2>4 DEF VersionsAgree, CacheTrails, CopyTrails, objectVars
      <3>2. \A e \in Deployments : Seen(e)' \subseteq Seen(e)
        BY <2>2, <2>4 DEF Seen, objectVars
      <3>3. FinalizerHolds' /\ DeletingIsHeld'
        BY <1>t, <2>4, <3>2 DEF FinalizerHolds, DeletingIsHeld, objectVars
      <3> QED BY <1>1, <1>2, <3>1, <3>3 DEF IInv
    <2>5. CASE \E e \in Deployments : ObjectStep(e)
      <3>1. PICK e \in Deployments : \E o : SafeStore(e, o)
        BY <1>t, <2>5, ObjectStepIsSafe
      <3>2. PICK o : SafeStore(e, o)
        BY <3>1
      <3>3. \A x \in Deployments : CacheTrails(x)' /\ CopyTrails(x)'
        <4>1. \A x \in Deployments : CacheTrails(x)'
          BY <1>t, <3>2, StoreTrails DEF SafeStore
        <4>2. cache' = cache
          BY <3>2 DEF SafeStore, Store
        <4> QED BY <1>t, <2>2, <4>1, <4>2 DEF VersionsAgree, CopyTrails
      <3>4. FinalizerHolds' /\ DeletingIsHeld'
        BY <1>t, <2>2, <3>2, SafeStoreHolds
      <3> QED BY <1>1, <1>2, <3>3, <3>4 DEF IInv, VersionsAgree
    <2> QED BY <2>3, <2>4, <2>5
  <1> QED BY <1>3, <1>4

\* A step of the cluster around the operator keeps the inductive invariant.
LEMMA ClusterInv ==
    ASSUME IInv, ClusterStep
    PROVE  IInv'
  <1>t. TypeOK /\ VersionsAgree /\ FinalizerHolds /\ DeletingIsHeld
    BY DEF IInv
  <1>1. TypeOK'
    BY <1>t, ClusterType
  <1>2. ASSUME NEW d \in Deployments, DeliverEvent(d)
        PROVE  IInv'
    <2>1. VersionsAgree'
      BY <1>t, <1>2, DeliverTrails DEF VersionsAgree
    <2>2. PICK v \in watch[d] : /\ cache' = [cache EXCEPT ![d] = v]
                                /\ watch' = [watch EXCEPT ![d] = @ \ {v}]
                                /\ queue' = queue \cup {d}
                                /\ UNCHANGED <<server, pc, local, todo>>
      BY <1>2 DEF DeliverEvent
    <2>3. \A e \in Deployments : Seen(e)' \subseteq Seen(e)
      BY <1>t, <2>2 DEF Seen, TypeOK
    <2>4. FinalizerHolds' /\ DeletingIsHeld'
      BY <1>t, <2>2, <2>3 DEF FinalizerHolds, DeletingIsHeld
    <2>5. ASSUME NEW e \in Deployments
          PROVE  StepKnows(e)' /\ Awake(e)'
      <3>1. StepKnows(e) /\ Awake(e)
        BY DEF IInv
      <3>2. e \notin queue' => cache'[e] = cache[e] /\ watch'[e] = watch[e] /\ e \notin queue
        BY <1>t, <2>2 DEF TypeOK
      <3>3. StepKnows(e)'
        BY <2>2, <3>1 DEF StepKnows
      <3>4. Awake(e)'
        BY <2>2, <3>1, <3>2 DEF Awake, Settled
      <3> QED BY <3>3, <3>4
    <2> QED BY <1>1, <2>1, <2>4, <2>5 DEF IInv
  <1>3. CASE Restart
    <2>1. /\ server' = server /\ cache' = server
          /\ \A e \in Deployments :
                watch'[e] = {} /\ pc'[e] = "idle" /\ (e \notin queue' => ~server[e].live)
      BY <1>3 DEF Restart
    <2>2. VersionsAgree'
      BY <1>1, <2>1 DEF VersionsAgree, CacheTrails, CopyTrails, TypeOK, Objects
    <2>3. \A e \in Deployments : Seen(e)' = {server[e]}
      BY <2>1 DEF Seen
    <2>4. FinalizerHolds' /\ DeletingIsHeld'
      BY <1>t, <2>1, <2>3 DEF FinalizerHolds, DeletingIsHeld
    <2>5. ASSUME NEW e \in Deployments
          PROVE  StepKnows(e)' /\ Awake(e)'
      BY <2>1 DEF StepKnows, Awake, Settled
    <2> QED BY <1>1, <2>2, <2>4, <2>5 DEF IInv
  <1>4. CASE (\E e \in Deployments : ObjectStep(e)) /\ UNCHANGED workerVars
    <2>1. PICK e \in Deployments : ObjectStep(e)
      BY <1>4
    <2>2. PICK o : SafeStore(e, o)
      BY <1>t, <2>1, ObjectStepIsSafe
    <2>3. \A x \in Deployments : CacheTrails(x)'
      BY <1>t, <2>2, StoreTrails DEF SafeStore
    <2>4. cache' = cache /\ \A x \in Deployments : watch[x] \subseteq watch'[x]
      BY <1>t, <2>1, ObjectStepWatch
    <2>5. VersionsAgree'
      BY <1>t, <1>4, <2>3, <2>4 DEF VersionsAgree, CopyTrails, workerVars
    <2>6. FinalizerHolds' /\ DeletingIsHeld'
      BY <1>t, <1>4, <2>2, SafeStoreHolds DEF workerVars
    <2>7. ASSUME NEW x \in Deployments
          PROVE  StepKnows(x)' /\ Awake(x)'
      <3>1. StepKnows(x) /\ Awake(x)
        BY DEF IInv
      <3>2. StepKnows(x)'
        BY <1>4, <3>1 DEF StepKnows, workerVars
      <3>3. Awake(x)'
        BY <1>4, <2>4, <3>1 DEF Awake, Settled, workerVars
      <3> QED BY <3>2, <3>3
    <2> QED BY <1>1, <2>5, <2>6, <2>7 DEF IInv
  <1>5. CASE UNCHANGED objectVars /\ ~Restart /\ ~\E d \in Deployments : DeliverEvent(d)
    <2>1. UNCHANGED <<pc, local, todo>> /\ queue \subseteq queue'
      BY <1>5 DEF ClusterStep, Resync, LoadFails, UserCreate, UserDelete, UserEdit,
                  CollectChild, SyncRun, RunProgress, CollectRun, SyncBanner, workerVars
    <2> QED BY <1>1, <1>5, <2>1, FrameInv
  <1> QED BY <1>t, <1>2, <1>3, <1>4, <1>5, ClusterObjects

\* Every step keeps the inductive invariant.
LEMMA NextInv == IInv /\ [Next]_vars => IInv'
  <1>1. ASSUME IInv, NEW d \in Deployments, ReconcileStep(d)
        PROVE  IInv'
    BY <1>1, ReconcileInv
  <1>2. ASSUME IInv, ClusterStep
        PROVE  IInv'
    BY <1>2, ClusterInv
  <1>3. ASSUME IInv, UNCHANGED vars
        PROVE  IInv'
    <2>1. TypeOK'
      BY <1>3 DEF IInv, TypeOK, vars
    <2> QED BY <1>3, <2>1, FrameInv DEF vars, objectVars
  <1> QED BY <1>1, <1>2, <1>3 DEF Next

\* The inductive invariant holds in every reachable state.
THEOREM Invariance == Spec => []IInv
  BY InitInv, NextInv, PTL DEF Spec

-----------------------------------------------------------------------------
(* Safety *)

\* Every variable keeps its type.
THEOREM TypeCorrect == Spec => []TypeOK
  <1>1. IInv => TypeOK
    BY DEF IInv
  <1> QED BY <1>1, Invariance, PTL

\* A copy with the stored version's number is that version and no event is lost,
\* whatever the interleaving of writers, watch and restarts.
THEOREM VersionsAlwaysAgree == Spec => []VersionsAgree
  <1>1. IInv => VersionsAgree
    BY DEF IInv
  <1> QED BY <1>1, Invariance, PTL

\* No Deployment that is new, in flight or being deleted is ever forgotten.
THEOREM NeverForgotten == Spec => []NoLostWakeup
  <1>1. IInv => NoLostWakeup
    <2> SUFFICES ASSUME IInv, NEW d \in Deployments,
                        d \notin queue, pc[d] = "idle", watch[d] = {}
                 PROVE  Settled(server[d])
      BY DEF NoLostWakeup
    <2>1. cache[d] = server[d]
      BY DEF IInv, VersionsAgree, CacheTrails
    <2>2. Settled(cache[d])
      BY DEF IInv, Awake
    <2> QED BY <2>1, <2>2
  <1> QED BY <1>1, Invariance, PTL

\* A version with the finalizer and no deletion mark, however old, is of the
\* stored incarnation.
THEOREM FinalizerAlwaysHolds == Spec => []FinalizerHolds
  <1>1. IInv => FinalizerHolds
    BY DEF IInv
  <1> QED BY <1>1, Invariance, PTL

\* A banner is only ever written under the protection of the finalizer.
THEOREM BannersAreProtected == Spec => BannerNeedsFinalizer
  <1> DEFINE Protected == \A b \in Banners : \A spec \in banner'[b] \ banner[b] :
                              server[spec.of].live /\ server[spec.of].finalizer
  <1>1. ASSUME IInv, NEW d \in Deployments, ReconcileConsoleNotification(d)
        PROVE  Protected
    <2>1. /\ pc[d] = "notification"
          /\ \/ PutBanner(BannerOf[d], {BuildNotification(d, local[d])})
             \/ UNCHANGED bannerVars
      BY <1>1 DEF ReconcileConsoleNotification
    <2>2. local[d].live /\ local[d].finalizer /\ ~local[d].deleting /\ local[d] \in Seen(d)
      BY <1>1, <2>1 DEF IInv, StepKnows, Seen
    <2>3. server[d].live /\ server[d].finalizer
      BY <1>1, <2>2 DEF IInv, FinalizerHolds
    <2>4. \A b \in Banners : \A spec \in banner'[b] \ banner[b] : spec.of = d
      BY <1>1, <2>1 DEF PutBanner, BuildNotification, bannerVars, IInv, TypeOK
    <2> QED BY <2>3, <2>4
  <1>2. ASSUME IInv, NEW d \in Deployments, DeleteConsoleNotification(d)
        PROVE  Protected
    <2>1. UNCHANGED bannerVars \/ PutBanner(BannerOf[d], {})
      BY <1>2 DEF DeleteConsoleNotification
    <2> QED BY <1>2, <2>1 DEF PutBanner, bannerVars, IInv, TypeOK
  <1>3. ASSUME NEW d \in Deployments, ReconcileStep(d),
               ~ReconcileConsoleNotification(d), ~DeleteConsoleNotification(d)
        PROVE  banner' = banner
    BY <1>3 DEF ReconcileStep, Reconcile, RemoveFinalizer, AddFinalizer, GetGitHubPAT,
                Clone, ReconcileJobResources, TrackPipelineRun, LaunchPipelineRun,
                WriteStatus, CreateChild, SavePostMessage, bannerVars
  <1>4. ASSUME ClusterStep
        PROVE  banner' = banner
    BY <1>4 DEF ClusterStep, DeliverEvent, Resync, LoadFails, UserCreate, UserDelete,
                UserEdit, CollectChild, SyncRun, RunProgress, CollectRun, SyncBanner,
                Restart, bannerVars
  <1>5. IInv /\ [Next]_vars => [Protected]_vars
    BY <1>1, <1>2, <1>3, <1>4 DEF Next
  <1> QED BY <1>5, Invariance, PTL DEF Spec, BannerNeedsFinalizer

-----------------------------------------------------------------------------
(* Refinement *)

\* The refinement mapping.
Life == [d \in Deployments |-> IF server[d].live THEN server[d].status.phase ELSE "none"]
Leaving == [d \in Deployments |-> server[d].live /\ server[d].deleting]

\* Its values after o has been stored.
LEMMA StoreLife ==
    ASSUME TypeOK, NEW e \in Deployments, NEW o \in Objects, Store(e, o)
    PROVE  /\ Life' = [Life EXCEPT ![e] = IF o.live THEN o.status.phase ELSE "none"]
           /\ Leaving' = [Leaving EXCEPT ![e] = o.live /\ o.deleting]
  <1> DEFINE stored == [o EXCEPT !.rv = server[e].rv + 1]
  <1>1. stored.live = o.live /\ stored.status = o.status /\ stored.deleting = o.deleting
    BY DEF Objects
  <1>2. server' = [server EXCEPT ![e] = stored]
    BY DEF Store
  <1> HIDE DEF stored
  <1>3. \A d \in Deployments : server'[d] = IF d = e THEN stored ELSE server[d]
    BY <1>2 DEF TypeOK
  <1> QED BY <1>1, <1>3 DEF Life, Leaving

\* Each change of a stored object is a step of the life cycle, or invisible.
LEMMA ObjectStepIsLifecycleStep ==
    ASSUME TypeOK, NEW e \in Deployments, ObjectStep(e)
    PROVE  Lifecycle!Next \/ (Life' = Life /\ Leaving' = Leaving)
  <1> USE DEF Life, Leaving
  <1>0. server[e] \in Objects
    BY DEF TypeOK
  <1>n. server[e].live => Life[e] # "none"
    BY <1>0 DEF Objects, Statuses, Phases
  <1> HIDE DEF Life, Leaving
  <1>l. /\ Life[e] = IF server[e].live THEN server[e].status.phase ELSE "none"
        /\ Leaving[e] = (server[e].live /\ server[e].deleting)
        /\ [Life EXCEPT ![e] = Life[e]] = Life
        /\ [Leaving EXCEPT ![e] = Leaving[e]] = Leaving
    BY DEF Life, Leaving
  <1>2. CASE Creation(e)
    <2>1. PICK own \in Owners : Store(e, NewObject(e, own))
      BY <1>2 DEF Creation
    <2>2. /\ NewObject(e, own) \in Objects /\ NewObject(e, own).live
          /\ NewObject(e, own).status.phase = "" /\ ~NewObject(e, own).deleting
      BY NewObjectTypes DEF NewObject, NoStatus
    <2>3. Life' = [Life EXCEPT ![e] = ""] /\ Leaving' = Leaving /\ Life[e] = "none"
      BY <1>2, <1>l, <2>1, <2>2, StoreLife DEF Creation
    <2> QED BY <2>3 DEF Lifecycle!Next, Lifecycle!Create, Life, Leaving
  <1>3. CASE Registration(e)
    <2> DEFINE o == [server[e] EXCEPT !.finalizer = TRUE]
    <2>1. /\ o \in Objects /\ o.live = server[e].live
          /\ o.status = server[e].status /\ o.deleting = server[e].deleting
      BY <1>0 DEF Objects
    <2>2. Store(e, o)
      BY <1>3 DEF Registration
    <2> HIDE DEF o
    <2> QED BY <1>l, <2>1, <2>2, StoreLife
  <1>4. CASE Edit(e)
    <2> DEFINE o == [server[e] EXCEPT !.ansible = ~@]
    <2>1. /\ o \in Objects /\ o.live = server[e].live
          /\ o.status = server[e].status /\ o.deleting = server[e].deleting
      BY <1>0 DEF Objects
    <2>2. Store(e, o)
      BY <1>4 DEF Edit
    <2> HIDE DEF o
    <2> QED BY <1>l, <2>1, <2>2, StoreLife
  <1>5. CASE Report(e)
    <2>1. PICK st \in Statuses :
              /\ Store(e, [server[e] EXCEPT !.status = st])
              /\ \/ st.phase = server[e].status.phase
                 \/ /\ server[e].status.phase \notin TerminalPhases
                    /\ st.phase \in {"Running"} \cup TerminalPhases
      BY <1>5 DEF Report
    <2> DEFINE o == [server[e] EXCEPT !.status = st]
    <2>2. /\ o \in Objects /\ o.live = server[e].live
          /\ o.status = st /\ o.deleting = server[e].deleting
      BY <1>0 DEF Objects
    <2>3. server[e].live /\ ~server[e].deleting
      BY <1>5 DEF Report
    <2>4. Store(e, o)
      BY <2>1
    <2> HIDE DEF o
    <2>5. Life' = [Life EXCEPT ![e] = st.phase] /\ Leaving' = Leaving /\ ~Leaving[e]
      BY <1>l, <2>2, <2>3, <2>4, StoreLife
    <2>6. CASE st.phase = server[e].status.phase
      BY <1>l, <2>3, <2>5, <2>6
    <2>7. CASE /\ server[e].status.phase \notin TerminalPhases
               /\ st.phase \in {"Running"} \cup TerminalPhases
      <3>1. Life[e] \in {"", "Running"}
        BY <1>0, <1>l, <2>3, <2>7 DEF Objects, Statuses, Phases, TerminalPhases
      <3>2. st.phase \in {"Running"} \cup Lifecycle!Outcomes
        BY <2>7 DEF TerminalPhases, Lifecycle!Outcomes
      <3>3. Lifecycle!Report(e)
        BY <2>5, <3>1, <3>2 DEF Lifecycle!Report, Life, Leaving
      <3> QED BY <3>3 DEF Lifecycle!Next
    <2> QED BY <2>1, <2>6, <2>7
  <1>6. CASE Mark(e)
    <2> DEFINE o == [server[e] EXCEPT !.deleting = TRUE]
    <2>1. /\ o \in Objects /\ o.live = server[e].live
          /\ o.status = server[e].status /\ o.deleting
      BY <1>0 DEF Objects
    <2>2. server[e].live /\ Store(e, o)
      BY <1>6 DEF Mark
    <2> HIDE DEF o
    <2>3. Life' = Life /\ Leaving' = [Leaving EXCEPT ![e] = TRUE]
      <3>1. /\ Life' = [Life EXCEPT ![e] = IF o.live THEN o.status.phase ELSE "none"]
            /\ Leaving' = [Leaving EXCEPT ![e] = o.live /\ o.deleting]
        BY <1>0, <2>1, <2>2, StoreLife
      <3>2. (IF o.live THEN o.status.phase ELSE "none") = Life[e]
        BY <1>l, <2>1
      <3>3. (o.live /\ o.deleting) = TRUE
        BY <2>1, <2>2
      <3> QED BY <1>l, <3>1, <3>2, <3>3
    <2>4. Lifecycle!RequestDelete(e)
      BY <1>n, <2>2, <2>3 DEF Lifecycle!RequestDelete, Life, Leaving
    <2> QED BY <2>4 DEF Lifecycle!Next
  <1>7. CASE Removal(e)
    <2>1. Removed(e) \in Objects
      BY ObjectTypes, NewObjectTypes
    <2>2. ~Removed(e).live
      BY DEF Removed, NoObject
    <2>3. server[e].live /\ Store(e, Removed(e))
      BY <1>7 DEF Removal
    <2>4. Life' = [Life EXCEPT ![e] = "none"] /\ Leaving' = [Leaving EXCEPT ![e] = FALSE]
      BY <2>1, <2>2, <2>3, StoreLife
    <2>5. Lifecycle!Remove(e)
      BY <1>n, <2>3, <2>4 DEF Lifecycle!Remove, Life, Leaving
    <2> QED BY <2>5 DEF Lifecycle!Next
  <1> QED BY <1>2, <1>3, <1>4, <1>5, <1>6, <1>7 DEF ObjectStep

\* The controller implements the life cycle of DeploymentLifecycle: phases move
\* forward, outcomes are final, and nothing is reported after a delete request.
THEOREM Implementation == Spec => ImplementsLifecycle
  <1>1. Init => Lifecycle!Init
    <2> SUFFICES ASSUME Init PROVE Lifecycle!Init
      OBVIOUS
    <2>1. \A d \in Deployments : server[d].live = FALSE
      BY DEF Init, NoObject
    <2>2. \A d \in Deployments : (server[d].live /\ server[d].deleting) = FALSE
      BY <2>1
    <2> QED BY <2>1, <2>2 DEF Lifecycle!Init
  <1>2. ASSUME IInv, [Next]_vars
        PROVE  [Lifecycle!Next]_(Lifecycle!vars)
    <2>t. TypeOK /\ FinalizerHolds
      BY <1>2 DEF IInv
    <2>1. ASSUME Life' = Life, Leaving' = Leaving
          PROVE  UNCHANGED Lifecycle!vars
      BY <2>1 DEF Life, Leaving, Lifecycle!vars
    <2>2. ASSUME server' = server
          PROVE  UNCHANGED Lifecycle!vars
      BY <2>1, <2>2 DEF Life, Leaving
    <2>3. ASSUME NEW e \in Deployments, ObjectStep(e)
          PROVE  [Lifecycle!Next]_(Lifecycle!vars)
      BY <2>t, <2>1, <2>3, ObjectStepIsLifecycleStep
    <2>4. \/ server' = server
          \/ \E e \in Deployments : ObjectStep(e)
      <3>1. CASE \E d \in Deployments : ReconcileStep(d)
        BY <1>2, <3>1, ReconcileObjects DEF objectVars
      <3>2. CASE ClusterStep
        BY <2>t, <3>2, ClusterObjects DEF objectVars, DeliverEvent, Restart
      <3>3. CASE UNCHANGED vars
        BY <3>3 DEF vars
      <3> QED BY <1>2, <3>1, <3>2, <3>3 DEF Next
    <2> QED BY <2>2, <2>3, <2>4
  <1> QED BY <1>1, <1>2, Invariance, PTL DEF Spec, ImplementsLifecycle, Lifecycle!Spec

=============================================================================
