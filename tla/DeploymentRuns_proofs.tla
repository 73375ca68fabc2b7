------------------------ MODULE DeploymentRuns_proofs ------------------------
(***************************************************************************)
(* Runs and outcomes, for any number of Deployments, some of which may     *)
(* share a PipelineRun name: a reported outcome is that of a run that is   *)
(* still there, and an incarnation that has reported success starts no     *)
(* further run.                                                            *)
(*                                                                         *)
(* The operator finds runs by name, in a cache.  What makes that safe is   *)
(* that a cached run whose owner exists is the stored one, and that the    *)
(* only copy from which a success can be computed, and which somebody may  *)
(* still read afterwards, names the run it came from.                      *)
(***************************************************************************)
EXTENDS DeploymentOutcome_proofs

-----------------------------------------------------------------------------
(* The inductive invariant *)

\* The names of the Job and of the PipelineRuns of d.
RunsOf(d) == {JobOf[d]} \cup PipelineRunsOf(d)

\* UIDs are given from 1 on.
LiveUids ==
    \A d \in Deployments : \A v \in Seen(d) \cup {server[d]} : v.live => v.uid > 0

\* A run, stored or cached, is owned by an incarnation there is or has been, and
\* carries one of the names its Deployment uses.
RunOwners ==
    \A n \in Runs : \A r \in {runs[n], runCache[n]} :
        r.state # "absent" =>
            /\ r.owner.uid > 0 /\ r.owner.uid <= server[r.owner.key].uid
            /\ n \in RunsOf(r.owner.key)

\* A cached run whose owner exists is the stored one, and its end is the end of it.
CacheShowsRuns ==
    \A n \in Runs :
        runCache[n].state # "absent" /\ Exists(runCache[n].owner) =>
            /\ runs[n].state # "absent" /\ runs[n].owner = runCache[n].owner
            /\ runCache[n].state \in {"succeeded", "failed"} =>
                  runs[n].state = runCache[n].state

\* The run a status names is one of them.
RunNames(d) ==
    /\ \A v \in Seen(d) \cup {server[d]} :
          v.status.run \in {NoRun} \cup RunsOf(d)
    /\ pc[d] = "saveStatus" => todo[d].run \in {NoRun} \cup RunsOf(d)

\* The engine decides which kind a reconcile looks at.
EngineKnown(d) ==
    /\ pc[d] = "job" => local[d].ansible
    /\ pc[d] = "tekton" => ~local[d].ansible

FirstLives(d) == \A e \in Namesakes(d) : FirstLife(e)

\* An outcome about to be reported is backed as a reported one is.
SaveIsBacked(d) == pc[d] = "saveStatus" /\ FirstLives(d) => Backed(d, todo[d])

\* The Job of the first incarnation is there.
JobHeld(d) ==
    runs[JobOf[d]].state # "absent" /\ runs[JobOf[d]].owner = [key |-> d, uid |-> 1]

\* A reconcile of v finds its run: by name, or in the status.
Used(d, v) ==
    /\ v.ansible /\ v.uid = 1 => JobHeld(d)
    /\ ~v.ansible => v.status.run # NoRun

\* Versions from before the success, and the one a success is computed from.
SuccessUses(d) ==
    server[d].live =>
        /\ server[d].status.phase = "Succeeded" =>
              \A v \in Seen(d) :
                  /\ v.live /\ v.uid = server[d].uid
                  /\ v.status.phase \notin TerminalPhases
                  => Used(d, v)
        /\ /\ pc[d] = "saveStatus" /\ todo[d].phase = "Succeeded"
           /\ local[d].uid = server[d].uid
           => Used(d, local[d])

RunsInv ==
    /\ OutcomeSticks
    /\ LiveUids
    /\ RunOwners
    /\ CacheShowsRuns
    /\ \A d \in Deployments :
          RunNames(d) /\ EngineKnown(d) /\ SaveIsBacked(d) /\ SuccessUses(d)
    /\ OutcomeIsOwn

-----------------------------------------------------------------------------
(* What a step does to the runs *)

\* A reconcile of d creates run n.
Launches(d, n) ==
    /\ runs[n].state = "absent"
    /\ runs'[n] = [state |-> "new", owner |-> Self(d, local[d])]
    /\ \/ pc[d] = "job" /\ n = JobOf[d]
       \/ pc[d] = "tekton" /\ n \in PipelineRunsOf(d) /\ local[d].status.run = NoRun

Progresses(n) ==
    /\ runs[n].state \in {"new", "running"} /\ runs'[n].state # "absent"
    /\ runs'[n].state # "new"
    /\ runs'[n].owner = runs[n].owner

Collected(n) == ~Exists(runs[n].owner) /\ runs'[n].state = "absent"

OneRun(n) ==
    /\ \A m \in Runs \ {n} : runs'[m] = runs[m]
    /\ \/ \E d \in Deployments : Launches(d, n)
       \/ Progresses(n)
       \/ Collected(n)

\* The cache catches up, or one run changes, or neither; a Deployment is stored
\* only in the last case.
LEMMA RunStep ==
    ASSUME IInv, [Next]_vars
    PROVE  \/ UNCHANGED runVars
           \/ /\ server' = server /\ runs' = runs
              /\ \A n \in Runs : runCache'[n] \in {runCache[n], runs[n]}
           \/ /\ server' = server /\ runCache' = runCache
              /\ \E n \in Runs : OneRun(n)
  <1>t. TypeOK
    BY DEF IInv
  <1>r. \A d \in Deployments : JobOf[d] \in Runs /\ PipelineRunsOf(d) \subseteq Runs
    BY RunNamesAreRuns
  <1>c. ASSUME NEW d \in Deployments, NEW n \in Runs, CreateRun(d, n),
               runs[n].state = "absent",
               \/ pc[d] = "job" /\ n = JobOf[d]
               \/ pc[d] = "tekton" /\ n \in PipelineRunsOf(d) /\ local[d].status.run = NoRun
        PROVE  runCache' = runCache /\ OneRun(n)
    BY <1>t, <1>c DEF CreateRun, OneRun, Launches, TypeOK
  <1>1. ASSUME NEW d \in Deployments, ReconcileJobResources(d)
        PROVE  \/ UNCHANGED runVars
               \/ /\ server' = server /\ runCache' = runCache
                  /\ \E n \in Runs : OneRun(n)
    <2>1. \/ UNCHANGED runVars
          \/ runs[JobOf[d]].state = "absent" /\ CreateRun(d, JobOf[d])
      BY <1>1 DEF ReconcileJobResources
    <2>2. pc[d] = "job" /\ server' = server
      BY <1>1 DEF ReconcileJobResources, objectVars
    <2> QED BY <1>c, <1>r, <2>1, <2>2
  <1>2. ASSUME NEW d \in Deployments, LaunchPipelineRun(d)
        PROVE  \/ UNCHANGED runVars
               \/ /\ server' = server /\ runCache' = runCache
                  /\ \E n \in Runs : OneRun(n)
    <2>1. \/ UNCHANGED runVars
          \/ \E run \in PipelineRunsOf(d) :
                runs[run].state = "absent" /\ CreateRun(d, run)
      BY <1>2 DEF LaunchPipelineRun
    <2>2. pc[d] = "tekton" /\ server' = server /\ local[d].status.run = NoRun
      BY <1>2 DEF LaunchPipelineRun, objectVars
    <2> QED BY <1>c, <1>r, <2>1, <2>2
  <1>3. ASSUME NEW d \in Deployments, ReconcileStep(d),
               ~ReconcileJobResources(d), ~LaunchPipelineRun(d)
        PROVE  UNCHANGED runVars
    BY <1>3 DEF ReconcileStep, Reconcile, DeleteConsoleNotification, RemoveFinalizer,
                AddFinalizer, ReconcileConsoleNotification, GetGitHubPAT, Clone,
                TrackPipelineRun, WriteStatus, CreateChild, SavePostMessage
  <1>4. ASSUME NEW n \in Runs, SyncRun(n)
        PROVE  /\ server' = server /\ runs' = runs
               /\ \A m \in Runs : runCache'[m] \in {runCache[m], runs[m]}
    BY <1>t, <1>4 DEF SyncRun, objectVars, TypeOK
  <1>5. ASSUME NEW n \in Runs, RunProgress(n)
        PROVE  server' = server /\ runCache' = runCache /\ OneRun(n)
    BY <1>t, <1>5 DEF RunProgress, objectVars, TypeOK, OneRun, Progresses, RunObjects
  <1>6. ASSUME NEW n \in Runs, CollectRun(n)
        PROVE  server' = server /\ runCache' = runCache /\ OneRun(n)
    BY <1>t, <1>6 DEF CollectRun, objectVars, TypeOK, OneRun, Collected, NoRunObject
  <1>7. ASSUME Restart
        PROVE  /\ server' = server /\ runs' = runs
               /\ \A m \in Runs : runCache'[m] \in {runCache[m], runs[m]}
    BY <1>7 DEF Restart
  <1>8. CASE ClusterStep
    BY <1>4, <1>5, <1>6, <1>7, <1>8
       DEF ClusterStep, DeliverEvent, Resync, LoadFails, UserCreate, UserDelete,
           UserEdit, CollectChild, SyncBanner, runVars
  <1> QED BY <1>1, <1>2, <1>3, <1>8 DEF Next, vars, runVars

-----------------------------------------------------------------------------
(* What a step does to the statuses *)

\* The stored status of x stays what it is, except for its message.
KeepsStatus(x) ==
    /\ server[x].live /\ server'[x].live /\ server'[x].uid = server[x].uid
    /\ server'[x].status.phase = server[x].status.phase
    /\ server'[x].status.run = server[x].status.run
    /\ server'[x].status.category = server[x].status.category

\* The reconcile of x stores the status it has prepared.
Saves(x) ==
    /\ pc[x] = "saveStatus" /\ CanUpdate(x)
    /\ server'[x].live /\ server'[x].uid = server[x].uid
    /\ server'[x].status = todo[x]

\* Writing o, a version of the stored x, keeps its status.
LEMMA KeepingStore ==
    ASSUME TypeOK, NEW e \in Deployments, NEW o \in Objects, Store(e, o),
           server[e].live, o.live, o.uid = server[e].uid,
           o.status.phase = server[e].status.phase,
           o.status.run = server[e].status.run,
           o.status.category = server[e].status.category,
           NEW x \in Deployments
    PROVE  KeepsStatus(x) \/ server'[x] = server[x]
  BY StoreFields DEF KeepsStatus

\* A stored status is kept, or is that of a new or removed object, or is one that
\* a reconcile has prepared from the version stored.
LEMMA StatusWrites ==
    ASSUME IInv, [Next]_vars, NEW x \in Deployments
    PROVE  \/ server'[x] = server[x]
           \/ KeepsStatus(x)
           \/ server'[x].status = NoStatus
           \/ Saves(x)
  <1>t. TypeOK /\ VersionsAgree
    BY DEF IInv
  <1>o. \A d \in Deployments :
            /\ local[d] \in Objects /\ local[d].status \in Statuses
            /\ server[d] \in Objects /\ todo[d] \in Statuses
    BY <1>t DEF TypeOK, Objects
  <1>a. \A d \in Deployments :
            pc[d] # "idle" /\ CanUpdate(d) => local[d] = server[d] /\ server[d].live
    BY <1>t, AcceptedIsCurrent DEF CanUpdate
  <1>n. ASSUME NEW e \in Deployments, NEW o \in Objects, Store(e, o), o.status = NoStatus
        PROVE  server'[x].status = NoStatus \/ server'[x] = server[x]
    BY <1>t, <1>n, StoreFields
  <1>1. ASSUME NEW d \in Deployments, RemoveFinalizer(d)
        PROVE  server'[x].status = NoStatus \/ server'[x] = server[x]
    <2>1. server' = server \/ Store(d, Removed(d))
      BY <1>1 DEF RemoveFinalizer, objectVars
    <2>2. Removed(d) \in Objects /\ Removed(d).status = NoStatus
      BY <1>t, ObjectTypes, NewObjectTypes DEF Removed, NoObject
    <2> QED BY <1>n, <2>1, <2>2
  <1>2. ASSUME NEW d \in Deployments, AddFinalizer(d)
        PROVE  KeepsStatus(x) \/ server'[x] = server[x]
    <2> DEFINE o == [local[d] EXCEPT !.finalizer = TRUE]
    <2>1. server' = server \/ (CanUpdate(d) /\ Store(d, o))
      BY <1>2 DEF AddFinalizer, Update, objectVars
    <2>2. /\ o \in Objects /\ o.live = local[d].live /\ o.uid = local[d].uid
          /\ o.status = local[d].status
      BY <1>o DEF Objects
    <2>3. pc[d] # "idle"
      BY <1>2 DEF AddFinalizer
    <2> HIDE DEF o
    <2> QED BY <1>t, <1>a, <2>1, <2>2, <2>3, KeepingStore
  <1>3. ASSUME NEW d \in Deployments, SavePostMessage(d)
        PROVE  KeepsStatus(x) \/ server'[x] = server[x]
    <2> DEFINE st == PostDeploymentStatus(local[d].status)
               o == [local[d] EXCEPT !.status = st]
    <2>1. server' = server \/ (CanUpdate(d) /\ Store(d, o))
      BY <1>3 DEF SavePostMessage, Update, objectVars
    <2>2. st \in Statuses /\ st.phase = local[d].status.phase
          /\ st.run = local[d].status.run /\ st.category = local[d].status.category
      BY <1>o DEF PostDeploymentStatus, Statuses, Messages
    <2> HIDE DEF st
    <2>3. /\ o \in Objects /\ o.live = local[d].live /\ o.uid = local[d].uid
          /\ o.status = st
      BY <1>o, <2>2 DEF Objects
    <2>4. pc[d] # "idle"
      BY <1>3 DEF SavePostMessage
    <2> HIDE DEF o
    <2> QED BY <1>t, <1>a, <2>1, <2>2, <2>3, <2>4, KeepingStore
  <1>4. ASSUME NEW d \in Deployments, WriteStatus(d)
        PROVE  Saves(x) \/ server'[x] = server[x]
    <2> DEFINE o == [local[d] EXCEPT !.status = todo[d]]
    <2>1. server' = server \/ (CanUpdate(d) /\ Store(d, o))
      BY <1>4 DEF WriteStatus, Update, objectVars
    <2>2. /\ o \in Objects /\ o.live = local[d].live /\ o.uid = local[d].uid
          /\ o.status = todo[d]
      BY <1>o DEF Objects
    <2>3. pc[d] = "saveStatus"
      BY <1>4 DEF WriteStatus
    <2> HIDE DEF o
    <2> QED BY <1>t, <1>a, <2>1, <2>2, <2>3, StoreFields DEF Saves
  <1>5. ASSUME NEW d \in Deployments, CreateChild(d)
        PROVE  server'[x].status = NoStatus \/ server'[x] = server[x]
    <2> DEFINE child == PostDeployment[d]
               new == NewObject(child, Self(d, local[d]))
    <2>1. d \in DOMAIN PostDeployment
      BY <1>5 DEF CreateChild, IInv, StepKnows
    <2>2. server' = server \/ Store(child, new)
      BY <1>5 DEF CreateChild, objectVars
    <2>3. child \in Deployments
      BY <2>1, ConstantsAssumption
    <2>4. Self(d, local[d]) \in Owners
      BY <1>t, NewObjectTypes, ObjectTypes
    <2>5. new \in Objects
      BY <1>t, <2>3, <2>4, NewObjectTypes
    <2>6. new.status = NoStatus
      BY DEF NewObject
    <2> HIDE DEF new, child
    <2> QED BY <1>n, <2>2, <2>3, <2>5, <2>6
  <1>6. ASSUME NEW d \in Deployments, ReconcileStep(d), ~RemoveFinalizer(d),
               ~AddFinalizer(d), ~SavePostMessage(d), ~WriteStatus(d), ~CreateChild(d)
        PROVE  server' = server
    BY <1>6 DEF ReconcileStep, Reconcile, DeleteConsoleNotification,
                ReconcileConsoleNotification, GetGitHubPAT, Clone,
                ReconcileJobResources, TrackPipelineRun, LaunchPipelineRun, objectVars
  <1>7. ASSUME NEW d \in Deployments, UserCreate(d)
        PROVE  server'[x].status = NoStatus \/ server'[x] = server[x]
    <2>1. Store(d, NewObject(d, Nobody(d)))
      BY <1>7 DEF UserCreate
    <2>2. NewObject(d, Nobody(d)) \in Objects /\ NewObject(d, Nobody(d)).status = NoStatus
      BY <1>t, ObjectTypes, NewObjectTypes DEF NewObject
    <2> QED BY <1>n, <2>1, <2>2
  <1>8. ASSUME NEW d \in Deployments, RequestDelete(d)
        PROVE  \/ server'[x].status = NoStatus
               \/ KeepsStatus(x) \/ server'[x] = server[x]
    <2> DEFINE o == [server[d] EXCEPT !.deleting = TRUE]
    <2>1. server[d].live /\ (Store(d, o) \/ Store(d, Removed(d)))
      BY <1>8 DEF RequestDelete
    <2>2. /\ o \in Objects /\ o.live = server[d].live /\ o.uid = server[d].uid
          /\ o.status = server[d].status
      BY <1>o DEF Objects
    <2>3. Removed(d) \in Objects /\ Removed(d).status = NoStatus
      BY <1>t, ObjectTypes, NewObjectTypes DEF Removed, NoObject
    <2> HIDE DEF o
    <2>4. CASE Store(d, o)
      BY <1>t, <2>1, <2>2, <2>4, KeepingStore
    <2> QED BY <1>n, <2>1, <2>3, <2>4
  <1>9. ASSUME NEW d \in Deployments, UserEdit(d)
        PROVE  KeepsStatus(x) \/ server'[x] = server[x]
    <2> DEFINE o == [server[d] EXCEPT !.ansible = ~@]
    <2>1. server[d].live /\ Store(d, o)
      BY <1>9 DEF UserEdit
    <2>2. /\ o \in Objects /\ o.live = server[d].live /\ o.uid = server[d].uid
          /\ o.status = server[d].status
      BY <1>o DEF Objects
    <2> HIDE DEF o
    <2> QED BY <1>t, <2>1, <2>2, KeepingStore
  <1>10. CASE ClusterStep
    <2>1. \/ server' = server
          \/ \E d \in Deployments : UserCreate(d) \/ RequestDelete(d) \/ UserEdit(d)
      BY <1>10 DEF ClusterStep, DeliverEvent, Resync, LoadFails, UserDelete,
                   CollectChild, SyncRun, RunProgress, CollectRun, SyncBanner,
                   Restart, objectVars
    <2> QED BY <1>7, <1>8, <1>9, <2>1
  <1> QED BY <1>1, <1>2, <1>3, <1>4, <1>5, <1>6, <1>10 DEF Next, vars

\* What the reconcile of x prepares to be stored: a failure of applyFailedStatus,
\* the name of a run, or the condition of the run it has found in the cache.
Prepares(x) ==
    LET st  == local[x].status
        new == todo'[x]
    IN
    \/ \E category \in {"CredentialError", "CloneError"} :
          new = FailedStatus(st, category)
    \/ pc[x] = "job" /\ new = LaunchedStatus(st, JobOf[x])
    \/ /\ pc[x] = "tekton"
       /\ \E run \in {NoRun} \cup PipelineRunsOf(x) : new = LaunchedStatus(st, run)
    \/ /\ pc[x] = "job" /\ runCache[JobOf[x]].state = "succeeded" /\ runs' = runs
       /\ new = ConditionStatus(st, "True", "")
    \/ /\ pc[x] = "tekton" /\ st.run # NoRun /\ runs' = runs
       /\ CachedPipelineRun(st.run) \in {"running", "succeeded", "failed"}
       /\ new = ConditionStatus(st, ConditionOf(CachedPipelineRun(st.run)), "StepFailed")
    \/ /\ pc[x] = "tekton" /\ st.run # NoRun /\ runs' = runs
       /\ CachedPipelineRun(st.run) = "failed"
       /\ new = ConditionStatus(st, "False", "")

\* Where a reconcile comes from that is about to save, or to look at its run.
Arrives(x) ==
    /\ pc'[x] = "saveStatus" =>
          \/ pc[x] = "saveStatus" /\ local'[x] = local[x] /\ todo'[x] = todo[x]
          \/ /\ pc[x] \in {"credentials", "clone", "job", "tekton"}
             /\ server' = server /\ local'[x] = local[x] /\ Prepares(x)
    /\ pc'[x] \in {"job", "tekton"} =>
          /\ local'[x] = local[x]
          /\ \/ pc[x] = pc'[x]
             \/ pc'[x] = IF local[x].ansible THEN "job" ELSE "tekton"

LEMMA ReconcileArrives ==
    ASSUME IInv, NEW d \in Deployments, ReconcileStep(d), NEW x \in Deployments
    PROVE  Arrives(x)
  <1>t. TypeOK
    BY DEF IInv
  <1>k. ASSUME pc'[x] = pc[x], local'[x] = local[x], todo'[x] = todo[x]
        PROVE  Arrives(x)
    BY <1>k DEF Arrives
  <1>f. ASSUME NEW requeue, Finish(d, requeue)
        PROVE  Arrives(x)
    BY <1>t, <1>f DEF Finish, TypeOK, Arrives
  <1>g. ASSUME NEW step, Goto(d, step), step \notin {"saveStatus", "job", "tekton"}
        PROVE  Arrives(x)
    BY <1>t, <1>g DEF Goto, TypeOK, Arrives
  <1>s. ASSUME pc[d] \in {"credentials", "clone", "job", "tekton"}, server' = server,
               NEW st, SaveStatus(d, st), (todo'[d] = st) => Prepares(d)
        PROVE  Arrives(x)
    <2>1. /\ pc' = [pc EXCEPT ![d] = "saveStatus"]
          /\ todo' = [todo EXCEPT ![d] = st] /\ local' = local
      BY <1>s DEF SaveStatus
    <2>2. CASE x = d
      <3>1. Prepares(d) /\ pc'[d] = "saveStatus" /\ local'[d] = local[d]
        BY <1>t, <1>s, <2>1 DEF TypeOK
      <3> QED BY <1>s, <2>2, <3>1 DEF Arrives
    <2>3. CASE x # d
      <3>1. pc'[x] = pc[x] /\ local'[x] = local[x] /\ todo'[x] = todo[x]
        BY <1>t, <2>1, <2>3 DEF TypeOK
      <3> QED BY <1>k, <3>1
    <2> QED BY <2>2, <2>3
  <1>1. CASE Reconcile(d)
    <2>1. FirstStep(cache[d]) \notin {"saveStatus", "job", "tekton"}
      BY DEF FirstStep
    <2>2. CASE x = d
      BY <1>t, <1>1, <2>1, <2>2 DEF Reconcile, TypeOK, Arrives
    <2>3. CASE x # d
      <3>1. pc'[x] = pc[x] /\ local'[x] = local[x] /\ todo'[x] = todo[x]
        BY <1>t, <1>1, <2>3 DEF Reconcile, TypeOK
      <3> QED BY <1>k, <3>1
    <2> QED BY <2>2, <2>3
  <1>2. CASE \/ DeleteConsoleNotification(d) \/ RemoveFinalizer(d) \/ AddFinalizer(d)
             \/ WriteStatus(d) \/ CreateChild(d) \/ SavePostMessage(d)
    <2>1. \/ \E requeue : Finish(d, requeue)
          \/ Goto(d, "removeFinalizer") \/ Goto(d, "savePostMessage")
      BY <1>2 DEF DeleteConsoleNotification, RemoveFinalizer, AddFinalizer,
                  WriteStatus, CreateChild, SavePostMessage
    <2>2. CASE Goto(d, "removeFinalizer")
      BY <1>g, <2>2
    <2>3. CASE Goto(d, "savePostMessage")
      BY <1>g, <2>3
    <2> QED BY <1>f, <2>1, <2>2, <2>3
  <1>3. CASE ReconcileConsoleNotification(d)
    <2>1. SecondStep(d, local[d]) \notin {"saveStatus", "job", "tekton"}
      BY DEF SecondStep
    <2> QED BY <1>f, <1>g, <1>3, <2>1 DEF ReconcileConsoleNotification
  <1>4. CASE GetGitHubPAT(d)
    <2>1. \/ Goto(d, "clone")
          \/ SaveStatus(d, FailedStatus(local[d].status, "CredentialError"))
      BY <1>4 DEF GetGitHubPAT
    <2>2. pc[d] = "credentials" /\ server' = server
      BY <1>4 DEF GetGitHubPAT, objectVars
    <2>3. CASE Goto(d, "clone")
      BY <1>g, <2>3
    <2>4. CASE SaveStatus(d, FailedStatus(local[d].status, "CredentialError"))
      <3>1. (todo'[d] = FailedStatus(local[d].status, "CredentialError")) => Prepares(d)
        BY DEF Prepares
      <3> QED BY <1>s, <2>2, <2>4, <3>1
    <2> QED BY <2>1, <2>3, <2>4
  <1>5. CASE Clone(d)
    <2>1. \/ Goto(d, IF local[d].ansible THEN "job" ELSE "tekton")
          \/ SaveStatus(d, FailedStatus(local[d].status, "CloneError"))
      BY <1>5 DEF Clone
    <2>2. pc[d] = "clone" /\ server' = server
      BY <1>5 DEF Clone, objectVars
    <2>3. CASE Goto(d, IF local[d].ansible THEN "job" ELSE "tekton")
      BY <1>t, <2>3 DEF Goto, TypeOK, Arrives
    <2>4. CASE SaveStatus(d, FailedStatus(local[d].status, "CloneError"))
      <3>1. (todo'[d] = FailedStatus(local[d].status, "CloneError")) => Prepares(d)
        BY DEF Prepares
      <3> QED BY <1>s, <2>2, <2>4, <3>1
    <2> QED BY <2>1, <2>3, <2>4
  <1>6. CASE ReconcileJobResources(d)
    <2>1. \/ \E requeue : Finish(d, requeue)
          \/ SaveStatus(d, LaunchedStatus(local[d].status, JobOf[d]))
          \/ /\ runCache[JobOf[d]].state = "succeeded" /\ runs' = runs
             /\ SaveStatus(d, ConditionStatus(local[d].status, "True", ""))
      BY <1>6 DEF ReconcileJobResources, runVars
    <2>2. pc[d] = "job" /\ server' = server
      BY <1>6 DEF ReconcileJobResources, objectVars
    <2>3. CASE SaveStatus(d, LaunchedStatus(local[d].status, JobOf[d]))
      <3>1. (todo'[d] = LaunchedStatus(local[d].status, JobOf[d])) => Prepares(d)
        BY <2>2 DEF Prepares
      <3> QED BY <1>s, <2>2, <2>3, <3>1
    <2>4. CASE /\ runCache[JobOf[d]].state = "succeeded" /\ runs' = runs
               /\ SaveStatus(d, ConditionStatus(local[d].status, "True", ""))
      <3>1. (todo'[d] = ConditionStatus(local[d].status, "True", "")) => Prepares(d)
        BY <2>2, <2>4 DEF Prepares
      <3> QED BY <1>s, <2>2, <2>4, <3>1
    <2> QED BY <1>f, <2>1, <2>3, <2>4
  <1>7. CASE LaunchPipelineRun(d)
    <2>1. \/ \E requeue : Finish(d, requeue)
          \/ \E run \in {NoRun} \cup PipelineRunsOf(d) :
                SaveStatus(d, LaunchedStatus(local[d].status, run))
      BY <1>7, ConstantsAssumption DEF LaunchPipelineRun, PipelineRunsOf
    <2>2. pc[d] = "tekton" /\ server' = server
      BY <1>7 DEF LaunchPipelineRun, objectVars
    <2>3. \A run \in {NoRun} \cup PipelineRunsOf(d) :
              (todo'[d] = LaunchedStatus(local[d].status, run)) => Prepares(d)
      BY <2>2 DEF Prepares
    <2> QED BY <1>f, <1>s, <2>1, <2>2, <2>3
  <1>8. CASE TrackPipelineRun(d)
    <2> DEFINE state == CachedPipelineRun(local[d].status.run)
               st    == ConditionStatus(local[d].status, ConditionOf(state), "StepFailed")
    <2>1. state \in RunStates
      <3>1. \A n \in Runs : runCache[n].state \in RunStates
        BY <1>t DEF TypeOK, RunObjects
      <3> QED BY <3>1, RunNamesAreRuns DEF CachedPipelineRun, RunStates
    <2>2. \/ \E requeue : Finish(d, requeue)
          \/ state \notin {"absent", "new"} /\ SaveStatus(d, st)
          \/ state = "failed" /\ SaveStatus(d, ConditionStatus(local[d].status, "False", ""))
      BY <1>8 DEF TrackPipelineRun
    <2>3. /\ pc[d] = "tekton" /\ server' = server /\ runs' = runs
          /\ local[d].status.run # NoRun
      BY <1>8 DEF TrackPipelineRun, objectVars, runVars
    <2>4. CASE state \notin {"absent", "new"} /\ SaveStatus(d, st)
      <3>1. (todo'[d] = st) => Prepares(d)
        BY <2>1, <2>3, <2>4 DEF Prepares, RunStates
      <3> HIDE DEF st
      <3> QED BY <1>s, <2>3, <2>4, <3>1
    <2>5. CASE state = "failed" /\ SaveStatus(d, ConditionStatus(local[d].status, "False", ""))
      <3>1. (todo'[d] = ConditionStatus(local[d].status, "False", "")) => Prepares(d)
        BY <2>3, <2>5 DEF Prepares
      <3> QED BY <1>s, <2>3, <2>5, <3>1
    <2> QED BY <1>f, <2>2, <2>4, <2>5
  <1> QED BY <1>1, <1>2, <1>3, <1>4, <1>5, <1>6, <1>7, <1>8 DEF ReconcileStep

LEMMA NextArrives ==
    ASSUME IInv, [Next]_vars, NEW x \in Deployments
    PROVE  Arrives(x)
  <1>1. CASE ClusterStep
    BY <1>1 DEF ClusterStep, DeliverEvent, Resync, LoadFails, UserCreate, UserDelete,
                UserEdit, CollectChild, SyncRun, RunProgress, CollectRun, SyncBanner,
                Restart, workerVars, Arrives
  <1>2. CASE UNCHANGED vars
    BY <1>2 DEF vars, Arrives
  <1> QED BY <1>1, <1>2, ReconcileArrives DEF Next

-----------------------------------------------------------------------------
(* What a step leaves as it is *)

\* Incarnations go forward.
LEMMA UidMoves ==
    ASSUME IInv, [Next]_vars
    PROVE  \A x \in Deployments :
              /\ server[x].uid \in Nat /\ server'[x].uid \in Nat
              /\ server[x].uid <= server'[x].uid
              /\ \/ server'[x] = server[x]
                 \/ Born(x) \/ Rewritten(x) \/ Gone(x)
  <1>1. \A x \in Deployments :
            \/ server'[x] = server[x] \/ Born(x) \/ Rewritten(x) \/ Gone(x)
    BY NextWrites DEF Write
  <1>2. IInv'
    BY NextInv
  <1>3. \A x \in Deployments : server[x].uid \in Nat /\ server'[x].uid \in Nat
    BY <1>2 DEF IInv, TypeOK, Objects
  <1> QED BY <1>1, <1>3 DEF Born, Rewritten, Gone

\* An incarnation that is not to come, and exists after a step, existed before.
LEMMA ExistedBefore ==
    ASSUME IInv, [Next]_vars, NEW x \in Deployments, NEW uid \in Nat,
           uid <= server[x].uid, server'[x].live, server'[x].uid = uid
    PROVE  server[x].live /\ server[x].uid = uid
  BY UidMoves DEF Born, Rewritten, Gone

\* A first life that goes on was one before.
LEMMA FirstLifeBefore ==
    ASSUME IInv, LiveUids, [Next]_vars
    PROVE  \A x \in Deployments : FirstLife(x)' => FirstLife(x)
  BY UidMoves DEF FirstLife, LiveUids, Born, Rewritten, Gone

\* The types of runs and of what they are named after.
LEMMA RunTypes ==
    ASSUME TypeOK
    PROVE  /\ \A n \in Runs : /\ runs[n].owner.key \in Deployments
                              /\ runCache[n].owner.key \in Deployments
                              /\ runs[n].owner.uid \in Nat
                              /\ runCache[n].owner.uid \in Nat
                              /\ runs[n].state \in RunStates
                              /\ runCache[n].state \in RunStates
           /\ \A d \in Deployments : RunsOf(d) \subseteq Runs
           /\ \A n \in Runs : /\ runs[n] = [state |-> runs[n].state, owner |-> runs[n].owner]
                              /\ runs[n].owner = [key |-> runs[n].owner.key,
                                                  uid |-> runs[n].owner.uid]
  BY RunNamesAreRuns DEF TypeOK, RunObjects, Owners, RunsOf

\* A run whose owner exists stays, and its end does not change.
LEMMA RunStays ==
    ASSUME IInv, [Next]_vars, NEW n \in Runs,
           runs[n].state # "absent", Exists(runs[n].owner)
    PROVE  /\ runs'[n].state # "absent" /\ runs'[n].owner = runs[n].owner
           /\ runs[n].state \in {"succeeded", "failed"} => runs'[n].state = runs[n].state
  <1>1. runs'[n] = runs[n] \/ \E m \in Runs : OneRun(m)
    BY RunStep DEF runVars
  <1> QED BY <1>1 DEF OneRun, Launches, Progresses, Collected

\* A run that has ended stays what it is while its owner lives for the first time.
LEMMA EndedStays ==
    ASSUME IInv, LiveUids, [Next]_vars, NEW d \in Deployments, NEW n \in Runs,
           NEW state \in {"succeeded", "failed"},
           FirstLives(d)', Ended(d, n, state)
    PROVE  Ended(d, n, state)'
  <1> DEFINE own == runs[n].owner
  <1>1. own.key \in Namesakes(d) /\ own.key \in Deployments /\ own.uid \in Nat
    BY RunTypes DEF Ended, IInv
  <1>2. runs'[n].state = state /\ runs'[n].owner = own
    BY RunStays DEF Ended
  <1>3. PICK e \in Deployments : e = own.key /\ FirstLife(e)'
    BY <1>1 DEF FirstLives, Namesakes
  <1>4. server'[e].uid = IF server'[e].live THEN 1 ELSE 0
    BY <1>3 DEF FirstLife
  <1>5. server[own.key].live /\ server[own.key].uid = own.uid
    BY DEF Ended, Exists
  <1>6. server'[own.key].live /\ server'[own.key].uid = own.uid
    <2>1. server[own.key].uid > 0
      BY <1>1, <1>5 DEF LiveUids
    <2> QED BY <1>1, <1>3, <1>4, <1>5, <2>1, UidMoves DEF Born, Rewritten, Gone
  <1>7. Namesakes(d)' = Namesakes(d)
    BY DEF Namesakes
  <1> QED BY <1>1, <1>2, <1>6, <1>7 DEF Ended, Exists

\* So the outcome it backs stays backed.
LEMMA BackedStays ==
    ASSUME IInv, LiveUids, [Next]_vars, NEW d \in Deployments, FirstLives(d)'
    PROVE  /\ FirstLives(d)
           /\ \A n \in RunsOf(d), state \in {"succeeded", "failed"} :
                 Ended(d, n, state) => Ended(d, n, state)'
  <1>1. FirstLives(d)
    BY FirstLifeBefore DEF FirstLives, Namesakes
  <1>2. RunsOf(d) \subseteq Runs
    BY RunNamesAreRuns DEF RunsOf
  <1>3. \A n \in Runs, state \in {"succeeded", "failed"} :
            Ended(d, n, state) => Ended(d, n, state)'
    BY EndedStays
  <1> QED BY <1>1, <1>2, <1>3

\* The Job of an incarnation that goes on stays.
LEMMA JobStays ==
    ASSUME IInv, [Next]_vars, NEW d \in Deployments, JobHeld(d),
           server[d].live, server[d].uid = 1
    PROVE  JobHeld(d)'
  <1>1. JobOf[d] \in Runs
    BY ConstantsAssumption
  <1>2. Exists(runs[JobOf[d]].owner)
    BY DEF JobHeld, Exists
  <1> QED BY <1>1, <1>2, RunStays DEF JobHeld

-----------------------------------------------------------------------------
(* The invariant is inductive *)

LEMMA LiveUidsNext ==
    ASSUME IInv, LiveUids, [Next]_vars
    PROVE  LiveUids'
  <1> SUFFICES ASSUME NEW d \in Deployments, NEW v \in Seen(d)' \cup {server'[d]}, v.live
               PROVE  v.uid > 0
    BY DEF LiveUids
  <1>1. v \in Seen(d) \cup {server[d], server'[d]}
    BY NextSeen
  <1>2. v \in Seen(d) \cup {server[d]} => v.uid > 0
    BY DEF LiveUids
  <1>3. server[d].live => server[d].uid > 0
    BY DEF LiveUids
  <1> QED BY <1>1, <1>2, <1>3, UidMoves DEF Born, Rewritten, Gone

LEMMA RunOwnersNext ==
    ASSUME IInv, RunsInv, [Next]_vars
    PROVE  RunOwners'
  <1> DEFINE Fine(n, r) ==
        r.state # "absent" =>
            /\ r.owner.uid > 0 /\ r.owner.uid <= server'[r.owner.key].uid
            /\ n \in RunsOf(r.owner.key)
  <1> SUFFICES ASSUME NEW n \in Runs PROVE Fine(n, runs'[n]) /\ Fine(n, runCache'[n])
    BY DEF RunOwners
  <1>t. TypeOK
    BY DEF IInv
  <1>1. Fine(n, runs[n]) /\ Fine(n, runCache[n])
    <2>1. \A r \in {runs[n], runCache[n]} :
              r.state # "absent" =>
                  /\ r.owner.uid > 0 /\ r.owner.uid <= server[r.owner.key].uid
                  /\ n \in RunsOf(r.owner.key)
      BY DEF RunsInv, RunOwners
    <2>2. \A r \in {runs[n], runCache[n]} :
              r.owner.key \in Deployments /\ r.owner.uid \in Nat
      BY <1>t, RunTypes
    <2> QED BY <2>1, <2>2, UidMoves
  <1>2. ASSUME NEW d \in Deployments, Launches(d, n) PROVE Fine(n, runs'[n])
    <2>1. pc[d] # "idle" /\ n \in RunsOf(d)
      BY <1>2 DEF Launches, RunsOf
    <2>2. local[d] \in Seen(d) /\ local[d].live
      BY <2>1 DEF Seen, IInv, StepKnows
    <2>3. local[d].uid > 0 /\ local[d].uid <= server[d].uid /\ local[d].uid \in Nat
      BY <1>t, <2>2 DEF RunsInv, LiveUids, OutcomeSticks, TypeOK, Objects
    <2>4. runs'[n].owner = [key |-> d, uid |-> local[d].uid]
      BY <1>2 DEF Launches, Self
    <2> QED BY <2>1, <2>3, <2>4, UidMoves
  <1>3. ASSUME Progresses(n) PROVE Fine(n, runs'[n])
    BY <1>1, <1>3 DEF Progresses
  <1>4. ASSUME Collected(n) PROVE Fine(n, runs'[n])
    BY <1>4 DEF Collected
  <1>5. ASSUME NEW m \in Runs, OneRun(m) PROVE Fine(n, runs'[n])
    BY <1>1, <1>2, <1>3, <1>4, <1>5 DEF OneRun
  <1>6. runs'[n] = runs[n] \/ \E m \in Runs : OneRun(m)
    BY RunStep DEF runVars
  <1>7. runCache'[n] \in {runCache[n], runs[n]}
    BY RunStep DEF runVars
  <1> HIDE DEF Fine
  <1> QED BY <1>1, <1>5, <1>6, <1>7

LEMMA CacheShowsRunsNext ==
    ASSUME IInv, RunsInv, [Next]_vars
    PROVE  CacheShowsRuns'
  <1> SUFFICES ASSUME NEW n \in Runs,
                      runCache'[n].state # "absent",
                      server'[runCache'[n].owner.key].live,
                      server'[runCache'[n].owner.key].uid = runCache'[n].owner.uid
               PROVE  /\ runs'[n].state # "absent" /\ runs'[n].owner = runCache'[n].owner
                      /\ runCache'[n].state \in {"succeeded", "failed"} =>
                            runs'[n].state = runCache'[n].state
    BY DEF CacheShowsRuns, Exists
  <1>t. TypeOK
    BY DEF IInv
  <1>1. CASE runCache'[n] = runCache[n]
    <2>1. Exists(runCache[n].owner)
      <3>1. /\ runCache[n].owner.key \in Deployments /\ runCache[n].owner.uid \in Nat
            /\ runCache[n].owner.uid <= server[runCache[n].owner.key].uid
        BY <1>t, <1>1, RunTypes DEF RunsInv, RunOwners
      <3> QED BY <1>1, <3>1, ExistedBefore DEF Exists
    <2>2. /\ runs[n].state # "absent" /\ runs[n].owner = runCache[n].owner
          /\ runCache[n].state \in {"succeeded", "failed"} =>
                runs[n].state = runCache[n].state
      BY <1>1, <2>1 DEF RunsInv, CacheShowsRuns
    <2> QED BY <1>1, <2>1, <2>2, RunStays
  <1>2. CASE runCache'[n] # runCache[n]
    BY <1>2, RunStep DEF runVars
  <1> QED BY <1>1, <1>2

\* The name that a rewritten status keeps or gets.
LEMMA RewrittenRun ==
    ASSUME NEW st \in Statuses
    PROVE  /\ \A category : FailedStatus(st, category).run = st.run
           /\ ConditionStatus(st, "True", "").run = st.run
           /\ ConditionStatus(st, "False", "").run = st.run
           /\ \A run : LaunchedStatus(st, run).run = run
           /\ \A state \in {"running", "succeeded", "failed"} : \A category :
                 ConditionStatus(st, ConditionOf(state), category).run = st.run
  BY DEF FailedStatus, ConditionStatus, ConditionOf, LaunchedStatus, Statuses

LEMMA RunNamesNext ==
    ASSUME IInv, RunsInv, [Next]_vars, NEW d \in Deployments
    PROVE  RunNames(d)'
  <1>t. TypeOK
    BY DEF IInv
  <1> DEFINE Names == {NoRun} \cup RunsOf(d)
  <1>1. \A v \in Seen(d) \cup {server[d]} : v.status.run \in Names
    BY DEF RunsInv, RunNames
  <1>2. pc[d] = "saveStatus" => todo[d].run \in Names
    BY DEF RunsInv, RunNames
  <1>n. NoStatus.run = NoRun
    BY DEF NoStatus
  <1>3. server'[d].status.run \in Names
    <2>1. CASE server'[d] = server[d] \/ KeepsStatus(d)
      BY <1>1, <2>1 DEF KeepsStatus
    <2>2. CASE server'[d].status = NoStatus
      BY <1>n, <2>2
    <2>3. CASE Saves(d)
      BY <1>2, <2>3 DEF Saves
    <2> QED BY <2>1, <2>2, <2>3, StatusWrites
  <1>4. \A v \in Seen(d)' \cup {server'[d]} : v.status.run \in Names
    BY <1>1, <1>3, NextSeen
  <1>5. ASSUME pc'[d] = "saveStatus" PROVE todo'[d].run \in Names
    <2>1. CASE pc[d] = "saveStatus" /\ todo'[d] = todo[d]
      BY <1>2, <2>1
    <2>2. CASE pc[d] \in {"credentials", "clone", "job", "tekton"} /\ Prepares(d)
      <3>1. local[d].status \in Statuses /\ local[d].status.run \in Names
        BY <1>t, <1>1, <2>2 DEF Seen, TypeOK, Objects
      <3> DEFINE st == local[d].status
                 state == CachedPipelineRun(st.run)
                 new == todo'[d]
      <3>2. \/ \E category : new = FailedStatus(st, category)
            \/ \E run \in Names : new = LaunchedStatus(st, run)
            \/ new = ConditionStatus(st, "True", "")
            \/ new = ConditionStatus(st, "False", "")
            \/ /\ state \in {"running", "succeeded", "failed"}
               /\ new = ConditionStatus(st, ConditionOf(state), "StepFailed")
        BY <2>2 DEF Prepares, RunsOf
      <3>s. st \in Statuses
        BY <3>1
      <3> HIDE DEF state, st
      <3>r. /\ \A category : FailedStatus(st, category).run = st.run
            /\ ConditionStatus(st, "True", "").run = st.run
            /\ ConditionStatus(st, "False", "").run = st.run
            /\ \A run : LaunchedStatus(st, run).run = run
            /\ state \in {"running", "succeeded", "failed"} =>
                  ConditionStatus(st, ConditionOf(state), "StepFailed").run = st.run
        BY <3>s, RewrittenRun
      <3> HIDE DEF new
      <3>3. new.run = st.run \/ new.run \in Names
        BY <3>2, <3>r
      <3> QED BY <3>1, <3>3 DEF st, new
    <2> QED BY <1>5, <2>1, <2>2, NextArrives DEF Arrives
  <1> QED BY <1>4, <1>5 DEF RunNames

LEMMA EngineKnownNext ==
    ASSUME IInv, RunsInv, [Next]_vars, NEW d \in Deployments
    PROVE  EngineKnown(d)'
  <1>1. EngineKnown(d)
    BY DEF RunsInv
  <1> QED BY <1>1, NextArrives DEF Arrives, EngineKnown

\* A cached end, read under a name of d, is the end of that run, unless a namesake
\* was re-created.
LEMMA CachedEnd ==
    ASSUME IInv, RunsInv, NEW d \in Deployments, FirstLives(d),
           NEW n \in RunsOf(d), NEW state \in {"succeeded", "failed"},
           runCache[n].state = state
    PROVE  Ended(d, n, state)
  <1> DEFINE own == runCache[n].owner
  <1>1. n \in Runs /\ own.key \in Deployments /\ own.uid \in Nat
    BY RunTypes DEF IInv
  <1>2. /\ own.uid > 0 /\ own.uid <= server[own.key].uid
        /\ n \in RunsOf(own.key)
    BY <1>1 DEF RunsInv, RunOwners
  <1>3. own.key \in Namesakes(d)
    BY <1>1, <1>2, ConstantsAssumption DEF Namesakes, RunsOf
  <1>4. FirstLife(own.key)
    BY <1>3 DEF FirstLives
  <1>5. Exists(own)
    BY <1>1, <1>2, <1>4 DEF FirstLife, Exists
  <1>6. runs[n].owner = own /\ runs[n].state = state
    BY <1>1, <1>5 DEF RunsInv, CacheShowsRuns
  <1> QED BY <1>3, <1>5, <1>6 DEF Ended

\* Phase and category of a rewritten status.
LEMMA RewrittenOutcome ==
    ASSUME NEW st \in Statuses, st.phase \notin TerminalPhases
    PROVE  /\ \A category : /\ FailedStatus(st, category).phase = "Failed"
                            /\ FailedStatus(st, category).category = category
           /\ ConditionStatus(st, "True", "").phase = "Succeeded"
           /\ ConditionStatus(st, "False", "").phase = "Failed"
           /\ \A run : LaunchedStatus(st, run).phase \notin TerminalPhases
           /\ ConditionStatus(st, ConditionOf("running"), "StepFailed").phase = "Running"
           /\ ConditionStatus(st, ConditionOf("succeeded"), "StepFailed").phase = "Succeeded"
           /\ ConditionStatus(st, ConditionOf("failed"), "StepFailed").phase = "Failed"
  BY DEF FailedStatus, ConditionStatus, ConditionOf, LaunchedStatus, Statuses,
         TerminalPhases

\* What a reconcile that prepares an outcome has found in the cache.
LEMMA PreparedOutcome ==
    ASSUME IInv, RunsInv, NEW d \in Deployments, Prepares(d),
           pc[d] \in {"credentials", "clone", "job", "tekton"}
    PROVE  /\ todo'[d].phase = "Succeeded" =>
                /\ runs' = runs
                /\ \/ pc[d] = "job" /\ runCache[JobOf[d]].state = "succeeded"
                   \/ /\ pc[d] = "tekton" /\ local[d].status.run # NoRun
                      /\ local[d].status.run \in PipelineRunsOf(d)
                      /\ runCache[local[d].status.run].state = "succeeded"
                      /\ todo'[d].run = local[d].status.run
           /\ /\ todo'[d].phase = "Failed"
              /\ todo'[d].category \notin {"CredentialError", "CloneError"}
              => /\ runs' = runs
                 /\ local[d].status.run \in PipelineRunsOf(d)
                 /\ runCache[local[d].status.run].state = "failed"
                 /\ todo'[d].run = local[d].status.run
  <1> DEFINE st    == local[d].status
             state == CachedPipelineRun(st.run)
             new   == todo'[d]
  <1>1. st \in Statuses /\ st.phase \notin TerminalPhases
    BY DEF IInv, TypeOK, StepKnows, Objects
  <1>2. st.run \in {NoRun} \cup RunsOf(d)
    BY DEF RunsInv, RunNames, Seen
  <1>3. state # "absent" => st.run \in PipelineRunsOf(d) /\ state = runCache[st.run].state
    BY <1>2, ConstantsAssumption, RunNamesAreRuns, NoRunAssumption
    DEF CachedPipelineRun, RunsOf
  <1>4. \/ \E category \in {"CredentialError", "CloneError"} :
              new = FailedStatus(st, category)
        \/ \E run : new = LaunchedStatus(st, run)
        \/ /\ pc[d] = "job" /\ runCache[JobOf[d]].state = "succeeded" /\ runs' = runs
           /\ new = ConditionStatus(st, "True", "")
        \/ /\ pc[d] = "tekton" /\ st.run # NoRun /\ runs' = runs
           /\ \/ /\ state = "running"
                 /\ new = ConditionStatus(st, ConditionOf("running"), "StepFailed")
              \/ /\ state = "succeeded"
                 /\ new = ConditionStatus(st, ConditionOf("succeeded"), "StepFailed")
              \/ /\ state = "failed"
                 /\ new = ConditionStatus(st, ConditionOf("failed"), "StepFailed")
              \/ state = "failed" /\ new = ConditionStatus(st, "False", "")
    BY DEF Prepares
  <1>r. st.run = local[d].status.run
    OBVIOUS
  <1> HIDE DEF st, state
  <1>5. /\ \A category : /\ FailedStatus(st, category).phase = "Failed"
                         /\ FailedStatus(st, category).category = category
        /\ ConditionStatus(st, "True", "").phase = "Succeeded"
        /\ ConditionStatus(st, "False", "").phase = "Failed"
        /\ \A run : LaunchedStatus(st, run).phase \notin TerminalPhases
        /\ ConditionStatus(st, ConditionOf("running"), "StepFailed").phase = "Running"
        /\ ConditionStatus(st, ConditionOf("succeeded"), "StepFailed").phase = "Succeeded"
        /\ ConditionStatus(st, ConditionOf("failed"), "StepFailed").phase = "Failed"
    BY <1>1, RewrittenOutcome
  <1>6. /\ ConditionStatus(st, "False", "").run = st.run
        /\ \A s \in {"running", "succeeded", "failed"} :
              ConditionStatus(st, ConditionOf(s), "StepFailed").run = st.run
    BY <1>1, RewrittenRun
  <1> HIDE DEF new
  <1>7. new.phase = "Succeeded" =>
            /\ runs' = runs
            /\ \/ pc[d] = "job" /\ runCache[JobOf[d]].state = "succeeded"
               \/ /\ pc[d] = "tekton" /\ st.run # NoRun /\ state = "succeeded"
                  /\ new.run = st.run
    BY <1>4, <1>5, <1>6 DEF TerminalPhases
  <1>8. new.phase = "Failed" /\ new.category \notin {"CredentialError", "CloneError"} =>
            runs' = runs /\ state = "failed" /\ new.run = st.run
    BY <1>4, <1>5, <1>6 DEF TerminalPhases
  <1> QED BY <1>3, <1>7, <1>8, <1>r DEF new

LEMMA SaveIsBackedNext ==
    ASSUME IInv, RunsInv, [Next]_vars, NEW d \in Deployments
    PROVE  SaveIsBacked(d)'
  <1> SUFFICES ASSUME pc'[d] = "saveStatus", FirstLives(d)'
               PROVE  Backed(d, todo[d])'
    BY DEF SaveIsBacked
  <1>s. /\ FirstLives(d)
        /\ \A n \in {JobOf[d]} \cup PipelineRunsOf(d), state \in {"succeeded", "failed"} :
              Ended(d, n, state) => Ended(d, n, state)'
    BY BackedStays DEF RunsInv, RunsOf
  <1> DEFINE Backs(st) ==
        /\ st.phase = "Succeeded" =>
              \E n \in {JobOf[d]} \cup (PipelineRunsOf(d) \cap {st.run}) :
                  Ended(d, n, "succeeded")
        /\ st.phase = "Failed" /\ st.category \notin {"CredentialError", "CloneError"} =>
              st.run \in PipelineRunsOf(d) /\ Ended(d, st.run, "failed")
  <1>1. Backs(todo'[d])
    <2>1. CASE pc[d] = "saveStatus" /\ todo'[d] = todo[d]
      BY <1>s, <2>1 DEF RunsInv, SaveIsBacked, Backed
    <2>2. CASE pc[d] \in {"credentials", "clone", "job", "tekton"} /\ Prepares(d)
      BY <1>s, <2>2, PreparedOutcome, CachedEnd DEF RunsOf
    <2> QED BY <2>1, <2>2, NextArrives DEF Arrives
  <1> QED BY <1>s, <1>1 DEF Backed

LEMMA OutcomeIsOwnNext ==
    ASSUME IInv, RunsInv, [Next]_vars
    PROVE  OutcomeIsOwn'
  <1> SUFFICES ASSUME NEW d \in Deployments, server'[d].live, FirstLives(d)'
               PROVE  Backed(d, server[d].status)'
    BY DEF OutcomeIsOwn, FirstLives, Namesakes
  <1>s. /\ FirstLives(d)
        /\ \A n \in {JobOf[d]} \cup PipelineRunsOf(d), state \in {"succeeded", "failed"} :
              Ended(d, n, state) => Ended(d, n, state)'
    BY BackedStays DEF RunsInv, RunsOf
  <1>1. CASE server'[d] = server[d] \/ KeepsStatus(d)
    <2>1. server[d].live /\ server'[d].status.phase = server[d].status.phase
          /\ server'[d].status.category = server[d].status.category
          /\ server'[d].status.run = server[d].status.run
      BY <1>1 DEF KeepsStatus
    <2>2. Backed(d, server[d].status)
      BY <1>s, <2>1 DEF RunsInv, OutcomeIsOwn, FirstLives
    <2> QED BY <1>s, <2>1, <2>2 DEF Backed
  <1>2. CASE server'[d].status = NoStatus
    <2>1. NoStatus.phase = ""
      BY DEF NoStatus
    <2> QED BY <1>2, <2>1 DEF Backed
  <1>3. CASE Saves(d)
    <2>1. Backed(d, todo[d]) /\ server'[d].status = todo[d]
      BY <1>s, <1>3 DEF RunsInv, SaveIsBacked, Saves
    <2> QED BY <1>s, <2>1 DEF Backed
  <1> QED BY <1>1, <1>2, <1>3, StatusWrites

\* A success that is about to be stored was computed from a version that names
\* its run.
LEMMA SaveUsesNext ==
    ASSUME IInv, RunsInv, [Next]_vars, NEW d \in Deployments, server'[d].live,
           pc'[d] = "saveStatus", todo'[d].phase = "Succeeded",
           local'[d].uid = server'[d].uid
    PROVE  /\ local'[d].ansible /\ local'[d].uid = 1 => JobHeld(d)'
           /\ ~local'[d].ansible => local'[d].status.run # NoRun
  <1>t. TypeOK
    BY DEF IInv
  <1>p. pc[d] # "idle" /\ local'[d] = local[d]
    BY NextArrives DEF Arrives
  <1>u. local[d].uid \in Nat /\ local[d].uid <= server[d].uid
    BY <1>t, <1>p DEF RunsInv, OutcomeSticks, Seen, TypeOK, Objects
  <1>l. server[d].live /\ server[d].uid = local[d].uid
    BY <1>p, <1>u, ExistedBefore
  <1>1. CASE pc[d] = "saveStatus" /\ todo'[d] = todo[d]
    <2>1. Used(d, local[d])
      BY <1>1, <1>l DEF RunsInv, SuccessUses
    <2> QED BY <1>p, <1>l, <2>1, JobStays DEF Used
  <1>2. CASE pc[d] \in {"credentials", "clone", "job", "tekton"} /\ Prepares(d)
    <2>1. /\ runs' = runs
          /\ \/ pc[d] = "job" /\ runCache[JobOf[d]].state = "succeeded"
             \/ pc[d] = "tekton" /\ local[d].status.run # NoRun
      BY <1>2, PreparedOutcome
    <2>2. /\ pc[d] = "job" => local[d].ansible
          /\ pc[d] = "tekton" => ~local[d].ansible
      BY DEF RunsInv, EngineKnown
    <2>3. ASSUME pc[d] = "job", local[d].uid = 1, runCache[JobOf[d]].state = "succeeded"
          PROVE  JobHeld(d)
      <3> DEFINE n == JobOf[d]
                 own == runCache[n].owner
      <3>1. n \in Runs /\ own.key \in Deployments /\ own.uid \in Nat
        BY <1>t, RunTypes DEF RunsOf
      <3>2. /\ own.uid > 0 /\ own.uid <= server[own.key].uid
            /\ n \in RunsOf(own.key)
        BY <2>3, <3>1 DEF RunsInv, RunOwners
      <3>3. own.key = d
        BY <3>1, <3>2, ConstantsAssumption DEF RunsOf
      <3>4. own.uid = 1 /\ Exists(own)
        BY <1>l, <2>3, <3>1, <3>2, <3>3 DEF Exists
      <3>5. runs[n].state # "absent" /\ runs[n].owner = own
        BY <2>3, <3>1, <3>4 DEF RunsInv, CacheShowsRuns
      <3>6. runs[n].owner = [key |-> runs[n].owner.key, uid |-> runs[n].owner.uid]
        BY <1>t, <3>1, RunTypes
      <3> QED BY <3>3, <3>4, <3>5, <3>6 DEF JobHeld
    <2>4. JobHeld(d) => JobHeld(d)'
      BY <2>1 DEF JobHeld
    <2> QED BY <1>p, <2>1, <2>2, <2>3, <2>4
  <1> QED BY <1>1, <1>2, NextArrives DEF Arrives

LEMMA SuccessUsesNext ==
    ASSUME IInv, RunsInv, [Next]_vars, NEW d \in Deployments
    PROVE  SuccessUses(d)'
  <1>t. TypeOK /\ VersionsAgree
    BY DEF IInv
  <1>1. ASSUME server'[d].live, server'[d].status.phase = "Succeeded",
               NEW v \in Seen(d)', v.live, v.uid = server'[d].uid,
               v.status.phase \notin TerminalPhases
        PROVE  /\ v.ansible /\ v.uid = 1 => JobHeld(d)'
               /\ ~v.ansible => v.status.run # NoRun
    <2>1. v \in Seen(d) \cup {server[d]}
      BY <1>1, NextSeen DEF TerminalPhases
    <2>2. CASE server'[d] = server[d] \/ KeepsStatus(d)
      <3>1. /\ server[d].live /\ server[d].uid = server'[d].uid
            /\ server[d].status.phase = "Succeeded"
        BY <1>1, <2>2 DEF KeepsStatus
      <3>2. v \in Seen(d)
        BY <1>1, <2>1, <3>1 DEF TerminalPhases
      <3>3. Used(d, v)
        BY <1>1, <3>1, <3>2 DEF RunsInv, SuccessUses
      <3> QED BY <1>1, <3>1, <3>3, JobStays DEF Used
    <2>3. CASE server'[d].status = NoStatus
      <3>1. NoStatus.phase = ""
        BY DEF NoStatus
      <3> QED BY <1>1, <2>3, <3>1
    <2>4. CASE Saves(d)
      <3>1. /\ pc[d] = "saveStatus" /\ todo[d].phase = "Succeeded"
            /\ server[d].live /\ server[d].uid = server'[d].uid
        BY <1>1, <2>4 DEF Saves, CanUpdate
      <3>2. local[d] = server[d] /\ cache[d] = server[d] /\ watch[d] = {}
        BY <1>t, <2>4, AcceptedIsCurrent DEF Saves
      <3>3. v = local[d]
        BY <2>1, <3>2 DEF Seen
      <3>4. Used(d, local[d])
        BY <3>1, <3>2 DEF RunsInv, SuccessUses
      <3> QED BY <1>1, <3>1, <3>3, <3>4, JobStays DEF Used
    <2> QED BY <2>2, <2>3, <2>4, StatusWrites
  <1> QED BY <1>1, SaveUsesNext DEF SuccessUses, Used

LEMMA RunsInvNext ==
    ASSUME IInv, RunsInv, [Next]_vars
    PROVE  RunsInv'
  <1>1. IInv' /\ OutcomeSticks
    BY NextInv DEF RunsInv
  <1>2. OutcomeSticks'
    BY <1>1, SticksNext
  <1>3. LiveUids'
    BY LiveUidsNext DEF RunsInv
  <1>4. RunOwners' /\ CacheShowsRuns' /\ OutcomeIsOwn'
    BY RunOwnersNext, CacheShowsRunsNext, OutcomeIsOwnNext
  <1>5. \A d \in Deployments :
            RunNames(d)' /\ EngineKnown(d)' /\ SaveIsBacked(d)' /\ SuccessUses(d)'
    BY RunNamesNext, EngineKnownNext, SaveIsBackedNext, SuccessUsesNext
  <1> QED BY <1>2, <1>3, <1>4, <1>5 DEF RunsInv

LEMMA RunsInvInit == Init => RunsInv
  <1> SUFFICES ASSUME Init PROVE RunsInv
    OBVIOUS
  <1>1. \A d \in Deployments :
            /\ server[d] = NoObject(d) /\ Seen(d) = {NoObject(d)} /\ pc[d] = "idle"
            /\ ~NoObject(d).live /\ NoObject(d).uid = 0 /\ NoObject(d).status.run = NoRun
    BY DEF Init, Seen, NoObject, NoStatus
  <1>2. \A n \in Runs : runs[n].state = "absent" /\ runCache[n].state = "absent"
    BY DEF Init, NoRunObject
  <1>3. OutcomeSticks /\ LiveUids /\ OutcomeIsOwn
    BY <1>1 DEF OutcomeSticks, LiveUids, OutcomeIsOwn
  <1>4. RunOwners /\ CacheShowsRuns
    BY <1>2 DEF RunOwners, CacheShowsRuns
  <1>5. \A d \in Deployments :
            RunNames(d) /\ EngineKnown(d) /\ SaveIsBacked(d) /\ SuccessUses(d)
    BY <1>1 DEF RunNames, EngineKnown, SaveIsBacked, SuccessUses
  <1> QED BY <1>3, <1>4, <1>5 DEF RunsInv

-----------------------------------------------------------------------------
(* The theorems *)

\* The invariant of runs and outcomes holds in every reachable state.
THEOREM RunsInvariant == Spec => []RunsInv
  <1>1. IInv /\ RunsInv /\ [Next]_vars => RunsInv'
    BY RunsInvNext
  <1> QED BY <1>1, RunsInvInit, Invariance, PTL DEF Spec

\* updatePipelineRunStatus and updateJobStatus report what happened: a run that
\* ended so is still there, of this CR or of one with the same PipelineRun name.
THEOREM OutcomesAreOwn == Spec => []OutcomeIsOwn
  <1>1. RunsInv => OutcomeIsOwn
    BY DEF RunsInv
  <1> QED BY <1>1, RunsInvariant, PTL

\* reconcileTektonResources and reconcileJobResources start nothing for a CR that
\* has reported success, however stale the copy they act on.
THEOREM SuccessStartsNothing == Spec => NoRunAfterSuccess
  <1> DEFINE Quiet ==
        \A n \in Runs :
            LET own == runs'[n].owner IN
            /\ runs[n].state = "absent" /\ runs'[n].state = "new"
            /\ Exists(own)
            /\ own.uid = 1 \/ n # JobOf[own.key]
            => server[own.key].status.phase # "Succeeded"
  <1>1. ASSUME IInv, RunsInv, [Next]_vars PROVE Quiet
    <2> SUFFICES ASSUME NEW n \in Runs,
                        runs[n].state = "absent", runs'[n].state = "new",
                        Exists(runs'[n].owner),
                        runs'[n].owner.uid = 1 \/ n # JobOf[runs'[n].owner.key],
                        server[runs'[n].owner.key].status.phase = "Succeeded"
                 PROVE  FALSE
      OBVIOUS
    <2>1. PICK d \in Deployments : Launches(d, n)
      BY <1>1, RunStep DEF runVars, OneRun, Progresses, Collected
    <2>2. runs'[n].owner.key = d /\ runs'[n].owner.uid = local[d].uid
      BY <2>1 DEF Launches, Self
    <2>3. /\ pc[d] \in {"job", "tekton"} /\ local[d] \in Seen(d)
          /\ local[d].live /\ local[d].status.phase \notin TerminalPhases
      BY <1>1, <2>1 DEF Launches, Seen, IInv, StepKnows
    <2>4. Used(d, local[d])
      BY <1>1, <2>2, <2>3 DEF Exists, RunsInv, SuccessUses
    <2>5. EngineKnown(d)
      BY <1>1 DEF RunsInv
    <2> QED BY <2>1, <2>2, <2>4, <2>5 DEF Launches, Used, EngineKnown, JobHeld
  <1> HIDE DEF Quiet
  <1>2. Spec => [][Quiet]_vars
    BY <1>1, RunsInvariant, Invariance, PTL DEF Spec
  <1> QED BY <1>2 DEF NoRunAfterSuccess, Quiet
=============================================================================
