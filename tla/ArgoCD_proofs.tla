---------------------------- MODULE ArgoCD_proofs ----------------------------
(***************************************************************************)
(* Whatever fails and whenever the process ends, an Application has its    *)
(* repository Secret and its ArgoCD instance.                              *)
(***************************************************************************)
EXTENDS ArgoCD, TLAPS

LEMMA InitIInv == Init => IInv
  BY DEF Init, IInv, TypeOK, AppIsServed, Progress, Steps

\* The steps of Run up to the Application.
LEMMA DeploymentSteps ==
    ASSUME IInv,
           \/ Start \/ LoadFromConfigMap \/ GetArgoCD \/ createDeployment
           \/ waitForDeployment \/ CheckArgoCD \/ getApplication
    PROVE  IInv'
  <1> USE DEF IInv, TypeOK, AppIsServed, Progress, Steps, Goto, NewTimers,
              cluster, timers
  <1>1. CASE Start
    BY <1>1 DEF Start
  <1>2. CASE LoadFromConfigMap
    BY <1>2 DEF LoadFromConfigMap
  <1>3. CASE GetArgoCD
    BY <1>3 DEF GetArgoCD
  <1>4. CASE createDeployment
    BY <1>4 DEF createDeployment
  <1>5. CASE waitForDeployment
    BY <1>5 DEF waitForDeployment
  <1>6. CASE CheckArgoCD
    BY <1>6 DEF CheckArgoCD
  <1>7. CASE getApplication
    BY <1>7 DEF getApplication
  <1> QED BY <1>1, <1>2, <1>3, <1>4, <1>5, <1>6, <1>7

\* The steps of createApplication and waitForTasks.
LEMMA ApplicationSteps ==
    ASSUME IInv,
           \/ CreateArgoCDRBAC \/ CreateApplication \/ waitForTasks \/ GiveUp
           \/ DeleteApplication \/ CheckTasks
    PROVE  IInv'
  <1> USE DEF IInv, TypeOK, AppIsServed, Progress, Steps, Goto, NewTimers,
              cluster, timers
  <1>1. CASE CreateArgoCDRBAC
    BY <1>1 DEF CreateArgoCDRBAC, CreateFails
  <1>2. CASE CreateApplication
    BY <1>2 DEF CreateApplication, CreateFails
  <1>3. CASE waitForTasks
    BY <1>3 DEF waitForTasks
  <1>4. CASE GiveUp
    BY <1>4 DEF GiveUp
  <1>5. CASE DeleteApplication
    BY <1>5 DEF DeleteApplication
  <1>6. CASE CheckTasks
    BY <1>6 DEF CheckTasks
  <1> QED BY <1>1, <1>2, <1>3, <1>4, <1>5, <1>6

\* What happens around Run.
LEMMA OtherSteps ==
    ASSUME IInv,
           \/ TimerFires \/ Cancel \/ ProcessEnds \/ ServerChanges
           \/ ApplicationChanges \/ UNCHANGED vars
    PROVE  IInv'
  <1> USE DEF IInv, TypeOK, AppIsServed, Progress, Steps, Goto, cluster, timers
  <1>1. CASE TimerFires
    BY <1>1 DEF TimerFires
  <1>2. CASE Cancel
    BY <1>2 DEF Cancel
  <1>3. CASE ProcessEnds
    BY <1>3 DEF ProcessEnds
  <1>4. CASE ServerChanges
    BY <1>4 DEF ServerChanges
  <1>5. CASE ApplicationChanges
    BY <1>5 DEF ApplicationChanges
  <1>6. CASE UNCHANGED vars
    BY <1>6 DEF vars
  <1> QED BY <1>1, <1>2, <1>3, <1>4, <1>5, <1>6

\* Every reachable state satisfies the inductive invariant: where Run is tells
\* what is installed.
THEOREM ArgoCDInvariant == Spec => []IInv
  <1>1. IInv /\ [Next]_vars => IInv'
    BY DeploymentSteps, ApplicationSteps, OtherSteps DEF Next, RunStep
  <1> QED BY <1>1, InitIInv, PTL DEF Spec

\* createApplication never leaves an Application without the Secret and the
\* ArgoCD instance it needs.
THEOREM ApplicationsAreServed == Spec => []AppIsServed
  <1>1. IInv => AppIsServed
    BY DEF IInv
  <1> QED BY <1>1, ArgoCDInvariant, PTL
=============================================================================
