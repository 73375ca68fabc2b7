-------------------------- MODULE Bootstrap_proofs --------------------------
(* Proofs of the safety properties of module Bootstrap, for any number of     *)
(* processes, task files, tokens, failures, crashes, rotations and edits.     *)
EXTENDS Bootstrap, TLAPS

\* Spending, exiting and retrying keep the types of what they assign.
LEMMA ControlTypes ==
    ASSUME TypeOK, NEW p \in Processes
    PROVE  /\ \A what \in BudgetItems : Spend(what) => budget' \in [BudgetItems -> Nat]
           /\ \A step \in Steps : Goto(p, step) => pc' \in [Processes -> Steps]
           /\ Exit(p) => /\ pc' \in [Processes -> Steps]
                         /\ pat' \in [Processes -> Tokens \cup {NoToken}]
                         /\ saCopy' \in [Processes -> Nat]
                         /\ pending' \in [Processes -> SUBSET TaskFiles]
<1>1. ASSUME NEW what \in BudgetItems, Spend(what)
      PROVE  budget' \in [BudgetItems -> Nat]
  BY <1>1 DEF TypeOK, Spend
<1>2. ASSUME NEW step \in Steps, Goto(p, step)
      PROVE  pc' \in [Processes -> Steps]
  BY <1>2 DEF TypeOK, Goto
<1>3. ASSUME Exit(p)
      PROVE  /\ pc' \in [Processes -> Steps]
             /\ pat' \in [Processes -> Tokens \cup {NoToken}]
             /\ saCopy' \in [Processes -> Nat]
             /\ pending' \in [Processes -> SUBSET TaskFiles]
  BY <1>3 DEF TypeOK, Exit, Steps
<1> QED BY <1>1, <1>2, <1>3

\* A process that exits knows nothing, and disturbs nobody.
LEMMA ExitKeeps ==
    ASSUME IInv, NEW p \in Processes, Exit(p),
           UNCHANGED <<bound, secret, mounts, applied, token, config>>,
           leader' \in Processes \cup {NoProcess},
           budget' \in [BudgetItems -> Nat]
    PROVE  IInv'
<1>1. TypeOK'
  BY ControlTypes DEF IInv, TypeOK
<1>2. MountedOnce'
  BY DEF IInv, MountedOnce
<1>3. ASSUME NEW q \in Processes PROVE StepKnows(q)'
  <2>1. CASE q = p
    BY <2>1 DEF IInv, TypeOK, StepKnows, At, Exit
  <2>2. CASE q # p
    BY <2>2 DEF IInv, TypeOK, StepKnows, At, Exit
  <2> QED BY <2>1, <2>2
<1> QED BY <1>1, <1>2, <1>3 DEF IInv

\* A process that moves on without touching the cluster keeps the invariant when
\* it knows what the step it moves to requires.
LEMMA GotoKeeps ==
    ASSUME IInv, NEW p \in Processes, NEW step \in Steps, Goto(p, step),
           UNCHANGED clusterVars,
           budget' \in [BudgetItems -> Nat],
           pat' \in [Processes -> Tokens \cup {NoToken}],
           saCopy' \in [Processes -> Nat],
           pending' \in [Processes -> SUBSET TaskFiles],
           \A q \in Processes \ {p} : pat'[q] = pat[q] /\ saCopy'[q] = saCopy[q],
           StepKnows(p)'
    PROVE  IInv'
<1>1. TypeOK'
  BY ControlTypes DEF IInv, TypeOK, clusterVars
<1>2. MountedOnce'
  BY DEF IInv, MountedOnce, clusterVars
<1>3. ASSUME NEW q \in Processes, q # p PROVE StepKnows(q)'
  BY <1>3 DEF IInv, TypeOK, StepKnows, At, Goto, clusterVars
<1> QED BY <1>1, <1>2, <1>3 DEF IInv

\* An error of a retried call keeps the invariant when the step the retry goes
\* back to requires nothing new.
LEMMA RetryKeeps ==
    ASSUME IInv, NEW p \in Processes, NEW step \in Steps, Retry(p, step),
           UNCHANGED clusterVars,
           budget' \in [BudgetItems -> Nat],
           Goto(p, step) /\ UNCHANGED memory => StepKnows(p)'
    PROVE  IInv'
<1>1. CASE Goto(p, step) /\ UNCHANGED memory
  BY <1>1, GotoKeeps DEF memory, IInv, TypeOK
<1>2. CASE Exit(p)
  BY <1>2, ExitKeeps DEF clusterVars, IInv, TypeOK
<1> QED BY <1>1, <1>2 DEF Retry

\* Every call of main keeps the invariant.
LEMMA ProcessInv ==
    ASSUME IInv, NEW p \in Processes, ProcessStep(p)
    PROVE  IInv'
<1> USE DEF Fault, NoFault
<1>t. /\ \A b : b \in BudgetItems /\ Spend(b) => budget' \in [BudgetItems -> Nat]
      /\ UNCHANGED budget => budget' \in [BudgetItems -> Nat]
      /\ "fault" \in BudgetItems
  BY ControlTypes DEF IInv, TypeOK, BudgetItems
<1>1. CASE Boot(p)
  <2>1. StepKnows(p)'
    BY <1>1 DEF Boot, IInv, TypeOK, StepKnows, At, Goto, Steps
  <2> QED BY <1>1, <1>t, <2>1, GotoKeeps DEF Boot, memory, IInv, TypeOK, Steps
<1>2. CASE GetClusterRoleBinding(p)
  <2>1. CASE /\ UNCHANGED budget /\ UNCHANGED memory
             /\ Goto(p, IF bound THEN "updateCRB" ELSE "createCRB")
    <3>1. StepKnows(p)'
      BY <1>2, <2>1 DEF GetClusterRoleBinding, clusterVars, IInv, TypeOK, StepKnows, At, Goto, Steps
    <3> QED BY <1>2, <1>t, <2>1, <3>1, GotoKeeps
            DEF GetClusterRoleBinding, memory, IInv, TypeOK, Steps
  <2>2. CASE Spend("fault") /\ Exit(p)
    BY <1>2, <1>t, <2>2, ExitKeeps DEF GetClusterRoleBinding, clusterVars, IInv, TypeOK
  <2> QED BY <1>2, <2>1, <2>2 DEF GetClusterRoleBinding
<1>3. CASE CreateClusterRoleBinding(p)
  <2>1. CASE bound' = TRUE /\ Goto(p, "rbacConfig") /\ UNCHANGED <<memory, budget>>
    <3>1. TypeOK'
      BY <1>3, <2>1, ControlTypes
         DEF CreateClusterRoleBinding, memory, IInv, TypeOK, Steps
    <3>2. MountedOnce' /\ \A q \in Processes : StepKnows(q)'
      BY <1>3, <2>1 DEF CreateClusterRoleBinding, memory, IInv, TypeOK, MountedOnce,
                        StepKnows, At, Goto
    <3> QED BY <3>1, <3>2 DEF IInv
  <2>2. CASE Exit(p) /\ UNCHANGED bound /\ (UNCHANGED budget \/ Spend("fault"))
    BY <1>3, <1>t, <2>2, ExitKeeps DEF CreateClusterRoleBinding, IInv, TypeOK
  <2> QED BY <1>3, <2>1, <2>2 DEF CreateClusterRoleBinding
<1>4. CASE UpdateClusterRoleBinding(p)
  <2>1. CASE UNCHANGED <<budget, memory>> /\ Goto(p, "rbacConfig")
    <3>1. bound
      BY <1>4 DEF UpdateClusterRoleBinding, IInv, TypeOK, StepKnows, At
    <3>2. StepKnows(p)'
      BY <1>4, <2>1, <3>1
         DEF UpdateClusterRoleBinding, clusterVars, IInv, TypeOK, StepKnows, At, Goto, Steps
    <3> QED BY <1>4, <1>t, <2>1, <3>2, GotoKeeps
            DEF UpdateClusterRoleBinding, memory, IInv, TypeOK, Steps
  <2>2. CASE Spend("fault") /\ Exit(p)
    BY <1>4, <1>t, <2>2, ExitKeeps DEF UpdateClusterRoleBinding, clusterVars, IInv, TypeOK
  <2> QED BY <1>4, <2>1, <2>2 DEF UpdateClusterRoleBinding
<1>5. ASSUME NEW step, NEW next \in Steps,
             <<step, next>> \in {<<"rbacConfig", "rbacPAT">>, <<"tasksConfig", "tasksPAT">>},
             LoadFromConfigMap(p, step, next)
      PROVE  IInv'
  <2>1. CASE UNCHANGED <<budget, memory>> /\ Goto(p, next)
    <3>1. StepKnows(p)'
      BY <1>5, <2>1
         DEF LoadFromConfigMap, clusterVars, memory, IInv, TypeOK, StepKnows, At, Goto
    <3> QED BY <1>5, <1>t, <2>1, <3>1, GotoKeeps
            DEF LoadFromConfigMap, memory, IInv, TypeOK
  <2>2. CASE (UNCHANGED budget \/ Spend("fault")) /\ Exit(p)
    BY <1>5, <1>t, <2>2, ExitKeeps DEF LoadFromConfigMap, clusterVars, IInv, TypeOK
  <2> QED BY <1>5, <2>1, <2>2 DEF LoadFromConfigMap
<1>6. ASSUME NEW step \in Steps, NEW next \in Steps,
             <<step, next>> \in {<<"rbacPAT", "secret">>, <<"tasksPAT", "tree">>},
             FetchToken(p, step, next)
      PROVE  IInv'
  <2>1. CASE /\ UNCHANGED <<budget, saCopy, pending>>
             /\ Goto(p, next)
             /\ pat' = [pat EXCEPT ![p] = token]
    <3>1. pat' \in [Processes -> Tokens \cup {NoToken}] /\ pat'[p] # NoToken
      BY <2>1, ConstantsAssumption DEF IInv, TypeOK
    <3>2. StepKnows(p)'
      BY <1>6, <2>1, <3>1
         DEF FetchToken, clusterVars, IInv, TypeOK, StepKnows, At, Goto
    <3> QED BY <1>6, <1>t, <2>1, <3>1, <3>2, GotoKeeps
            DEF FetchToken, IInv, TypeOK
  <2>2. CASE Spend("fault") /\ Retry(p, step)
    <3>1. ASSUME Goto(p, step), UNCHANGED memory PROVE StepKnows(p)'
      BY <1>6, <3>1
         DEF FetchToken, clusterVars, memory, IInv, TypeOK, StepKnows, At, Goto
    <3> QED BY <1>6, <1>t, <2>2, <3>1, RetryKeeps DEF FetchToken
  <2> QED BY <1>6, <2>1, <2>2 DEF FetchToken
<1>7. CASE CreateGitHubSecret(p)
  <2>1. CASE /\ UNCHANGED <<budget, memory>> /\ Goto(p, "getSA")
             /\ secret' = IF secret = NoToken THEN pat[p] ELSE secret
    <3>1. secret' \in Tokens \cup {NoToken} /\ secret' # NoToken
      BY <1>7, <2>1 DEF CreateGitHubSecret, IInv, TypeOK, StepKnows, At
    <3>2. TypeOK'
      BY <1>7, <2>1, <3>1, ControlTypes
         DEF CreateGitHubSecret, memory, IInv, TypeOK, Steps
    <3>3. MountedOnce' /\ \A q \in Processes : StepKnows(q)'
      BY <1>7, <2>1, <3>1 DEF CreateGitHubSecret, memory, IInv, TypeOK, MountedOnce,
                              StepKnows, At, Goto
    <3> QED BY <3>2, <3>3 DEF IInv
  <2>2. CASE Spend("fault") /\ Retry(p, "secret") /\ UNCHANGED secret
    <3>1. ASSUME Goto(p, "secret"), UNCHANGED memory PROVE StepKnows(p)'
      BY <1>7, <2>2, <3>1
         DEF CreateGitHubSecret, memory, IInv, TypeOK, StepKnows, At, Goto
    <3> QED BY <1>7, <1>t, <2>2, <3>1, RetryKeeps
            DEF CreateGitHubSecret, clusterVars, Steps
  <2> QED BY <1>7, <2>1, <2>2 DEF CreateGitHubSecret
<1>8. CASE GetServiceAccount(p)
  <2>1. CASE /\ UNCHANGED <<budget, pat, pending>>
             /\ Goto(p, IF mounts > 0 THEN "tasksConfig" ELSE "updateSA")
             /\ saCopy' = [saCopy EXCEPT ![p] = mounts]
    <3>1. saCopy' \in [Processes -> Nat]
      BY <2>1 DEF IInv, TypeOK
    <3>2. StepKnows(p)'
      BY <1>8, <2>1
         DEF GetServiceAccount, clusterVars, IInv, TypeOK, StepKnows, At, Goto
    <3>3. (IF mounts > 0 THEN "tasksConfig" ELSE "updateSA") \in Steps
      BY DEF Steps
    <3> QED BY <1>8, <1>t, <2>1, <3>1, <3>2, <3>3, GotoKeeps
            DEF GetServiceAccount, IInv, TypeOK
  <2>2. CASE Spend("fault") /\ Retry(p, "getSA")
    <3>1. ASSUME Goto(p, "getSA"), UNCHANGED memory PROVE StepKnows(p)'
      BY <1>8, <2>2, <3>1
         DEF GetServiceAccount, clusterVars, memory, IInv, TypeOK, StepKnows, At, Goto
    <3> QED BY <1>8, <1>t, <2>2, <3>1, RetryKeeps DEF GetServiceAccount, Steps
  <2> QED BY <1>8, <2>1, <2>2 DEF GetServiceAccount
<1>9. CASE UpdateServiceAccount(p)
  <2>1. CASE /\ mounts = saCopy[p] /\ mounts' = mounts + 1
             /\ UNCHANGED <<budget, memory>> /\ Goto(p, "tasksConfig")
    <3>1. mounts = 0 /\ mounts' = 1
      BY <1>9, <2>1 DEF UpdateServiceAccount, IInv, TypeOK, StepKnows, At
    <3>2. TypeOK'
      BY <1>9, <2>1, <3>1, ControlTypes
         DEF UpdateServiceAccount, memory, IInv, TypeOK, Steps
    <3>3. MountedOnce' /\ \A q \in Processes : StepKnows(q)'
      BY <1>9, <2>1, <3>1 DEF UpdateServiceAccount, memory, IInv, TypeOK, MountedOnce,
                              StepKnows, At, Goto
    <3> QED BY <3>2, <3>3 DEF IInv
  <2>2. CASE /\ UNCHANGED budget \/ Spend("fault")
             /\ Retry(p, "getSA") /\ UNCHANGED mounts
    <3>1. ASSUME Goto(p, "getSA"), UNCHANGED memory PROVE StepKnows(p)'
      BY <1>9, <2>2, <3>1
         DEF UpdateServiceAccount, memory, IInv, TypeOK, StepKnows, At, Goto
    <3> QED BY <1>9, <1>t, <2>2, <3>1, RetryKeeps
            DEF UpdateServiceAccount, clusterVars, Steps
  <2> QED BY <1>9, <2>1, <2>2 DEF UpdateServiceAccount
<1>10. CASE FetchTree(p)
  <2>1. CASE /\ UNCHANGED <<budget, pat, saCopy>> /\ Goto(p, "apply")
             /\ pending' = [pending EXCEPT ![p] = TaskFiles]
    <3>1. pending' \in [Processes -> SUBSET TaskFiles]
      BY <2>1 DEF IInv, TypeOK
    <3>2. StepKnows(p)'
      BY <1>10, <2>1 DEF FetchTree, clusterVars, IInv, TypeOK, StepKnows, At, Goto
    <3> QED BY <1>10, <1>t, <2>1, <3>1, <3>2, GotoKeeps
            DEF FetchTree, IInv, TypeOK, Steps
  <2>2. CASE Spend("fault") /\ Exit(p)
    BY <1>10, <1>t, <2>2, ExitKeeps DEF FetchTree, clusterVars, IInv, TypeOK
  <2> QED BY <1>10, <2>1, <2>2 DEF FetchTree
<1>11. CASE ApplyFile(p)
  <2>1. ASSUME NEW f \in pending[p],
               pending' = [pending EXCEPT ![p] = @ \ {f}],
               applied' \in {applied, applied \cup {f}},
               UNCHANGED budget \/ Spend("fault"),
               UNCHANGED <<pc, pat, saCopy>>
        PROVE  IInv'
    <3>1. TypeOK'
      BY <1>11, <1>t, <2>1 DEF ApplyFile, IInv, TypeOK
    <3> QED BY <1>11, <2>1, <3>1 DEF ApplyFile, IInv, MountedOnce, StepKnows, At
  <2>2. CASE Goto(p, "start") /\ UNCHANGED <<applied, memory, budget>>
    <3>1. StepKnows(p)'
      BY <1>11, <2>2 DEF ApplyFile, IInv, TypeOK, StepKnows, At, Goto
    <3> QED BY <1>11, <1>t, <2>2, <3>1, GotoKeeps
            DEF ApplyFile, clusterVars, memory, IInv, TypeOK, Steps
  <2> QED BY <1>11, <2>1, <2>2 DEF ApplyFile
<1>12. CASE StartManager(p)
  <2>1. TypeOK'
    BY <1>12, ControlTypes DEF StartManager, memory, IInv, TypeOK, Steps
  <2>2. MountedOnce' /\ \A q \in Processes : StepKnows(q)'
    BY <1>12 DEF StartManager, memory, IInv, TypeOK, MountedOnce, StepKnows, At, Goto
  <2> QED BY <2>1, <2>2 DEF IInv
<1>13. CASE \/ LoadFromConfigMap(p, "rbacConfig", "rbacPAT")
            \/ LoadFromConfigMap(p, "tasksConfig", "tasksPAT")
  BY <1>5, <1>13 DEF Steps
<1>14. CASE GetGitHubPAT(p) \/ FetchPAT(p)
  BY <1>6, <1>14 DEF GetGitHubPAT, FetchPAT, Steps
<1> QED BY <1>1, <1>2, <1>3, <1>4, <1>7, <1>8, <1>9, <1>10, <1>11, <1>12, <1>13, <1>14
        DEF ProcessStep

\* The inductive invariant of the start-up: what main has established by each
\* call stays established, however processes interleave, fail and crash.
THEOREM Invariance == Spec => []IInv
<1>1. Init => IInv
  <2>1. ASSUME Init PROVE TypeOK
    BY <2>1, ConstantsAssumption DEF Init, TypeOK, Steps
  <2>2. ASSUME Init PROVE MountedOnce /\ \A p \in Processes : StepKnows(p)
    BY <2>2 DEF Init, MountedOnce, StepKnows, At
  <2> QED BY <2>1, <2>2 DEF IInv
<1>2. ASSUME IInv, [Next]_vars PROVE IInv'
  <2>1. ASSUME NEW p \in Processes, ProcessStep(p) PROVE IInv'
    BY <1>2, <2>1, ProcessInv
  <2>2. ASSUME NEW p \in Processes, Crash(p) PROVE IInv'
    <3>1. budget' \in [BudgetItems -> Nat]
      BY <1>2, <2>2, ControlTypes DEF Crash, IInv, BudgetItems
    <3>2. leader' \in Processes \cup {NoProcess}
      BY <1>2, <2>2 DEF Crash, IInv, TypeOK
    <3> QED BY <1>2, <2>2, <3>1, <3>2, ExitKeeps DEF Crash
  <2>3. CASE RotateToken
    <3>1. budget' \in [BudgetItems -> Nat]
      BY <1>2, <2>3 DEF RotateToken, Spend, IInv, TypeOK, BudgetItems
    <3>2. TypeOK'
      BY <1>2, <2>3, <3>1 DEF RotateToken, memory, IInv, TypeOK
    <3> QED BY <1>2, <2>3, <3>2 DEF RotateToken, memory, IInv, MountedOnce, StepKnows, At
  <2>4. CASE EditConfig
    <3>1. budget' \in [BudgetItems -> Nat]
      BY <1>2, <2>4 DEF EditConfig, Spend, NoFault, IInv, TypeOK, BudgetItems
    <3>2. TypeOK'
      BY <1>2, <2>4, <3>1 DEF EditConfig, memory, IInv, TypeOK
    <3> QED BY <1>2, <2>4, <3>2 DEF EditConfig, memory, IInv, MountedOnce, StepKnows, At
  <2>5. CASE UNCHANGED vars
    BY <1>2, <2>5 DEF vars, IInv, TypeOK, MountedOnce, StepKnows, At
  <2> QED BY <1>2, <2>1, <2>2, <2>3, <2>4, <2>5 DEF Next
<1> QED BY <1>1, <1>2, PTL DEF Spec

\* mountSecretToServiceAccount never lists the Secret twice, for any number of
\* processes that check and append side by side.
THEOREM NeverMountedTwice == Spec => []MountedOnce
<1>1. IInv => MountedOnce
  BY DEF IInv
<1> QED BY <1>1, Invariance, PTL

\* main starts the manager only when the role binding, the Secret and its mount
\* are in place.
THEOREM AlwaysPrepared == Spec => []ServesPrepared
<1>1. IInv => ServesPrepared
  BY DEF IInv, ServesPrepared, StepKnows
<1> QED BY <1>1, Invariance, PTL
=============================================================================
