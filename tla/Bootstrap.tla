----------------------------- MODULE Bootstrap ------------------------------
(***************************************************************************)
(* What an operator process does before it reconciles anything (cmd/main.go*)
(* with pkg/rbac, pkg/tasks, pkg/ibm and pkg/config): bind the pipeline    *)
(* service account to cluster-admin, store the GitHub token in a Secret,   *)
(* mount that Secret, apply the Tekton task files, and start the manager,  *)
(* which waits for the leader lease.                                       *)
(*                                                                         *)
(* Only the manager is behind the lease: during a rollout the processes of *)
(* the old and of the new pod prepare the same objects side by side.       *)
(***************************************************************************)
EXTENDS Naturals

CONSTANTS
    Processes,   \* operator pods that may run at the same time
    NoProcess,   \* nobody holds the lease
    TaskFiles,   \* the .yaml blobs of the tasks repository
    Tokens,      \* values the GitHub PAT takes in Secrets Manager
    NoToken,     \* the Secret does not exist; no token fetched yet
    Budget       \* bounds: how many failed calls, crashes, token rotations and
                 \*   spoilt edits of the operator's ConfigMap a behaviour has

BudgetItems == {"fault", "crash", "rotate", "spoil"}

ASSUME ConstantsAssumption ==
    /\ NoProcess \notin Processes
    /\ NoToken \notin Tokens
    /\ Tokens # {}
    /\ Budget \in [BudgetItems -> Nat]

VARIABLES
    bound,      \* ClusterRoleBinding pipeline-clusteradmin-crb exists
    secret,     \* the token in Secret github-ibm-pat
    mounts,     \* how often service account "pipeline" lists that Secret
    applied,    \* task files whose objects are on the cluster
    token,      \* the token in Secrets Manager
    config,     \* the operator's ConfigMap is there with every required key
    leader,     \* holder of the leader lease
    pc,         \* pc[p]: the next call of process p
    pat,        \* pat[p]: the token p has fetched
    saCopy,     \* saCopy[p]: `mounts` as p read it
    pending,    \* pending[p]: task files p has not come to
    budget      \* what is left of Budget

vars == <<bound, secret, mounts, applied, token, config, leader, pc, pat, saCopy,
          pending, budget>>

clusterVars == <<bound, secret, mounts, applied, token, config, leader>>
memory      == <<pat, saCopy, pending>>

Steps == {"down", "getCRB", "createCRB", "updateCRB", "rbacConfig", "rbacPAT",
          "secret", "getSA", "updateSA", "tasksConfig", "tasksPAT", "tree",
          "apply", "start", "serving"}

Init ==
    /\ bound = FALSE
    /\ secret = NoToken
    /\ mounts = 0
    /\ applied = {}
    /\ token \in Tokens
    /\ config \in BOOLEAN
    /\ leader = NoProcess
    /\ pc = [p \in Processes |-> "down"]
    /\ pat = [p \in Processes |-> NoToken]
    /\ saCopy = [p \in Processes |-> 0]
    /\ pending = [p \in Processes |-> {}]
    /\ budget = Budget

-----------------------------------------------------------------------------

Spend(what) ==
    /\ budget[what] > 0
    /\ budget' = [budget EXCEPT ![what] = @ - 1]

Fault == Spend("fault")

NoFault == UNCHANGED budget

At(p, step) == pc[p] = step

Goto(p, step) == pc' = [pc EXCEPT ![p] = step]

\* os.Exit(1): the kubelet will start the container again.
Exit(p) ==
    /\ pc' = [pc EXCEPT ![p] = "down"]
    /\ pat' = [pat EXCEPT ![p] = NoToken]
    /\ saCopy' = [saCopy EXCEPT ![p] = 0]
    /\ pending' = [pending EXCEPT ![p] = {}]

\* backoff.Retry after an error: try again from `step`, or, once
\* retryMaxElapsed is over, return the error, which ends the process.
Retry(p, step) ==
    \/ Goto(p, step) /\ UNCHANGED memory
    \/ Exit(p)

-----------------------------------------------------------------------------
(* main, call by call *)

\* The container starts: manager, controllers, webhook and client are set up.
\* A failure there leaves the process where it was.
Boot(p) ==
    /\ At(p, "down")
    /\ Goto(p, "getCRB")
    /\ UNCHANGED <<clusterVars, memory, budget>>

\* createPipelineRBAC: Get, then Create or Update.
GetClusterRoleBinding(p) ==
    /\ At(p, "getCRB")
    /\ UNCHANGED clusterVars
    /\ \/ /\ NoFault
          /\ Goto(p, IF bound THEN "updateCRB" ELSE "createCRB")
          /\ UNCHANGED memory
       \/ Fault /\ Exit(p)

\* AlreadyExists, when the other process was faster, is an error.
CreateClusterRoleBinding(p) ==
    /\ At(p, "createCRB")
    /\ UNCHANGED <<secret, mounts, applied, token, config, leader>>
    /\ \/ /\ ~bound
          /\ NoFault
          /\ bound' = TRUE
          /\ Goto(p, "rbacConfig")
          /\ UNCHANGED memory
       \/ /\ IF bound THEN NoFault ELSE Fault
          /\ Exit(p)
          /\ UNCHANGED bound

\* The update names no resourceVersion and writes what is there already.
UpdateClusterRoleBinding(p) ==
    /\ At(p, "updateCRB")
    /\ UNCHANGED clusterVars
    /\ \/ NoFault /\ Goto(p, "rbacConfig") /\ UNCHANGED memory
       \/ Fault /\ Exit(p)

\* The operator's configuration, read in rbac.Run and again in main.  A missing
\* ConfigMap or key is an error until somebody repairs it.
LoadFromConfigMap(p, step, next) ==
    /\ At(p, step)
    /\ UNCHANGED clusterVars
    /\ \/ config /\ NoFault /\ Goto(p, next) /\ UNCHANGED memory
       \/ ~config /\ NoFault /\ Exit(p)
       \/ Fault /\ Exit(p)

\* API key, Secrets Manager client and token, each call retried.
FetchToken(p, step, next) ==
    /\ At(p, step)
    /\ UNCHANGED clusterVars
    /\ \/ /\ NoFault
          /\ Goto(p, next)
          /\ pat' = [pat EXCEPT ![p] = token]
          /\ UNCHANGED <<saCopy, pending>>
       \/ Fault /\ Retry(p, step)

\* rbac fetches the token, and tasks fetches it again.
GetGitHubPAT(p) == FetchToken(p, "rbacPAT", "secret")

FetchPAT(p) == FetchToken(p, "tasksPAT", "tree")

\* Mutant: AlreadyExists is an error.
CreateGitHubSecretOnce(p) ==
    /\ At(p, "secret")
    /\ UNCHANGED <<bound, mounts, applied, token, config, leader>>
    /\ \/ /\ secret = NoToken
          /\ NoFault
          /\ secret' = pat[p]
          /\ Goto(p, "getSA")
          /\ UNCHANGED memory
       \/ /\ IF secret = NoToken THEN Fault ELSE NoFault
          /\ Exit(p)
          /\ UNCHANGED secret

\* A Secret that exists stays as it is, whatever token it holds.
CreateGitHubSecret(p) ==
    /\ At(p, "secret")
    /\ UNCHANGED <<bound, mounts, applied, token, config, leader>>
    /\ \/ /\ NoFault
          /\ secret' = IF secret = NoToken THEN pat[p] ELSE secret
          /\ Goto(p, "getSA")
          /\ UNCHANGED memory
       \/ /\ Fault
          /\ Retry(p, "secret")
          /\ UNCHANGED secret

\* mountSecretToServiceAccount: Get, and nothing to do when it is mounted.
GetServiceAccount(p) ==
    /\ At(p, "getSA")
    /\ UNCHANGED clusterVars
    /\ \/ /\ NoFault
          /\ Goto(p, IF mounts > 0 THEN "tasksConfig" ELSE "updateSA")
          /\ saCopy' = [saCopy EXCEPT ![p] = mounts]
          /\ UNCHANGED <<pat, pending>>
       \/ Fault /\ Retry(p, "getSA")

\* Mutant: the write does not depend on the version that was read.
UpdateServiceAccountBlindly(p) ==
    /\ At(p, "updateSA")
    /\ UNCHANGED <<bound, secret, applied, token, config, leader>>
    /\ \/ /\ NoFault
          /\ mounts' = mounts + 1
          /\ Goto(p, "tasksConfig")
          /\ UNCHANGED memory
       \/ /\ Fault
          /\ Retry(p, "getSA")
          /\ UNCHANGED mounts

\* Mutant: an error is logged, and main goes on.
UpdateServiceAccountBestEffort(p) ==
    /\ At(p, "updateSA")
    /\ UNCHANGED <<bound, secret, applied, token, config, leader, memory>>
    /\ Goto(p, "tasksConfig")
    /\ \/ /\ mounts = saCopy[p]
          /\ NoFault
          /\ mounts' = mounts + 1
       \/ /\ IF mounts = saCopy[p] THEN Fault ELSE NoFault
          /\ UNCHANGED mounts

\* The Update is refused (Conflict) unless the copy is the stored version; a
\* retry reads the service account again.
UpdateServiceAccount(p) ==
    /\ At(p, "updateSA")
    /\ UNCHANGED <<bound, secret, applied, token, config, leader>>
    /\ \/ /\ mounts = saCopy[p]
          /\ NoFault
          /\ mounts' = mounts + 1
          /\ Goto(p, "tasksConfig")
          /\ UNCHANGED memory
       \/ /\ IF mounts = saCopy[p] THEN Fault ELSE NoFault
          /\ Retry(p, "getSA")
          /\ UNCHANGED mounts

\* tasks.Sync: one listing of the repository, not retried.
FetchTree(p) ==
    /\ At(p, "tree")
    /\ UNCHANGED clusterVars
    /\ \/ /\ NoFault
          /\ Goto(p, "apply")
          /\ pending' = [pending EXCEPT ![p] = TaskFiles]
          /\ UNCHANGED <<pat, saCopy>>
       \/ Fault /\ Exit(p)

\* Server-side apply of one file; an error is logged and the file skipped.
ApplyFile(p) ==
    /\ At(p, "apply")
    /\ UNCHANGED <<bound, secret, mounts, token, config, leader>>
    /\ \/ \E f \in pending[p] :
             /\ pending' = [pending EXCEPT ![p] = @ \ {f}]
             /\ \/ NoFault /\ applied' = applied \cup {f}
                \/ Fault /\ UNCHANGED applied
             /\ UNCHANGED <<pc, pat, saCopy>>
       \/ /\ pending[p] = {}
          /\ NoFault
          /\ Goto(p, "start")
          /\ UNCHANGED <<applied, memory>>

\* mgr.Start: the controllers run once the lease is ours.
StartManager(p) ==
    /\ At(p, "start")
    /\ leader = NoProcess
    /\ leader' = p
    /\ Goto(p, "serving")
    /\ UNCHANGED <<bound, secret, mounts, applied, token, config, memory, budget>>

ProcessStep(p) ==
    \/ Boot(p)
    \/ GetClusterRoleBinding(p) \/ CreateClusterRoleBinding(p)
    \/ UpdateClusterRoleBinding(p)
    \/ LoadFromConfigMap(p, "rbacConfig", "rbacPAT") \/ GetGitHubPAT(p)
    \/ CreateGitHubSecret(p) \/ GetServiceAccount(p) \/ UpdateServiceAccount(p)
    \/ LoadFromConfigMap(p, "tasksConfig", "tasksPAT") \/ FetchPAT(p)
    \/ FetchTree(p) \/ ApplyFile(p)
    \/ StartManager(p)

\* The process dies at any point; a lease it held expires.
Crash(p) ==
    /\ ~At(p, "down")
    /\ Spend("crash")
    /\ Exit(p)
    /\ leader' = IF leader = p THEN NoProcess ELSE leader
    /\ UNCHANGED <<bound, secret, mounts, applied, token, config>>

RotateToken ==
    /\ Spend("rotate")
    /\ \E t \in Tokens \ {token} : token' = t
    /\ UNCHANGED <<bound, secret, mounts, applied, config, leader, pc, memory>>

\* An administrator spoils the ConfigMap, or creates or repairs it.
EditConfig ==
    /\ config' = ~config
    /\ IF config THEN Spend("spoil") ELSE NoFault
    /\ UNCHANGED <<bound, secret, mounts, applied, token, leader, pc, memory>>

Next ==
    \/ \E p \in Processes : ProcessStep(p) \/ Crash(p)
    \/ RotateToken
    \/ EditConfig

Spec == Init /\ [][Next]_vars

\* Processes run, and the kubelet restarts those that have ended.
Fairness == \A p \in Processes : WF_vars(ProcessStep(p))

FairSpec == Spec /\ Fairness

-----------------------------------------------------------------------------
(* Properties *)

\* Every variable keeps its type.
TypeOK ==
    /\ bound \in BOOLEAN
    /\ secret \in Tokens \cup {NoToken}
    /\ mounts \in Nat
    /\ applied \subseteq TaskFiles
    /\ token \in Tokens
    /\ config \in BOOLEAN
    /\ leader \in Processes \cup {NoProcess}
    /\ pc \in [Processes -> Steps]
    /\ pat \in [Processes -> Tokens \cup {NoToken}]
    /\ saCopy \in [Processes -> Nat]
    /\ pending \in [Processes -> SUBSET TaskFiles]
    /\ budget \in [BudgetItems -> Nat]

\* The service account lists the Secret at most once, although overlapping
\* processes and retries all check and append.
MountedOnce == mounts <= 1

\* A manager that reconciles finds what its pipelines need: the role binding,
\* a stored token, and the service account that carries it.
ServesPrepared ==
    \A p \in Processes :
        pc[p] \in {"start", "serving"} => bound /\ secret # NoToken /\ mounts > 0

\* What main has established once it is past a call: a fetched token, the role
\* binding, the Secret, the mount; and a service account about to be updated was
\* read without the Secret.
StepKnows(p) ==
    /\ At(p, "secret") => pat[p] # NoToken
    /\ pc[p] \notin {"down", "getCRB", "createCRB"} => bound
    /\ pc[p] \in {"getSA", "updateSA", "tasksConfig", "tasksPAT", "tree", "apply",
                  "start", "serving"} => secret # NoToken
    /\ At(p, "updateSA") => saCopy[p] = 0
    /\ pc[p] \in {"tasksConfig", "tasksPAT", "tree", "apply", "start", "serving"}
          => mounts > 0

\* The inductive invariant.
IInv == TypeOK /\ MountedOnce /\ \A p \in Processes : StepKnows(p)

\* Whatever one incarnation left half done, the next one gets past it: when
\* failures end and the ConfigMap is complete, some process serves, for good.
EventuallyServes ==
    <>[]config => <>[](\E p \in Processes : leader = p /\ pc[p] = "serving")
=============================================================================
