----------------------- MODULE MCDeploymentController -----------------------
(* Small instances of DeploymentController for TLC. *)
EXTENDS DeploymentController, TLC

\* One Deployment `a`.
OneDeployment == {"a"}
OneBanner == {"a-status-banner"}
OneBannerOf == "a" :> "a-status-banner"
OneRuns == {"a-ansible-runner", "a-run"}
OneJobOf == "a" :> "a-ansible-runner"
OnePipelineRunOf == "a" :> "a-run"
OneGenerated == "a" :> {}
\* The same with metadata.generateName and two names to come.
GeneratedRuns == {"a-ansible-runner", "a-run-1", "a-run-2"}
GeneratedPipelineRunOf == "a" :> NoRun
GeneratedPool == "a" :> {"a-run-1", "a-run-2"}
NoPostDeployment == [d \in {} |-> d]

\* A Deployment `a` and its post-deployment CR `p`, with banners and runs of
\* their own.
ChainDeployments == {"a", "p"}
ChainBanners == {"a-status-banner", "p-status-banner"}
ChainBannerOf == "a" :> "a-status-banner" @@ "p" :> "p-status-banner"
ChainRuns == {"a-ansible-runner", "p-ansible-runner", "a-run", "p-run"}
ChainJobOf == "a" :> "a-ansible-runner" @@ "p" :> "p-ansible-runner"
ChainPipelineRunOf == "a" :> "a-run" @@ "p" :> "p-run"
ChainGenerated == "a" :> {} @@ "p" :> {}
ChainPostDeployment == "a" :> "p"

\* Deployments `a` and `b` whose repositories name the same PipelineRun, and which
\* have the same name in two namespaces as far as their banner goes.
SharedDeployments == {"a", "b"}
SharedBannerOf == "a" :> "a-status-banner" @@ "b" :> "a-status-banner"
SharedRuns == {"a-ansible-runner", "b-ansible-runner", "run"}
SharedJobOf == "a" :> "a-ansible-runner" @@ "b" :> "b-ansible-runner"
SharedPipelineRunOf == "a" :> "run" @@ "b" :> "run"
SharedGenerated == "a" :> {} @@ "b" :> {}

Nobodys == {}
OnlyA == {"a"}
OnlyP == {"p"}

\* Users create, and may delete, a key `incarnations` times.
BudgetOf(incarnations, faults, restarts, edits, resyncs) ==
    [create |-> incarnations, delete |-> incarnations, fault |-> faults,
     restart |-> restarts, edit |-> edits, resync |-> resyncs]

NoFaults == {BudgetOf(1, 0, 0, 0, 0)}
OneFault == {BudgetOf(1, 1, 0, 0, 0)}
TwoLives == {[BudgetOf(1, 0, 0, 0, 0) EXCEPT !.create = 2]}
\* Two incarnations, a fault and a restart; or a fault and an edit of the spec that
\* is taken back; or an edit and a resync.
Disturbances ==
    {BudgetOf(2, 1, 1, 0, 0), BudgetOf(1, 1, 0, 2, 0), BudgetOf(1, 0, 0, 1, 1)}
\* Two creations, and a deletion or a fault.
TwoKeys ==
    {[b \in BudgetItems |-> IF b = "create" THEN 2 ELSE IF b = what THEN 1 ELSE 0] :
        what \in {"delete", "fault"}}
\* A fault or a restart.
FaultOrRestart == {BudgetOf(1, 1, 0, 0, 0), BudgetOf(1, 0, 1, 0, 0)}
=============================================================================
