\* A Deployment and its post-deployment CR under fairness, with a fault or a
\* restart; the repository of the child is unusable, so that it stays in flight.
\* The cluster may come to rest: a state without successor is no error.
SPECIFICATION FairSpec
CONSTANTS
    NoRun = NoRun
    Runs <- ChainRuns
    Deployments <- ChainDeployments
    Banners <- ChainBanners
    Ansible <- Nobodys
    BrokenRepos <- OnlyP
    PostDeployment <- ChainPostDeployment
    BannerOf <- ChainBannerOf
    JobOf <- ChainJobOf
    PipelineRunOf <- ChainPipelineRunOf
    GeneratedNames <- ChainGenerated
    MaxConcurrentReconciles = 5
    Budgets <- FaultOrRestart
INVARIANTS
    ChildOnlyAfterSuccess
PROPERTIES
    PostDeploymentStarts
    ChildFollowsParent
    DeletionCompletes
    RunIsRecorded
    OutcomeIsReported
CHECK_DEADLOCK FALSE
