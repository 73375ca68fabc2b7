\* One Deployment whose PipelineRuns get generated names, with a fault or a restart.
\* The cluster may come to rest: a state without successor is no error.
SPECIFICATION FairSpec
CONSTANTS
    NoRun = NoRun
    Runs <- GeneratedRuns
    Deployments <- OneDeployment
    Banners <- OneBanner
    Ansible <- Nobodys
    BrokenRepos <- Nobodys
    PostDeployment <- NoPostDeployment
    BannerOf <- OneBannerOf
    JobOf <- OneJobOf
    PipelineRunOf <- GeneratedPipelineRunOf
    GeneratedNames <- GeneratedPool
    MaxConcurrentReconciles = 5
    Budgets <- FaultOrRestart
INVARIANTS
    TypeOK
    NoLostWakeup
    CategoryOnlyWhenFailed
    OutcomeIsOwn
PROPERTIES
    BannerNeedsFinalizer
    NoRunAfterSuccess
    ImplementsLifecycle
    RunIsRecorded
    OutcomeIsReported
    DeletionCompletes
CHECK_DEADLOCK FALSE
