\* One Deployment: two incarnations with a fault and a restart, or one with a
\* fault and two edits of its engine, or with an edit and a resync.
\* The cluster may come to rest: a state without successor is no error.
SPECIFICATION Spec
CONSTANTS
    NoRun = NoRun
    Runs <- OneRuns
    Deployments <- OneDeployment
    Banners <- OneBanner
    Ansible <- Nobodys
    BrokenRepos <- Nobodys
    PostDeployment <- NoPostDeployment
    BannerOf <- OneBannerOf
    JobOf <- OneJobOf
    PipelineRunOf <- OnePipelineRunOf
    GeneratedNames <- OneGenerated
    MaxConcurrentReconciles = 5
    Budgets <- Disturbances
INVARIANTS
    IInv
    NoLostWakeup
    CategoryOnlyWhenFailed
    OutcomeIsOwn
PROPERTIES
    BannerNeedsFinalizer
    NoRunAfterSuccess
    ImplementsLifecycle
CHECK_DEADLOCK FALSE
