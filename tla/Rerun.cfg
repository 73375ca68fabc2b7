\* One Deployment, one fault.
\* The cluster may come to rest: a state without successor is no error.
SPECIFICATION Spec
CONSTANTS
    NoRun = NoRun
    Runs <- OneRuns
    Deployments <- OneDeployment
    Banners <- OneBanner
    Ansible <- Nobodys
    BrokenRepos <- Nobodys
    PostDeployment <- NoPostDeployment
    BannerOf <- OneBannerOf
    JobOf <- OneJobOf
    PipelineRunOf <- OnePipelineRunOf
    GeneratedNames <- OneGenerated
    MaxConcurrentReconciles = 5
    Budgets <- OneFault
PROPERTIES
    NoRunAfterOutcome
CHECK_DEADLOCK FALSE
