\* One Deployment, without any fault.
\* The cluster may come to rest: a state without successor is no error.
SPECIFICATION Spec
CONSTANTS
    NoRun = NoRun
    Runs <- OneRuns
    Deployments <- OneDeployment
    Banners <- OneBanner
    Ansible <- Nobodys
    BrokenRepos <- Nobodys
    PostDeployment <- NoPostDeployment
    BannerOf <- OneBannerOf
    JobOf <- OneJobOf
    PipelineRunOf <- OnePipelineRunOf
    GeneratedNames <- OneGenerated
    MaxConcurrentReconciles = 5
    Budgets <- NoFaults
INVARIANTS
    BannerFollowsCR
CHECK_DEADLOCK FALSE
