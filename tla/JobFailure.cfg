\* An Ansible Deployment under fairness, without any fault.
\* The cluster may come to rest: a state without successor is no error.
SPECIFICATION FairSpec
CONSTANTS
    NoRun = NoRun
    Runs <- OneRuns
    Deployments <- OneDeployment
    Banners <- OneBanner
    Ansible <- OnlyA
    BrokenRepos <- Nobodys
    PostDeployment <- NoPostDeployment
    BannerOf <- OneBannerOf
    JobOf <- OneJobOf
    PipelineRunOf <- OnePipelineRunOf
    GeneratedNames <- OneGenerated
    MaxConcurrentReconciles = 5
    Budgets <- NoFaults
PROPERTIES
    JobFailureIsReported
CHECK_DEADLOCK FALSE
