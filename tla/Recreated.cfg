\* A Deployment that is deleted and created again under fairness, its PipelineRun
\* name fixed.  EveryLifeGetsARun is expected to be violated.
\* The cluster may come to rest: a state without successor is no error.
SPECIFICATION FairSpec
CONSTANTS
    NoRun = NoRun
    Runs <- OneRuns
    Deployments <- OneDeployment
    Banners <- OneBanner
    Ansible <- Nobodys
    BrokenRepos <- Nobodys
    PostDeployment <- NoPostDeployment
    BannerOf <- OneBannerOf
    JobOf <- OneJobOf
    PipelineRunOf <- OnePipelineRunOf
    GeneratedNames <- OneGenerated
    MaxConcurrentReconciles = 5
    Budgets <- TwoLives
PROPERTIES
    EveryLifeGetsARun
CHECK_DEADLOCK FALSE
