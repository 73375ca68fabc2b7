\* A second PipelineRun of one Deployment under generated names, when the status
\* write that records the first is lost or not yet read.  NoSecondRun is expected
\* to be violated.
\* The cluster may come to rest: a state without successor is no error.
SPECIFICATION Spec
CONSTANTS
    NoRun = NoRun
    Runs <- GeneratedRuns
    Deployments <- OneDeployment
    Banners <- OneBanner
    Ansible <- Nobodys
    BrokenRepos <- Nobodys
    PostDeployment <- NoPostDeployment
    BannerOf <- OneBannerOf
    JobOf <- OneJobOf
    PipelineRunOf <- GeneratedPipelineRunOf
    GeneratedNames <- GeneratedPool
    MaxConcurrentReconciles = 5
    Budgets <- FaultOrRestart
PROPERTIES
    NoSecondRun
CHECK_DEADLOCK FALSE
