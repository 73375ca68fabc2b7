\* Two Deployments with one PipelineRun name and one banner name; a deletion or a
\* fault.
\* The cluster may come to rest: a state without successor is no error.
SPECIFICATION Spec
CONSTANTS
    NoRun = NoRun
    Runs <- SharedRuns
    Deployments <- SharedDeployments
    Banners <- OneBanner
    Ansible <- Nobodys
    BrokenRepos <- Nobodys
    PostDeployment <- NoPostDeployment
    BannerOf <- SharedBannerOf
    JobOf <- SharedJobOf
    PipelineRunOf <- SharedPipelineRunOf
    GeneratedNames <- SharedGenerated
    MaxConcurrentReconciles = 5
    Budgets <- TwoKeys
INVARIANTS
    OutcomeIsOwn
PROPERTIES
    BannerNeedsFinalizer
CHECK_DEADLOCK FALSE
