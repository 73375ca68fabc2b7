\* Three children, the second a CustomRun; one failed call, one write by others,
\* one restart.  The cluster may come to rest: a state without successor is no
\* error.
SPECIFICATION FairSpec
CONSTANTS
    Runs <- OneRun
    NoRun = NoRun
    NumTasks = 3
    NumSteps = 1
    CustomRuns <- SecondTask
    Budgets <- Disturbances
INVARIANTS
    IInv
    EntriesAreReal
    ReportedOnce
    Explained
PROPERTIES
    ReportIsFinal
    FailureIsStored
CHECK_DEADLOCK FALSE
