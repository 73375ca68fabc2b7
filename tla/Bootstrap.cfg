\* Two overlapping pods, two faults, one crash, one rotation of the token,
\* one spoilt edit of the operator's ConfigMap.
\* Once a process serves and the other waits for the lease, nothing is left to
\* do: a state without successor is no error.
SPECIFICATION FairSpec
CONSTANTS
    Processes = {p1, p2}
    NoProcess = NoProcess
    TaskFiles = {f1, f2}
    Tokens = {t1, t2}
    NoToken = NoToken
    Budget <- TwoFaultsOneCrash
INVARIANTS
    IInv
    MountedOnce
    ServesPrepared
PROPERTIES
    EventuallyServes
CHECK_DEADLOCK FALSE
