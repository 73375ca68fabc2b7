\* A worker, a master and two pods that come and go; one fault, one restart,
\* one manual edit of the ConfigMap.  Polling never ends: deadlock is checked.
SPECIFICATION FairSpec
CONSTANTS
    Nodes <- TwoNodes
    Pods <- TwoPods
    Budget <- OneOfEach
INVARIANTS
    TypeOK
    IInv
    PublishedIsDurable
PROPERTIES
    FallsOnlyWhenStale
    LastingLoadIsRecorded
