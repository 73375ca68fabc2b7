\* Every call may fail and every process may end at any time.
SPECIFICATION FairSpec
INVARIANTS
    IInv
    AppIsServed
PROPERTIES
    RunEnds
