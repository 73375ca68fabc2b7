\* A parent and its child; three requests of users are accepted: creations,
\* edits and deletions, of specs on either side of every rule.  A refused
\* request is no step, so a state without successor is no error.
SPECIFICATION FairSpec
CONSTANTS
    Names <- Both
    PostDeployName <- ChildOf
    UserSpecs <- Samples
    MaxUserWrites = 3
INVARIANTS
    IInv
    StoredIsValid
    SourceAgrees
    ChildAccepted
    OwnUpdatesAccepted
PROPERTIES
    OwnUpdatesGetThrough
    ChildIsCreated
CHECK_DEADLOCK FALSE
