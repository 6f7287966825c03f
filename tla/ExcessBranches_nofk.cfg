\* The attachment table without a foreign key to branch_enis: the DELETE's
\* NOT IN subquery is the only guard against a concurrent attach.
CONSTANTS
    NumENIs = 3
    WarmPool = 1
    MaxIPs = 1
    MaxFailures = 0
    MaxEnvSteps = 2
    AttachmentFK = FALSE
    DetachLeavesIPs = FALSE
    LostCommitAck = FALSE
    MissingInCloud = {}
    InitAttached = {}
    w1 = w1
    w2 = w2
    Workers <- MCOneWorker
SPECIFICATION Spec
INVARIANT NoAttachedDeleted
CHECK_DEADLOCK FALSE
