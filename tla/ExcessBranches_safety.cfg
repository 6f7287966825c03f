\* Two replicas trim one subnet of four branch ENIs while the attacher
\* attaches, assigns addresses and detaches, leaving stray addresses; the
\* interface of the oldest row is already gone from the cloud.
CONSTANTS
    NumENIs = 4
    WarmPool = 1
    MaxIPs = 2
    MaxFailures = 1
    MaxEnvSteps = 3
    AttachmentFK = TRUE
    DetachLeavesIPs = TRUE
    LostCommitAck = FALSE
    MissingInCloud = {1}
    InitAttached = {4}
    w1 = w1
    w2 = w2
    Workers <- MCWorkers
SPECIFICATION Spec
SYMMETRY MCWorkerSymmetry
INVARIANT TypeOK NoAttachedDeleted LockInv ReclaimInv LedgerCloudAgreement
PROPERTY NoBusyCloudDelete ReclaimerRefined SnapshotKeepsWarmPool
CHECK_DEADLOCK FALSE
