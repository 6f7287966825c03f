\* Convergence of the warm pool: two replicas, bounded failures and a
\* bounded attacher whose detaches release the addresses they assigned.
CONSTANTS
    NumENIs = 4
    WarmPool = 1
    MaxIPs = 2
    MaxFailures = 2
    MaxEnvSteps = 2
    AttachmentFK = TRUE
    DetachLeavesIPs = FALSE
    LostCommitAck = TRUE
    MissingInCloud = {}
    InitAttached = {4}
    w1 = w1
    w2 = w2
    Workers <- MCWorkers
SPECIFICATION Spec
INVARIANT NoOrphanRow
PROPERTY Converges
CHECK_DEADLOCK FALSE
