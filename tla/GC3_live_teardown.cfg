\* A task launched and set up between the listing and the GCV3 call.
CONSTANTS
    SourceOfTruth = "kubernetes"
    MaxFailures = 0
    t1 = t1
    t2 = t2
    t3 = t3
    Tasks <- MCTasks
SPECIFICATION Spec
INVARIANT NoLiveTeardown
