\* Every stopped task is eventually reclaimed: three tasks, GC called again
\* and again, up to two failed calls.
CONSTANTS
    SourceOfTruth = "kubernetes"
    MaxFailures = 2
    t1 = t1
    t2 = t2
    t3 = t3
    Tasks <- MCTasks
SPECIFICATION Spec
PROPERTY Reclaimed
